------------------------ MODULE AdapterChannelProofs ------------------------
(***************************************************************************)
(* Proofs about the Events() channel of a TUI adapter, for any number of   *)
(* watchers, of goroutines that call Close, any buffer and any number of   *)
(* chunks.  ChannelInv says how far a Close has come from what it has      *)
(* closed; QueueInv adds the numbers of the chunks, and carries the        *)
(* refinement of EventQueue.                                               *)
(***************************************************************************)
EXTENDS AdapterChannel, FiniteSetTheorems, TLAPS

Places == {"loop", "check", "select", "parked", "exited", "panicked"}

(* The goroutine that closes: past the start of closeOnce, not yet done. *)
InClose(c) == closer[c] \in {"stop", "events"}

ChannelTypes ==
  /\ at \in [Watchers -> Places]
  /\ closer \in [Closers -> {"idle", "stop", "events", "done"}]
  /\ stopped \in BOOLEAN /\ closed \in BOOLEAN

(* closeOnce: one goroutine closes, and nobody is done while it does. *)
OneCloses ==
  \A c, d \in Closers :
    InClose(c) /\ closer[d] # "idle" => c = d

(* What each point of Close has closed. *)
CloseProgress ==
  \A c \in Closers :
    /\ closer[c] = "events" => stopped
    /\ closer[c] = "done" => stopped /\ closed

(* stopCh first: it is closed whenever events is, and closing it leaves    *)
(* nobody parked.                                                          *)
StopComesFirst ==
  /\ closed => stopped
  /\ stopped => Parked = {}

ChannelInv == ChannelTypes /\ OneCloses /\ CloseProgress /\ StopComesFirst

-----------------------------------------------------------------------------
LEMMA InitChannel == Init => ChannelInv
  BY DEF Init, ChannelInv, ChannelTypes, Places, OneCloses, InClose,
     CloseProgress, StopComesFirst, Parked

(* A watcher's step: it parks only while stopCh is open, and touches no     *)
(* part of Close.                                                           *)
LEMMA WatcherKeepsChannel ==
  ASSUME ChannelInv, NEW w \in Watchers, WatcherStep(w)
  PROVE  ChannelInv'
<1> USE DEF ChannelInv, ChannelTypes, Places, Goto, closeVars, chanVars
<1>1. CASE LoopExits(w)
  BY <1>1 DEF LoopExits, OneCloses, InClose, CloseProgress, StopComesFirst, Parked
<1>2. CASE LoopEmits(w)
  BY <1>2 DEF LoopEmits, OneCloses, InClose, CloseProgress, StopComesFirst, Parked
<1>3. CASE EmitCheck(w)
  BY <1>3 DEF EmitCheck, OneCloses, InClose, CloseProgress, StopComesFirst, Parked
<1>4. CASE EmitSends(w)
  BY <1>4 DEF EmitSends, OneCloses, InClose, CloseProgress, StopComesFirst, Parked
<1>5. CASE EmitStops(w)
  BY <1>5 DEF EmitStops, OneCloses, InClose, CloseProgress, StopComesFirst, Parked
<1>6. CASE EmitParks(w)
  BY <1>6 DEF EmitParks, OneCloses, InClose, CloseProgress, StopComesFirst, Parked
<1>7. CASE EmitPanics(w)
  BY <1>7 DEF EmitPanics, OneCloses, InClose, CloseProgress, StopComesFirst, Parked
<1> QED
  BY <1>1, <1>2, <1>3, <1>4, <1>5, <1>6, <1>7 DEF WatcherStep

(* A receive only ever takes a sender out of the parked ones. *)
LEMMA ReceiveKeepsChannel ==
  ASSUME ChannelInv, Receive
  PROVE  ChannelInv'
  BY DEF ChannelInv, ChannelTypes, Places, Receive, Goto, closeVars,
     watcherVars, OneCloses, InClose, CloseProgress, StopComesFirst, Parked

(* The steps of Close, in closeOnce's order. *)
LEMMA CloseKeepsChannel ==
  ASSUME ChannelInv, NEW c \in Closers, CloseStep(c)
  PROVE  ChannelInv'
<1> USE DEF ChannelInv, ChannelTypes, Places, watcherVars, chanVars
<1>1. CASE CloseBegins(c)
  BY <1>1 DEF CloseBegins, Closing, OneCloses, InClose, CloseProgress,
     StopComesFirst, Parked
<1>2. CASE CloseWaits(c)
  BY <1>2 DEF CloseWaits, OneCloses, InClose, CloseProgress, StopComesFirst, Parked
<1>3. CASE CloseStop(c)
  <2>1. ChannelTypes'
    BY <1>3 DEF CloseStop
  <2>2. OneCloses' /\ CloseProgress'
    BY <1>3 DEF CloseStop, OneCloses, InClose, CloseProgress
  <2>3. StopComesFirst'
    BY <1>3 DEF CloseStop, StopComesFirst, Parked
  <2> QED BY <2>1, <2>2, <2>3
<1>4. CASE CloseEvents(c)
  <2>1. ChannelTypes'
    BY <1>4 DEF CloseEvents
  <2>2. OneCloses' /\ CloseProgress'
    BY <1>4 DEF CloseEvents, OneCloses, InClose, CloseProgress
  <2>3. StopComesFirst'
    BY <1>4 DEF CloseEvents, StopComesFirst, CloseProgress, Parked
  <2> QED BY <2>1, <2>2, <2>3
<1> QED
  BY <1>1, <1>2, <1>3, <1>4 DEF CloseStep

LEMMA ChannelStep == ChannelInv /\ [Next]_vars => ChannelInv'
<1> SUFFICES ASSUME ChannelInv, [Next]_vars PROVE ChannelInv'
  OBVIOUS
<1>1. CASE \E w \in Watchers : WatcherStep(w)
  BY <1>1, WatcherKeepsChannel
<1>2. CASE Receive
  BY <1>2, ReceiveKeepsChannel
<1>3. CASE \E c \in Closers : CloseStep(c)
  BY <1>3, CloseKeepsChannel
<1>4. CASE CtxCancelled \/ UNCHANGED vars
  BY <1>4 DEF CtxCancelled, vars, watcherVars, closeVars, ChannelInv,
     ChannelTypes, OneCloses, InClose, CloseProgress, StopComesFirst, Parked
<1> QED
  BY <1>1, <1>2, <1>3, <1>4 DEF Next

THEOREM ChannelInvariant == Spec => []ChannelInv
<1> QED BY InitChannel, ChannelStep, PTL DEF Spec

-----------------------------------------------------------------------------
(* Whatever the number of watchers that wait for room in the channel, none *)
(* of them is left parked on it when Close has closed it: Close's order,   *)
(* stopCh before events, is what the code relies on.                       *)
THEOREM NobodyParkedCorrect == Spec => []NobodyParkedOnClosed
<1>1. ChannelInv => NobodyParkedOnClosed
  BY DEF ChannelInv, StopComesFirst, NobodyParkedOnClosed
<1> QED BY <1>1, ChannelInvariant, PTL

(* closeOnce, for any number of callers: at most one of them closes, and   *)
(* each of them returns to an adapter that is closed.                      *)
THEOREM CloseIsDoneCorrect == Spec => []CloseIsDone
<1>1. ChannelInv => CloseIsDone
  <2> SUFFICES ASSUME ChannelInv PROVE CloseIsDone
    OBVIOUS
  <2> DEFINE Busy == {c \in Closers : closer[c] \in {"stop", "events"}}
  <2>1. Cardinality(Busy) <= 1
    <3>1. CASE Busy = {}
      BY <3>1, FS_EmptySet
    <3>2. CASE Busy # {}
      <4>1. PICK c \in Closers : c \in Busy
        BY <3>2
      <4>2. Busy = {c}
        BY <4>1 DEF ChannelInv, OneCloses, InClose
      <4> HIDE DEF Busy
      <4> QED BY <4>2, FS_Singleton
    <3> QED BY <3>1, <3>2
  <2> QED BY <2>1 DEF ChannelInv, CloseProgress, CloseIsDone
<1> QED BY <1>1, ChannelInvariant, PTL

(* Once stopCh is closed, a watcher that has not yet passed emit's first    *)
(* look at it reaches neither the send nor the panic: the window of emit is *)
(* that one look, however many watchers there are.                          *)
THEOREM LateEmitCorrect == Spec => LateEmitIsTurnedBack
<1> DEFINE Turned ==
      \A w \in Watchers :
        stopped /\ at[w] # "select" /\ at'[w] # at[w]
          => at'[w] \notin {"select", "panicked"}
<1>1. ChannelInv /\ [Next]_vars => [Turned]_vars
  <2> SUFFICES ASSUME ChannelInv, Next, NEW w \in Watchers,
                      stopped, at[w] # "select", at'[w] # at[w]
               PROVE  at'[w] \notin {"select", "panicked"}
    OBVIOUS
  <2> USE DEF ChannelInv, ChannelTypes, Goto
  <2>1. CASE \E v \in Watchers : WatcherStep(v)
    BY <2>1 DEF WatcherStep, LoopExits, LoopEmits, EmitCheck, EmitSends,
       EmitStops, EmitParks, EmitPanics
  <2>2. CASE Receive
    BY <2>2 DEF Receive, watcherVars
  <2>3. CASE \E c \in Closers : CloseStep(c)
    BY <2>3 DEF CloseStep, CloseBegins, CloseWaits, CloseStop, CloseEvents,
       watcherVars
  <2>4. CASE CtxCancelled
    BY <2>4 DEF CtxCancelled, watcherVars
  <2> QED BY <2>1, <2>2, <2>3, <2>4 DEF Next
<1> QED BY <1>1, ChannelInvariant, PTL DEF Spec, LateEmitIsTurnedBack

-----------------------------------------------------------------------------
(* The channel as a queue. *)

Chunks == [from : Watchers, number : 1..MaxChunks]

(* A watcher inside emit has a chunk in hand, and the chunks of each        *)
(* watcher are numbered upwards: the one in hand is above all that went in. *)
Emitting == {"check", "select", "parked"}

Numbered ==
  /\ \A w \in Watchers : at[w] \in Emitting => emitted[w] # 0
  /\ \A i \in 1..Len(Log) :
       /\ Log[i].number <= emitted[Log[i].from]
       /\ at[Log[i].from] \in Emitting => Log[i].number < emitted[Log[i].from]

QueueInv == ChannelInv /\ TypeOK /\ Numbered

LEMMA AppendBehind ==
  ASSUME NEW S, NEW s \in Seq(S), NEW e \in S, NEW r \in Seq(S)
  PROVE  /\ Append(s, e) \in Seq(S)
         /\ Len(Append(s, e)) = Len(s) + 1
         /\ \A i \in 1..Len(s) : Append(s, e)[i] = s[i]
         /\ Append(s, e)[Len(s) + 1] = e
         /\ r \o Append(s, e) = Append(r \o s, e)
  OBVIOUS

LEMMA MoveHead ==
  ASSUME NEW S, NEW s \in Seq(S), s # << >>, NEW r \in Seq(S)
  PROVE  /\ Head(s) \in S /\ Tail(s) \in Seq(S) /\ Len(Tail(s)) = Len(s) - 1
         /\ Append(r, Head(s)) \o Tail(s) = r \o s
         /\ Len(Append(r, Head(s))) = Len(r) + 1
  OBVIOUS

LEMMA LogTypes ==
  ASSUME TypeOK
  PROVE  /\ Log \in Seq(Chunks) /\ Len(Log) = Len(received) + Len(events)
         /\ events \in Seq(Chunks) /\ received \in Seq(Chunks)
         /\ Len(received) \in Nat /\ Len(events) \in Nat
         /\ \A i \in 1..Len(Log) : Log[i] \in Chunks
<1>1. events \in Seq(Chunks) /\ received \in Seq(Chunks)
  BY DEF TypeOK, Chunks
<1>2. Log \in Seq(Chunks) /\ Len(Log) = Len(received) + Len(events)
  BY <1>1 DEF Log
<1> QED BY <1>1, <1>2

LEMMA InitQueue == Init => QueueInv
<1> SUFFICES ASSUME Init PROVE QueueInv
  OBVIOUS
<1>1. TypeOK
  <2>1. /\ << >> \in Seq([from : Watchers, number : 1..MaxChunks])
        /\ << >> \in Seq(1..MaxChunks)
    OBVIOUS
  <2>2. 0 \in 0..MaxChunks /\ 0 <= ChanCap /\ Len(<< >>) = 0
    BY AdapterChannelAssumption
  <2> QED BY <2>1, <2>2 DEF Init, TypeOK
<1>2. Numbered
  BY DEF Init, Numbered, Emitting, Log
<1> QED BY <1>1, <1>2, InitChannel DEF QueueInv

(* A step that leaves the chunks alone and starts no emit. *)
LEMMA NumbersStay ==
  ASSUME Numbered, TypeOK, Log' = Log, emitted' = emitted,
         \A w \in Watchers : at'[w] \in Emitting => at[w] \in Emitting
  PROVE  Numbered'
<1>1. \A i \in 1..Len(Log) : Log[i].from \in Watchers
  BY LogTypes DEF Chunks
<1> QED BY <1>1 DEF Numbered

(* The chunk in hand goes in. *)
LEMMA ChunkGoesIn ==
  ASSUME Numbered, TypeOK, NEW w \in Watchers, at[w] \in Emitting
  PROVE  /\ emitted[w] \in 1..MaxChunks /\ Chunk(w, emitted[w]) \in Chunks
         /\ \A i \in 1..Len(Log) : Log[i].from = w => Log[i].number < emitted[w]
         /\ Log' = Append(Log, Chunk(w, emitted[w])) /\ emitted' = emitted
            /\ at' = [at EXCEPT ![w] = "loop"] => Numbered'
<1>1. emitted[w] \in 1..MaxChunks /\ Chunk(w, emitted[w]) \in Chunks
  BY AdapterChannelAssumption DEF TypeOK, Numbered, Chunk, Chunks
<1>2. \A i \in 1..Len(Log) : Log[i].from = w => Log[i].number < emitted[w]
  BY DEF Numbered
<1>3. ASSUME Log' = Append(Log, Chunk(w, emitted[w])), emitted' = emitted,
             at' = [at EXCEPT ![w] = "loop"]
      PROVE  Numbered'
  <2>1. /\ Len(Log') = Len(Log) + 1 /\ Len(Log) \in Nat
        /\ \A i \in 1..Len(Log) : Log'[i] = Log[i] /\ Log[i].from \in Watchers
        /\ Log'[Len(Log) + 1] = Chunk(w, emitted[w])
    BY <1>1, <1>3, LogTypes, AppendBehind DEF Chunks
  <2>2. at'[w] \notin Emitting /\ \A v \in Watchers \ {w} : at'[v] = at[v]
    BY <1>3 DEF TypeOK, Emitting
  <2>3. \A v \in Watchers : at'[v] \in Emitting => emitted'[v] # 0
    BY <1>3, <2>2 DEF Numbered
  <2>4. ASSUME NEW i \in 1..Len(Log')
        PROVE  /\ Log'[i].number <= emitted'[Log'[i].from]
               /\ at'[Log'[i].from] \in Emitting => Log'[i].number < emitted'[Log'[i].from]
    <3>1. CASE i \in 1..Len(Log)
      <4>1. Log'[i] = Log[i] /\ Log[i].from \in Watchers
        BY <3>1, <2>1
      <4> QED BY <4>1, <3>1, <2>2, <1>3 DEF Numbered
    <3>2. CASE i = Len(Log) + 1
      <4>1. Log'[i].from = w /\ Log'[i].number = emitted[w]
        BY <3>2, <2>1 DEF Chunk
      <4> QED BY <4>1, <2>2, <1>1, <1>3
    <3> QED BY <3>1, <3>2, <2>1
  <2> QED BY <2>3, <2>4 DEF Numbered
<1> QED BY <1>1, <1>2, <1>3

(* A send: types, numbers and the queue's own step. *)
LEMMA SendKeepsQueue ==
  ASSUME QueueInv, NEW w \in Watchers, EmitSends(w)
  PROVE  TypeOK' /\ Numbered' /\ Queue!Put(Chunk(w, emitted[w]))
<1> DEFINE c == Chunk(w, emitted[w])
<1> USE DEF EmitSends, Goto
<1>1. at[w] \in Emitting /\ TypeOK /\ Numbered
  BY DEF QueueInv, Emitting
<1>2. c \in Chunks /\ emitted[w] \in 1..MaxChunks
  BY <1>1, ChunkGoesIn
<1>3. /\ events' \in Seq(Chunks) /\ Len(events') = Len(events) + 1
      /\ received \o events' = Append(Log, c)
  BY <1>1, <1>2, LogTypes, AppendBehind DEF Log
<1>4. Log' = Append(Log, c) /\ received' = received /\ emitted' = emitted
  BY <1>3 DEF Log
<1>5. Numbered'
  BY <1>1, <1>4, ChunkGoesIn
<1>6. TypeOK'
  <2>2. at' \in [Watchers -> {"loop", "check", "select", "parked", "exited", "panicked"}]
    BY <1>1 DEF TypeOK
  <2>3. Len(events') <= ChanCap
    BY <1>1, <1>3, LogTypes, AdapterChannelAssumption
  <2> QED BY <1>1, <1>3, <2>2, <2>3 DEF TypeOK, Chunks, closeVars
<1>7. Queue!Put(c)
  <2>1. Len(Log) - Len(received) < ChanCap
    BY <1>1, LogTypes, AdapterChannelAssumption
  <2>2. \A i \in 1..Len(Log) : Log[i].from = c.from => Log[i].number < c.number
    BY <1>1, ChunkGoesIn DEF Chunk
  <2> QED BY <2>1, <2>2, <1>4 DEF Queue!Put, Queue!Admit, Log, closeVars
<1> QED BY <1>5, <1>6, <1>7

(* A receive: the chunk comes out, and a parked sender's goes in. *)
LEMMA ReceiveKeepsQueue ==
  ASSUME QueueInv, Receive
  PROVE  /\ TypeOK' /\ Numbered'
         /\ Queue!Take \/ \E c \in Chunks : Queue!Pass(c)
<1> USE DEF Receive
<1>1. TypeOK /\ Numbered /\ ChannelInv
  BY DEF QueueInv
<1>2. /\ events \in Seq(Chunks) /\ received \in Seq(Chunks) /\ events # << >>
      /\ Len(events) \in Nat /\ Len(received) \in Nat /\ Len(events) <= ChanCap
      /\ Len(Log) = Len(received) + Len(events)
  BY <1>1, LogTypes DEF TypeOK
<1>3. /\ Head(events) \in Chunks /\ Tail(events) \in Seq(Chunks)
      /\ Len(Tail(events)) = Len(events) - 1
      /\ received' \o Tail(events) = Log
      /\ Len(received') = Len(received) + 1
  BY <1>2, MoveHead DEF Log
<1>4. received' \in Seq(Chunks)
  BY <1>2, <1>3
<1>5. Len(received) < Len(Log) /\ Len(Tail(events)) + 1 <= ChanCap
      /\ Len(Tail(events)) <= ChanCap
  <2>1. Len(events) # 0
    BY <1>2
  <2> QED BY <2>1, <1>2, <1>3, AdapterChannelAssumption
<1>6. CASE Parked = {}
  <2>1. events' = Tail(events) /\ UNCHANGED watcherVars
    BY <1>6
  <2>2. Log' = Log
    BY <2>1, <1>3 DEF Log
  <2>3. Numbered'
    BY <2>1, <2>2, <1>1, NumbersStay DEF watcherVars
  <2>4. TypeOK'
    <3>1. Len(events') <= ChanCap
      BY <2>1, <1>5
    <3> QED BY <1>1, <1>3, <1>4, <2>1, <3>1 DEF TypeOK, Chunks, watcherVars, closeVars
  <2>5. Queue!Take
    BY <2>2, <1>3, <1>5 DEF Queue!Take, Log, closeVars
  <2> QED BY <2>3, <2>4, <2>5
<1>7. CASE Parked # {}
  <2>1. PICK w \in Parked :
          /\ events' = Append(Tail(events), Chunk(w, emitted[w]))
          /\ Goto(w, "loop")
          /\ UNCHANGED emitted
    BY <1>7
  <2> DEFINE c == Chunk(w, emitted[w])
  <2>2. w \in Watchers /\ at[w] \in Emitting
    BY DEF Parked, Emitting
  <2>3. c \in Chunks /\ emitted[w] \in 1..MaxChunks
    BY <1>1, <2>2, ChunkGoesIn
  <2>4. /\ events' \in Seq(Chunks) /\ Len(events') = Len(Tail(events)) + 1
        /\ received' \o events' = Append(received' \o Tail(events), c)
    <3>1. Tail(events) \in Seq(Chunks) /\ received' \in Seq(Chunks) /\ c \in Chunks
          /\ events' = Append(Tail(events), c)
      BY <1>3, <1>4, <2>1, <2>3
    <3> HIDE DEF c
    <3>2. /\ Append(Tail(events), c) \in Seq(Chunks)
          /\ Len(Append(Tail(events), c)) = Len(Tail(events)) + 1
          /\ received' \o Append(Tail(events), c) = Append(received' \o Tail(events), c)
      BY <3>1, AppendBehind
    <3> QED BY <3>1, <3>2
  <2>5. Log' = Append(Log, c) /\ emitted' = emitted /\ at' = [at EXCEPT ![w] = "loop"]
    BY <1>3, <2>1, <2>4 DEF Log, Goto
  <2>6. Numbered'
    BY <1>1, <2>2, <2>5, ChunkGoesIn
  <2>7. TypeOK'
    <3>2. at' \in [Watchers -> {"loop", "check", "select", "parked", "exited", "panicked"}]
      BY <1>1, <2>2, <2>5 DEF TypeOK
    <3>3. Len(events') <= ChanCap
      BY <2>4, <1>5, AdapterChannelAssumption
    <3> QED BY <1>1, <1>4, <2>4, <2>5, <3>2, <3>3 DEF TypeOK, Chunks, closeVars
  <2>8. ~closed
    BY <1>1, <1>7 DEF ChannelInv, StopComesFirst
  <2>9. \A i \in 1..Len(Log) : Log[i].from = c.from => Log[i].number < c.number
    BY <1>1, <2>2, ChunkGoesIn DEF Chunk
  <2>10. Queue!Pass(c)
    BY <2>5, <2>8, <2>9, <1>3, <1>5 DEF Queue!Pass, Queue!Admit, Log, closeVars
  <2> QED BY <2>3, <2>6, <2>7, <2>10
<1> QED BY <1>6, <1>7

(* Every other step of a watcher, and of Close, leaves the queue alone but  *)
(* for Close's last.                                                        *)
LEMMA OthersKeepQueue ==
  ASSUME QueueInv,
         \/ \E w \in Watchers : WatcherStep(w) /\ ~EmitSends(w)
         \/ \E c \in Closers : CloseStep(c)
         \/ CtxCancelled \/ UNCHANGED vars
  PROVE  /\ TypeOK' /\ Numbered'
         /\ Queue!Shut \/ UNCHANGED <<received \o events, Len(received), closed>>
<1> USE DEF closeVars, chanVars, watcherVars
<1>1. TypeOK /\ Numbered /\ ChannelInv
  BY DEF QueueInv
<1>2. UNCHANGED chanVars
  BY DEF WatcherStep, LoopExits, LoopEmits, EmitCheck, EmitStops, EmitParks,
     EmitPanics, CloseStep, CloseBegins, CloseWaits, CloseStop, CloseEvents,
     CtxCancelled, vars
<1>3. Log' = Log
  BY <1>2 DEF Log
<1>4. ASSUME NEW w \in Watchers, LoopEmits(w)
      PROVE  TypeOK' /\ Numbered' /\ UNCHANGED closed
  <2>1. /\ emitted' = [emitted EXCEPT ![w] = @ + 1]
        /\ at' = [at EXCEPT ![w] = "check"] /\ emitted[w] < MaxChunks
        /\ UNCHANGED <<closeVars, ctxDone>>
    BY <1>4 DEF LoopEmits, Goto
  <2>2. emitted[w] \in Nat /\ emitted[w] + 1 \in 0..MaxChunks
    BY <1>1, <2>1, AdapterChannelAssumption DEF TypeOK
  <2>3. emitted' \in [Watchers -> 0..MaxChunks]
    BY <1>1, <2>1, <2>2 DEF TypeOK
  <2>4. at' \in [Watchers -> {"loop", "check", "select", "parked", "exited", "panicked"}]
    BY <1>1, <2>1 DEF TypeOK
  <2>5. TypeOK'
    BY <1>1, <1>2, <2>1, <2>3, <2>4 DEF TypeOK
  <2>6. /\ \A v \in Watchers \ {w} : at'[v] = at[v] /\ emitted'[v] = emitted[v]
        /\ emitted'[w] = emitted[w] + 1
    BY <1>1, <2>1 DEF TypeOK
  <2>7. ASSUME NEW i \in 1..Len(Log)
        PROVE  /\ Log[i].number <= emitted'[Log[i].from]
               /\ at'[Log[i].from] \in Emitting => Log[i].number < emitted'[Log[i].from]
    <3>1. Log[i] \in Chunks
      BY <1>1, LogTypes
    <3>2. Log[i].from \in Watchers /\ Log[i].number \in Nat
      BY <3>1 DEF Chunks
    <3>3. CASE Log[i].from = w
      BY <3>2, <3>3, <2>2, <2>6, <1>1 DEF Numbered
    <3>4. CASE Log[i].from # w
      BY <3>2, <3>4, <2>6, <1>1 DEF Numbered
    <3> QED BY <3>3, <3>4
  <2>8. \A v \in Watchers : at'[v] \in Emitting => emitted'[v] # 0
    BY <1>1, <2>2, <2>6 DEF Numbered
  <2>9. Numbered'
    BY <1>3, <2>7, <2>8 DEF Numbered
  <2> QED BY <2>1, <2>5, <2>9
<1>5. ASSUME NEW w \in Watchers,
             LoopExits(w) \/ EmitCheck(w) \/ EmitStops(w) \/ EmitParks(w) \/ EmitPanics(w)
      PROVE  TypeOK' /\ Numbered' /\ UNCHANGED closed
  <2>1. /\ UNCHANGED <<emitted, closeVars, ctxDone>>
        /\ \A v \in Watchers : at'[v] \in Emitting => at[v] \in Emitting
        /\ at' \in [Watchers -> {"loop", "check", "select", "parked", "exited", "panicked"}]
    BY <1>1, <1>5 DEF LoopExits, EmitCheck, EmitStops, EmitParks, EmitPanics, Goto,
       TypeOK, Emitting
  <2>2. Numbered'
    BY <1>1, <1>3, <2>1, NumbersStay
  <2> QED BY <1>1, <1>2, <2>1, <2>2 DEF TypeOK
<1>6. ASSUME NEW c \in Closers, CloseStep(c)
      PROVE  TypeOK' /\ Numbered' /\ (Queue!Shut \/ UNCHANGED closed)
  <2>1. /\ UNCHANGED <<emitted, ctxDone>>
        /\ \A v \in Watchers : at'[v] \in Emitting => at[v] \in Emitting
        /\ at' \in [Watchers -> {"loop", "check", "select", "parked", "exited", "panicked"}]
    BY <1>1, <1>6 DEF CloseStep, CloseBegins, CloseWaits, CloseStop, CloseEvents,
       TypeOK, Emitting
  <2>2. closer' \in [Closers -> {"idle", "stop", "events", "done"}]
    BY <1>1, <1>6 DEF CloseStep, CloseBegins, CloseWaits, CloseStop, CloseEvents, TypeOK
  <2>3. stopped' \in BOOLEAN
    BY <1>1, <1>6 DEF CloseStep, CloseBegins, CloseWaits, CloseStop, CloseEvents, TypeOK
  <2>4. closed' \in BOOLEAN
    BY <1>1, <1>6 DEF CloseStep, CloseBegins, CloseWaits, CloseStop, CloseEvents, TypeOK
  <2>5. Numbered'
    BY <1>1, <1>3, <2>1, NumbersStay
  <2>6. TypeOK'
    BY <1>1, <1>2, <2>1, <2>2, <2>3, <2>4 DEF TypeOK
  <2>7. UNCHANGED closed \/ (~closed /\ closed')
    BY <1>1, <1>6 DEF CloseStep, CloseBegins, CloseWaits, CloseStop, CloseEvents, TypeOK
  <2> QED BY <1>2, <2>5, <2>6, <2>7 DEF Queue!Shut, Log
<1>7. CASE CtxCancelled \/ UNCHANGED vars
  <2>1. UNCHANGED <<at, emitted, closeVars>>
    BY <1>7 DEF CtxCancelled, vars
  <2>2. ctxDone' \in BOOLEAN
    BY <1>1, <1>7 DEF CtxCancelled, vars, TypeOK
  <2>3. Numbered'
    BY <1>1, <1>3, <2>1, NumbersStay
  <2> QED BY <1>1, <1>2, <2>1, <2>2, <2>3 DEF TypeOK
<1> QED BY <1>2, <1>4, <1>5, <1>6, <1>7 DEF WatcherStep

LEMMA QueueStep == QueueInv /\ [Next]_vars => QueueInv' /\ [Queue!Next]_Queue!queueVars
<1> SUFFICES ASSUME QueueInv, [Next]_vars
             PROVE  QueueInv' /\ [Queue!Next]_Queue!queueVars
  OBVIOUS
<1>1. ChannelInv'
  BY ChannelStep DEF QueueInv
<1>2. CASE \E w \in Watchers : EmitSends(w)
  <2>1. PICK w \in Watchers : EmitSends(w)
    BY <1>2
  <2>2. Chunk(w, emitted[w]) \in Chunks
    BY <2>1, ChunkGoesIn DEF QueueInv, EmitSends, Emitting
  <2> QED BY <1>1, <2>1, <2>2, SendKeepsQueue DEF QueueInv, Queue!Next, Chunks
<1>3. CASE Receive
  BY <1>1, <1>3, ReceiveKeepsQueue DEF QueueInv, Queue!Next, Chunks
<1>4. CASE \/ \E w \in Watchers : WatcherStep(w) /\ ~EmitSends(w)
           \/ \E c \in Closers : CloseStep(c)
           \/ CtxCancelled \/ UNCHANGED vars
  BY <1>1, <1>4, OthersKeepQueue DEF QueueInv, Queue!Next, Queue!queueVars, Log
<1> QED
  BY <1>2, <1>3, <1>4 DEF Next

(* The types, for any number of watchers and any buffer: a buffer never     *)
(* holds more than its capacity, with parked senders served too.            *)
THEOREM ChannelTypesCorrect == Spec => []TypeOK
<1>1. QueueInv => TypeOK
  BY DEF QueueInv
<1>2. Init => QueueInv
  BY InitQueue
<1>3. QueueInv /\ [Next]_vars => QueueInv'
  BY QueueStep
<1> QED BY <1>1, <1>2, <1>3, PTL DEF Spec

(* emit, the pump's receive and Close together are the queue the shim       *)
(* relies on: first in first out, each watcher's chunks in its own order,   *)
(* never above the buffer's capacity, and nothing goes in once it is shut.  *)
THEOREM ChannelImplementsQueue == Spec => ChannelIsAQueue
<1>1. Init => QueueInv /\ Queue!Init
  BY InitQueue DEF Init, Queue!Init, Log
<1>2. QueueInv /\ [Next]_vars => QueueInv' /\ [Queue!Next]_Queue!queueVars
  BY QueueStep
<1> QED BY <1>1, <1>2, PTL DEF Spec, ChannelIsAQueue, Queue!Spec

=============================================================================
