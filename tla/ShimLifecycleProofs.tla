------------------------ MODULE ShimLifecycleProofs ------------------------
(***************************************************************************)
(* Proofs about the life of a shim, for any set of prompt requests and any *)
(* Configs.  LifeInv ties what exists on the connection, the adapter and   *)
(* runCtx to the point RunWithConn has reached: at the end, at Close, and  *)
(* in between.  WholeInv is about the shim that serves: start leaves out   *)
(* nothing of what it promises, and nothing of it goes before runCtx does. *)
(***************************************************************************)
EXTENDS ShimLifecycle, TLAPS

(* The points of RunWithConn from which a failed start may still turn back. *)
Starting == {"register", "endpoints", "adapter", "subscribe"}

LifeTypes ==
  /\ main \in Starting \cup {"spawn", "wait", "svcStop", "close", "cancel", "returned",
                            "crashed"}
  /\ failed \in BOOLEAN /\ signalSub \in BOOLEAN
  /\ runDone \in BOOLEAN /\ closed \in BOOLEAN

(* The signal subscription exists from the end of start to the first step  *)
(* of stop.                                                                *)
SignalsBetween == signalSub => main \in {"spawn", "wait"}

(* The endpoints are gone from svc.Stop on, whoever called it.             *)
EndpointsGoneAfterStop ==
  main \in {"close", "cancel", "returned", "crashed"} => endpoints = << >>

(* stop runs under a cancelled runCtx; the deferred cancel covers the rest. *)
StopsWhenDone == main \in {"svcStop", "close", "returned", "crashed"} => runDone

(* RunWithConn leaves through an error of start or through Close.          *)
LeavesFailedOrClosed == main \in {"cancel", "returned"} => failed \/ closed

ClosedLast == closed => main \in {"cancel", "returned", "crashed"} /\ runDone

(* The process dies of one thing only: an answer of the echo adapter that    *)
(* meets the channel its Close has closed.                                   *)
OnlyEchoCrashes == main = "crashed" => cfg.echo /\ closed

LifeInv ==
  /\ LifeTypes /\ SignalsBetween /\ EndpointsGoneAfterStop
  /\ StopsWhenDone /\ LeavesFailedOrClosed /\ ClosedLast
  /\ OnlyEchoCrashes

-----------------------------------------------------------------------------
LEMMA InitLife == Init => LifeInv
  BY DEF Init, LifeInv, LifeTypes, Starting, SignalsBetween, EndpointsGoneAfterStop,
     StopsWhenDone, LeavesFailedOrClosed, ClosedLast, OnlyEchoCrashes

(* RunWithConn itself. *)
LEMMA MainKeepsLife ==
  ASSUME LifeInv, MainStep
  PROVE  LifeInv'
<1> USE DEF LifeInv, LifeTypes, Starting, SignalsBetween, EndpointsGoneAfterStop,
            StopsWhenDone, LeavesFailedOrClosed, ClosedLast, OnlyEchoCrashes, StartVars
<1>1. CASE RegisterService
  BY <1>1 DEF RegisterService, StartFails, adapterVars
<1>2. CASE AddEndpoint
  BY <1>2 DEF AddEndpoint, adapterVars
<1>3. CASE EndpointFails
  BY <1>3 DEF EndpointFails, StartFails, adapterVars
<1>4. CASE StartAdapter
  <2>1. UNCHANGED closed
    BY <1>4 DEF StartAdapter, AdapterStart
  <2> QED BY <1>4, <2>1 DEF StartAdapter, StartFails
<1>5. CASE SubscribeSignals
  <2>1. CASE main' = "spawn" /\ signalSub' = TRUE /\ UNCHANGED <<failed, endpoints>>
    BY <1>5, <2>1 DEF SubscribeSignals, adapterVars
  <2>2. CASE StartFails /\ UNCHANGED signalSub
    BY <1>5, <2>2 DEF SubscribeSignals, StartFails, adapterVars
  <2> QED BY <1>5, <2>1, <2>2 DEF SubscribeSignals
<1>6. CASE SpawnLoops
  BY <1>6 DEF SpawnLoops, adapterVars
<1>7. CASE Unsubscribe
  BY <1>7 DEF Unsubscribe, adapterVars
<1>8. CASE StopService
  BY <1>8 DEF StopService, adapterVars
<1>9. CASE CloseAdapter
  BY <1>9 DEF CloseAdapter
<1>10. CASE Return
  BY <1>10 DEF Return, adapterVars
<1> QED
  BY <1>1, <1>2, <1>3, <1>4, <1>5, <1>6, <1>7, <1>8, <1>9, <1>10 DEF MainStep

(* What everybody else does to it: at most runCtx is cancelled. *)
LifeFrame == UNCHANGED <<cfg, main, failed, endpoints, signalSub, closed>>

LEMMA FrameKeepsLife ==
  ASSUME LifeInv, LifeFrame, UNCHANGED runDone \/ runDone' = TRUE
  PROVE  LifeInv'
  BY DEF LifeInv, LifeFrame, LifeTypes, SignalsBetween, EndpointsGoneAfterStop,
     StopsWhenDone, LeavesFailedOrClosed, ClosedLast, OnlyEchoCrashes

(* The goroutines RunWithConn spawns end, and may cancel runCtx. *)
LEMMA LoopKeepsLife ==
  ASSUME LifeInv, LoopStep \/ EndTurn \/ PumpTakes \/ (\E w \in watchers : WatcherStep(w))
  PROVE  LifeInv'
<1>1. LifeFrame /\ (UNCHANGED runDone \/ runDone' = TRUE)
  BY DEF LoopStep, HeartbeatExits, PumpExits, PaneGone, PaneWatchExits, LoopVars, adapterVars,
     EndTurn, PumpTakes, RunVars, WatcherStep, WatcherExits, WatcherParks, WatcherResumes,
     WatcherFrame, LifeFrame
<1> QED BY <1>1, FrameKeepsLife

(* The callbacks of prompt requests: an echo that meets the closed channel  *)
(* ends the process, whatever RunWithConn was at.                           *)
LEMMA HandlerKeepsLife ==
  ASSUME LifeInv, NEW t \in Turns, Arrive(t) \/ HandlerStep(t)
  PROVE  LifeInv'
<1>1. CASE EchoSendsOnClosed(t)
  BY <1>1 DEF EchoSendsOnClosed, adapterVars, LifeInv, LifeTypes, SignalsBetween,
     EndpointsGoneAfterStop, StopsWhenDone, LeavesFailedOrClosed, ClosedLast, OnlyEchoCrashes
<1>2. CASE ~EchoSendsOnClosed(t)
  <2>1. LifeFrame /\ UNCHANGED runDone
    BY <1>2 DEF HandlerStep, Arrive, Dispatch, OnPromptStarts, AdapterStart, OnPromptChecks,
       OnPromptTypes, EchoAnswers, PromptFails, RunVars, adapterVars, LifeFrame
  <2> QED BY <2>1, FrameKeepsLife
<1> QED BY <1>1, <1>2

LEMMA OutsideKeepsLife ==
  ASSUME LifeInv, PaneDies \/ CallerCancels \/ UNCHANGED vars
  PROVE  LifeInv'
<1>1. LifeFrame /\ (UNCHANGED runDone \/ runDone' = TRUE)
  BY DEF PaneDies, CallerCancels, vars, adapterVars, LifeFrame
<1> QED BY <1>1, FrameKeepsLife

LEMMA LifeStep == LifeInv /\ [Next]_vars => LifeInv'
  BY MainKeepsLife, LoopKeepsLife, HandlerKeepsLife, OutsideKeepsLife DEF Next

(* Whatever RunWithConn, its goroutines, the prompts and the pane do, what *)
(* exists agrees with the point RunWithConn has reached.                   *)
THEOREM LifeInvariant == Spec => []LifeInv
  BY LifeStep, InitLife, PTL DEF Spec

-----------------------------------------------------------------------------
(* Whichever step of start failed, RunWithConn returns with its endpoints  *)
(* and its subscription gone and runCtx cancelled, the adapter closed      *)
(* unless start failed.                                                    *)
THEOREM NothingLeftBehindCorrect == Spec => []NothingLeftBehind
<1>1. LifeInv => NothingLeftBehind
  BY DEF LifeInv, LifeTypes, SignalsBetween, EndpointsGoneAfterStop,
     StopsWhenDone, LeavesFailedOrClosed, NothingLeftBehind
<1> QED BY <1>1, LifeInvariant, PTL

-----------------------------------------------------------------------------
(* The types.  start stops registering endpoints with the last of the plan. *)

EndpointNames == {"prompt", "status", "prompt_slug", "status_slug"}

Registering ==
  /\ main = "register" => endpoints = << >>
  /\ main = "endpoints" => Len(endpoints) < Len(EndpointPlan)

LEMMA PlanTyped == EndpointPlan \in Seq(EndpointNames) /\ Len(EndpointPlan) >= 2
<1>1. <<"prompt", "status">> \in Seq(EndpointNames) /\ Len(<<"prompt", "status">>) = 2
  BY DEF EndpointNames
<1>2. /\ <<"prompt_slug", "status_slug">> \in Seq(EndpointNames)
      /\ Len(<<"prompt_slug", "status_slug">>) = 2
  BY DEF EndpointNames
<1>3. << >> \in Seq(EndpointNames) /\ Len(<< >>) = 0
  OBVIOUS
<1>4. ASSUME NEW p \in Seq(EndpointNames), NEW q \in Seq(EndpointNames)
      PROVE  /\ p \o q \in Seq(EndpointNames) /\ Len(p \o q) = Len(p) + Len(q)
             /\ Len(p) \in Nat /\ Len(q) \in Nat
  OBVIOUS
<1>5. PublishLegacy \/ cfg.slug
  BY DEF PublishLegacy
<1>6. CASE PublishLegacy /\ cfg.slug
  BY <1>1, <1>2, <1>4, <1>6 DEF EndpointPlan
<1>7. CASE PublishLegacy /\ ~cfg.slug
  BY <1>1, <1>3, <1>4, <1>7 DEF EndpointPlan
<1>8. CASE ~PublishLegacy /\ cfg.slug
  BY <1>2, <1>3, <1>4, <1>8 DEF EndpointPlan
<1> QED BY <1>5, <1>6, <1>7, <1>8

LEMMA InitLifeTypes == Init => TypeOK /\ Registering
<1> SUFFICES ASSUME Init PROVE TypeOK /\ Registering
  OBVIOUS
<1>1. endpoints = << >> /\ << >> \in Seq(EndpointNames) /\ Len(endpoints) = 0 /\ 1..0 = {}
  BY DEF Init
<1>2. loops \in [Loops -> {"off", "on", "exited"}]
  BY DEF Init
<1>3. at \in [Turns -> {"new", "queued", "onPrompt", "check", "send",
                        "failing", "sent", "over"}]
  BY DEF Init
<1>4. Len(EndpointPlan) \in Nat
  BY PlanTyped
<1>5. Registering
  BY <1>1 DEF Init, Registering
<1>6. /\ endpoints \in Seq({"prompt", "status", "prompt_slug", "status_slug"})
      /\ Len(endpoints) <= Len(EndpointPlan)
      /\ \A i \in 1..Len(endpoints) : endpoints[i] = EndpointPlan[i]
  BY <1>1, <1>4, PlanTyped DEF EndpointNames
<1>7. watchers \subseteq Watchers /\ cancelled \subseteq Turns
  BY DEF Init
<1>8. parked \subseteq watchers /\ answers \in 0..EchoRoom
  BY ShimLifecycleAssumption DEF Init
<1> QED BY <1>2, <1>3, <1>5, <1>6, <1>7, <1>8 DEF Init, TypeOK

(* The endpoints go on by one, stay, or go. *)
LEMMA EndpointsStep ==
  ASSUME TypeOK, Registering, [Next]_vars
  PROVE  /\ cfg' = cfg
         /\ endpoints' \in Seq(EndpointNames) /\ Len(endpoints') <= Len(EndpointPlan)
         /\ \A i \in 1..Len(endpoints') : endpoints'[i] = EndpointPlan[i]
         /\ Registering'
<1>0. /\ EndpointPlan \in Seq(EndpointNames) /\ Len(EndpointPlan) \in Nat
      /\ Len(EndpointPlan) >= 2 /\ endpoints \in Seq(EndpointNames)
      /\ Len(endpoints) \in Nat /\ Len(<< >>) = 0 /\ << >> \in Seq(EndpointNames)
  BY PlanTyped DEF TypeOK, EndpointNames
<1>1. cfg' = cfg
  BY DEF Next, MainStep, RegisterService, AddEndpoint, EndpointFails, StartAdapter,
     SubscribeSignals, SpawnLoops, Unsubscribe, StopService, CloseAdapter, Return,
     StartVars, LoopStep, HeartbeatExits, PumpExits, PaneGone, PaneWatchExits, LoopVars,
     WatcherStep, WatcherExits, WatcherParks, WatcherResumes, WatcherFrame, Arrive,
     HandlerStep, Dispatch, OnPromptStarts, OnPromptChecks, OnPromptTypes, EchoAnswers,
     EchoSendsOnClosed, PromptFails, EndTurn, PumpTakes, Release, RunVars, PaneDies,
     CallerCancels, vars
<1>2. EndpointPlan' = EndpointPlan
  BY <1>1 DEF EndpointPlan, PublishLegacy
<1>3. CASE AddEndpoint
  <2>1. /\ Len(endpoints) < Len(EndpointPlan)
        /\ endpoints' = Append(endpoints, EndpointPlan[Len(endpoints) + 1])
        /\ main' = IF Len(endpoints') = Len(EndpointPlan) THEN "adapter" ELSE main
        /\ main = "endpoints"
    BY <1>3 DEF AddEndpoint, Registering
  <2>2. EndpointPlan[Len(endpoints) + 1] \in EndpointNames
    BY <1>0, <2>1
  <2>3. /\ endpoints' \in Seq(EndpointNames) /\ Len(endpoints') = Len(endpoints) + 1
        /\ \A i \in 1..Len(endpoints) : endpoints'[i] = endpoints[i]
        /\ endpoints'[Len(endpoints) + 1] = EndpointPlan[Len(endpoints) + 1]
    BY <1>0, <2>1, <2>2
  <2>4. ASSUME NEW i \in 1..Len(endpoints') PROVE endpoints'[i] = EndpointPlan[i]
    <3>1. i \in 1..Len(endpoints) \/ i = Len(endpoints) + 1
      BY <1>0, <2>3
    <3> QED BY <2>3, <3>1 DEF TypeOK
  <2> QED BY <1>0, <1>1, <1>2, <2>1, <2>3, <2>4 DEF Registering
<1>4. CASE ~AddEndpoint
  <2>1. \/ endpoints' = << >> /\ main' # "register"
        \/ endpoints' = endpoints /\ (main' = main \/ main' \notin {"register", "endpoints"})
    BY <1>4 DEF Next, MainStep, RegisterService, EndpointFails, StartAdapter, StartFails,
       SubscribeSignals, SpawnLoops, Unsubscribe, StopService, CloseAdapter, Return,
       StartVars, LoopStep, HeartbeatExits, PumpExits, PaneGone, PaneWatchExits, LoopVars,
       WatcherStep, WatcherExits, WatcherParks, WatcherResumes, WatcherFrame, Arrive,
       HandlerStep, Dispatch, OnPromptStarts, OnPromptChecks, OnPromptTypes, EchoAnswers,
       EchoSendsOnClosed, PromptFails, EndTurn, PumpTakes, Release, RunVars, PaneDies,
       CallerCancels, vars, Registering
  <2>2. CASE endpoints' = << >> /\ main' # "register"
    <3>1. 1..Len(endpoints') = {}
      BY <1>0, <2>2
    <3>2. Registering'
      BY <1>0, <1>2, <2>2 DEF Registering
    <3> QED BY <1>0, <1>1, <2>2, <3>1, <3>2
  <2>3. CASE endpoints' = endpoints /\ (main' = main \/ main' \notin {"register", "endpoints"})
    <3>1. Registering'
      BY <1>2, <2>3 DEF Registering
    <3> QED BY <1>0, <1>1, <2>3, <3>1 DEF TypeOK
  <2> QED BY <2>1, <2>2, <2>3
<1> QED BY <1>3, <1>4

LEMMA StartTyped ==
  ASSUME TypeOK, cfg' = cfg, NEW ctx \in Turns \cup {"run"}, AdapterStart(ctx)
  PROVE  /\ closed' \in BOOLEAN /\ started' \in {"no", "yes", "failed"}
         /\ boundTo' \in Turns \cup {"none", "run"} /\ watchers' \subseteq Watchers'
         /\ parked' \subseteq watchers' /\ answers' \in 0..EchoRoom
<1>1. Watchers' = Watchers
  BY DEF Watchers
<1>2. CASE StartWatchers(ctx) /\ UNCHANGED <<chunkVars, closed>>
  BY <1>1, <1>2 DEF StartWatchers, chunkVars, TypeOK
<1>3. CASE UNCHANGED adapterVars
  BY <1>1, <1>3 DEF adapterVars, chunkVars, TypeOK
<1> QED BY <1>2, <1>3 DEF AdapterStart, adapterVars

(* The variables of the adapter and of RunWithConn's goroutines. *)
LEMMA AdapterTyped ==
  ASSUME TypeOK, [Next]_vars, cfg' = cfg
  PROVE  /\ closed' \in BOOLEAN /\ started' \in {"no", "yes", "failed"}
         /\ boundTo' \in Turns \cup {"none", "run"} /\ watchers' \subseteq Watchers'
         /\ parked' \subseteq watchers' /\ answers' \in 0..EchoRoom
<1> USE DEF chunkVars
<1>1. Watchers' = Watchers
  BY DEF Watchers
<1>2. CASE StartAdapter
  BY <1>2, StartTyped DEF StartAdapter
<1>3. ASSUME NEW t \in Turns, OnPromptStarts(t)
      PROVE  UNCHANGED adapterVars \/ AdapterStart(t)
  BY <1>3 DEF OnPromptStarts
<1>4. CASE \E t \in Turns : AdapterStart(t)
  BY <1>4, StartTyped
<1>5. CASE UNCHANGED adapterVars
  BY <1>1, <1>5 DEF adapterVars, TypeOK
<1>6. CASE CloseAdapter \/ \E w \in watchers : WatcherStep(w)
  BY <1>1, <1>6 DEF CloseAdapter, WatcherStep, WatcherExits, WatcherParks, WatcherResumes,
     WatcherFrame, TypeOK
<1>7. CASE PumpTakes \/ \E t \in Turns : EchoAnswers(t)
  <2>1. /\ UNCHANGED <<closed, started, boundTo, watchers, parked>>
        /\ \/ answers' = answers + 1 /\ answers < EchoRoom
           \/ answers' = answers - 1 /\ answers > 0
    BY <1>7 DEF PumpTakes, EchoAnswers
  <2> QED BY <1>1, <2>1, ShimLifecycleAssumption DEF TypeOK
<1>8. \/ UNCHANGED adapterVars \/ StartAdapter \/ CloseAdapter \/ PumpTakes
      \/ \E w \in watchers : WatcherStep(w)
      \/ \E t \in Turns : OnPromptStarts(t) \/ EchoAnswers(t)
  BY DEF Next, MainStep, RegisterService, AddEndpoint, EndpointFails, SubscribeSignals,
     SpawnLoops, Unsubscribe, StopService, Return, LoopStep, HeartbeatExits, PumpExits,
     PaneGone, PaneWatchExits, LoopVars, Arrive, HandlerStep, Dispatch, OnPromptChecks,
     OnPromptTypes, EchoSendsOnClosed, PromptFails, EndTurn, PaneDies, CallerCancels, vars
<1> QED BY <1>2, <1>3, <1>4, <1>5, <1>6, <1>7, <1>8

LEMMA RunTyped ==
  ASSUME TypeOK, [Next]_vars
  PROVE  /\ failed' \in BOOLEAN /\ signalSub' \in BOOLEAN /\ runDone' \in BOOLEAN
         /\ main' \in {"register", "endpoints", "adapter", "subscribe", "spawn",
                       "wait", "svcStop", "close", "cancel", "returned", "crashed"}
         /\ pane' \in {"alive", "gone"}
         /\ loops' \in [Loops -> {"off", "on", "exited"}]
<1> USE DEF TypeOK
<1>1. CASE MainStep
  <2>1. /\ loops' \in [Loops -> {"off", "on", "exited"}]
        /\ pane' = pane
    BY <1>1 DEF MainStep, RegisterService, AddEndpoint, EndpointFails, StartAdapter,
       SubscribeSignals, SpawnLoops, Unsubscribe, StopService, CloseAdapter, Return, StartVars
  <2>2. failed' \in BOOLEAN /\ signalSub' \in BOOLEAN /\ runDone' \in BOOLEAN
    BY <1>1 DEF MainStep, RegisterService, AddEndpoint, EndpointFails, StartAdapter, StartFails,
       SubscribeSignals, SpawnLoops, Unsubscribe, StopService, CloseAdapter, Return, StartVars
  <2>3. main' \in {"register", "endpoints", "adapter", "subscribe", "spawn",
                   "wait", "svcStop", "close", "cancel", "returned"}
    BY <1>1 DEF MainStep, RegisterService, AddEndpoint, EndpointFails, StartAdapter, StartFails,
       SubscribeSignals, SpawnLoops, Unsubscribe, StopService, CloseAdapter, Return
  <2> QED BY <2>1, <2>2, <2>3
<1>2. CASE LoopStep
  BY <1>2 DEF LoopStep, HeartbeatExits, PumpExits, PaneGone, PaneWatchExits, LoopVars
<1>3. CASE \/ \E w \in watchers : WatcherStep(w)
           \/ \E t \in Turns : Arrive(t) \/ HandlerStep(t)
           \/ EndTurn \/ PumpTakes
  BY <1>3 DEF WatcherStep, WatcherExits, WatcherParks, WatcherResumes, WatcherFrame, Arrive,
     HandlerStep, Dispatch, OnPromptStarts, OnPromptChecks, OnPromptTypes, EchoAnswers,
     EchoSendsOnClosed, PromptFails, EndTurn, PumpTakes, Release, RunVars
<1>4. CASE PaneDies \/ CallerCancels \/ UNCHANGED vars
  BY <1>4 DEF PaneDies, CallerCancels, vars
<1> QED BY <1>1, <1>2, <1>3, <1>4 DEF Next

LEMMA PromptsTyped ==
  ASSUME TypeOK, [Next]_vars
  PROVE  /\ at' \in [Turns -> {"new", "queued", "onPrompt", "check", "send",
                               "failing", "sent", "over"}]
         /\ holder' \in Turns \cup {NoTurn} /\ cancelled' \subseteq Turns
<1> USE DEF TypeOK
<1>1. CASE UNCHANGED turnVars
  BY <1>1 DEF turnVars
<1>2. ASSUME NEW t \in Turns, Arrive(t) \/ HandlerStep(t)
      PROVE  /\ at' \in [Turns -> {"new", "queued", "onPrompt", "check", "send",
                                   "failing", "sent", "over"}]
             /\ holder' \in Turns \cup {NoTurn} /\ cancelled' \subseteq Turns
  BY <1>2 DEF Arrive, HandlerStep, Dispatch, OnPromptStarts, OnPromptChecks, OnPromptTypes,
     EchoAnswers, EchoSendsOnClosed, PromptFails, turnVars
<1>3. CASE EndTurn \/ PumpTakes
  BY <1>3 DEF EndTurn, PumpTakes, Release
<1>4. \/ UNCHANGED turnVars \/ EndTurn \/ PumpTakes
      \/ \E t \in Turns : Arrive(t) \/ HandlerStep(t)
  BY DEF Next, MainStep, RegisterService, AddEndpoint, EndpointFails, StartAdapter,
     SubscribeSignals, SpawnLoops, Unsubscribe, StopService, CloseAdapter, Return,
     StartVars, LoopStep, HeartbeatExits, PumpExits, PaneGone, PaneWatchExits, LoopVars,
     WatcherStep, WatcherExits, WatcherParks, WatcherResumes, WatcherFrame, PaneDies,
     CallerCancels, vars, turnVars
<1> QED BY <1>1, <1>2, <1>3, <1>4

LEMMA TypesStep == TypeOK /\ Registering /\ [Next]_vars => TypeOK' /\ Registering'
<1> SUFFICES ASSUME TypeOK, Registering, [Next]_vars PROVE TypeOK' /\ Registering'
  OBVIOUS
<1>1. cfg' = cfg /\ EndpointPlan' = EndpointPlan
  BY EndpointsStep DEF EndpointPlan, PublishLegacy
<1> QED BY <1>1, EndpointsStep, AdapterTyped, RunTyped, PromptsTyped
        DEF TypeOK, EndpointNames

(* Types, for any set of prompts and any Configs: start registers the       *)
(* endpoints of its plan in their order, and never one beyond it.           *)
THEOREM LifeTypesCorrect == Spec => []TypeOK
  BY TypesStep, InitLifeTypes, PTL DEF Spec

(* When Close is called no endpoint and no subscription is left and runCtx   *)
(* is done, and from then on no request arrives: what still reaches the      *)
(* closed adapter had arrived before svc.Stop and is drained.  Only echo     *)
(* does not survive that.                                                    *)
THEOREM CloseComesLastCorrect ==
  Spec => /\ []CloseComesLast
          /\ [][closed => \A t \in Turns : at[t] = "new" => at'[t] = "new"]_vars
          /\ [](main = "crashed" => cfg.echo /\ closed)
<1>1. LifeInv => CloseComesLast /\ (main = "crashed" => cfg.echo /\ closed)
  BY DEF LifeInv, LifeTypes, SignalsBetween, EndpointsGoneAfterStop,
     ClosedLast, CloseComesLast, OnlyEchoCrashes
<1>2. LifeInv /\ TypeOK /\ [Next]_vars
        => [closed => \A t \in Turns : at[t] = "new" => at'[t] = "new"]_vars
  <2> SUFFICES ASSUME LifeInv, TypeOK, [Next]_vars, closed,
                      NEW t \in Turns, at[t] = "new", at'[t] # "new"
               PROVE  FALSE
    OBVIOUS
  <2>1. PICK u \in Turns : Arrive(u) \/ HandlerStep(u)
    BY DEF Next, MainStep, RegisterService, AddEndpoint, EndpointFails, StartAdapter,
       SubscribeSignals, SpawnLoops, Unsubscribe, StopService, CloseAdapter, Return, StartVars,
       LoopStep, HeartbeatExits, PumpExits, PaneGone, PaneWatchExits, LoopVars, WatcherStep,
       WatcherExits, WatcherParks, WatcherResumes, WatcherFrame, EndTurn, PumpTakes, PaneDies,
       CallerCancels, vars, turnVars
  <2>2. u = t
    BY <2>1 DEF TypeOK, Arrive, HandlerStep, Dispatch, OnPromptStarts, OnPromptChecks,
       OnPromptTypes, EchoAnswers, EchoSendsOnClosed, PromptFails, turnVars
  <2>3. Arrive(t)
    BY <2>1, <2>2 DEF HandlerStep, Dispatch, OnPromptStarts, OnPromptChecks, OnPromptTypes,
       EchoAnswers, EchoSendsOnClosed, PromptFails
  <2>4. endpoints = << >> /\ 1..Len(<< >>) = {}
    BY <1>1 DEF CloseComesLast
  <2> QED BY <2>3, <2>4 DEF Arrive
<1> QED BY <1>1, <1>2, LifeInvariant, LifeTypesCorrect, PTL DEF Spec

-----------------------------------------------------------------------------
(* A shim that serves.  Whatever a start went through, RunWithConn comes to  *)
(* wait with all it promises, and nothing of it goes before its context does.*)

(* No request is typed, or echoed, by an adapter nobody started: what the   *)
(* agent says to it would reach no one.                                     *)
PromptsMeetAStartedAdapter ==
  \A t \in Turns : at[t] \in {"check", "send", "sent"} => started = "yes"

(* Nothing is spawned before start is over, and nothing leaves before        *)
(* runCtx is done.                                                           *)
LoopsServe ==
  /\ main \in Starting \cup {"spawn"} => \A l \in Loops : loops[l] = "off"
  /\ main = "wait" /\ ~runDone =>
       \A l \in Loops : loops[l] = "on" <=> (l # "paneWatch" \/ cfg.tmux)

PlanIsRegistered ==
  main \in {"adapter", "subscribe", "spawn", "wait"} =>
    Len(endpoints) = Len(EndpointPlan)

StartCompletes ==
  /\ main \in Starting \cup {"spawn", "wait"} => ~failed
  /\ main \in {"subscribe", "spawn", "wait", "svcStop", "close"} \/ closed => started = "yes"
  /\ main \in {"spawn", "wait"} => signalSub

(* Watchers that started leave with the context they are bound to, or on     *)
(* Close.                                                                    *)
WatchersGoWithTheirContext ==
  started = "yes" /\ watchers # Watchers => CtxDone(boundTo) \/ closed

NobodyBeforeRegistration == main = "register" => \A t \in Turns : at[t] = "new"

StartInv == LoopsServe /\ PlanIsRegistered /\ StartCompletes

WholeInv ==
  /\ StartInv /\ WatchersGoWithTheirContext
  /\ PromptsMeetAStartedAdapter /\ NobodyBeforeRegistration

LEMMA InitWhole == Init => WholeInv
  BY DEF Init, WholeInv, StartInv, LoopsServe, PlanIsRegistered, StartCompletes, Starting,
     WatchersGoWithTheirContext, PromptsMeetAStartedAdapter, NobodyBeforeRegistration

(* startOnce: an adapter that is started stays so. *)
LEMMA StartedForGood ==
  ASSUME [Next]_vars, started = "yes"
  PROVE  started' = "yes"
  BY DEF Next, MainStep, RegisterService, AddEndpoint, EndpointFails, StartAdapter,
     AdapterStart, SubscribeSignals, SpawnLoops, Unsubscribe, StopService, CloseAdapter,
     Return, LoopStep, HeartbeatExits, PumpExits, PaneGone, PaneWatchExits, LoopVars,
     WatcherStep, WatcherExits, WatcherParks, WatcherResumes, WatcherFrame, Arrive,
     HandlerStep, Dispatch, OnPromptStarts, OnPromptChecks, OnPromptTypes, EchoAnswers,
     EchoSendsOnClosed, PromptFails, EndTurn, PumpTakes, Release, PaneDies, CallerCancels,
     vars, adapterVars

(* The plan does not change: the Config does not. *)
LEMMA PlanStays ==
  ASSUME cfg' = cfg
  PROVE  EndpointPlan' = EndpointPlan
  BY DEF EndpointPlan, PublishLegacy

LEMMA MainKeepsWhole ==
  ASSUME LifeInv, WholeInv, TypeOK, Registering, MainStep
  PROVE  StartInv'
<1>1. cfg' = cfg /\ EndpointPlan' = EndpointPlan
  BY PlanStays DEF MainStep, RegisterService, AddEndpoint, EndpointFails, StartAdapter,
     SubscribeSignals, SpawnLoops, Unsubscribe, StopService, CloseAdapter, Return, StartVars
<1> USE <1>1 DEF WholeInv, StartInv, LoopsServe, PlanIsRegistered, StartCompletes, Starting,
                 StartVars, adapterVars
<1>2. CASE RegisterService
  BY <1>2 DEF RegisterService, StartFails
<1>3. CASE AddEndpoint
  BY <1>3 DEF AddEndpoint
<1>4. CASE EndpointFails
  BY <1>4 DEF EndpointFails, StartFails
<1>5. CASE StartAdapter
  <2>1. UNCHANGED closed /\ (started = "yes" => started' = "yes")
    BY <1>5 DEF StartAdapter, AdapterStart
  <2> QED BY <1>5, <2>1 DEF StartAdapter, StartFails, LifeInv, ClosedLast
<1>6. CASE SubscribeSignals
  BY <1>6 DEF SubscribeSignals, StartFails
<1>7. CASE SpawnLoops
  BY <1>7 DEF SpawnLoops, Loops
<1>8. CASE Unsubscribe \/ StopService \/ CloseAdapter \/ Return
  BY <1>8 DEF Unsubscribe, StopService, CloseAdapter, Return
<1> QED
  BY <1>2, <1>3, <1>4, <1>5, <1>6, <1>7, <1>8 DEF MainStep

(* A goroutine that ends finds runCtx done, or cancels it: before that, only *)
(* a closed adapter ends the pump, and then stop is long under way.          *)
LEMMA LoopKeepsWhole ==
  ASSUME LifeInv, WholeInv, LoopStep
  PROVE  StartInv'
<1>1. /\ cfg' = cfg /\ EndpointPlan' = EndpointPlan
      /\ UNCHANGED <<main, failed, endpoints, signalSub, started, closed>>
      /\ \E l \in Loops : loops[l] = "on"
      /\ runDone' \/ closed
  BY PlanStays DEF LoopStep, HeartbeatExits, PumpExits, PaneGone, PaneWatchExits, LoopVars,
     adapterVars, Loops
<1>2. main \notin Starting \cup {"spawn"}
  BY <1>1 DEF WholeInv, StartInv, LoopsServe
<1>3. main = "wait" => runDone'
  BY <1>1 DEF LifeInv, ClosedLast
<1> QED
  BY <1>1, <1>2, <1>3 DEF WholeInv, StartInv, LoopsServe, PlanIsRegistered, StartCompletes

LEMMA OthersKeepWhole ==
  ASSUME LifeInv, WholeInv, [Next]_vars, ~MainStep, ~LoopStep
  PROVE  StartInv'
<1>1. started = "yes" => started' = "yes"
  BY StartedForGood
<1>2. CASE main' = "crashed"
  <2>1. closed
    BY <1>2, LifeStep DEF LifeInv, OnlyEchoCrashes, Next, EchoSendsOnClosed, HandlerStep,
       Arrive, Dispatch, OnPromptStarts, OnPromptChecks, OnPromptTypes, EchoAnswers,
       PromptFails, AdapterStart, WatcherStep, WatcherExits, WatcherParks, WatcherResumes,
       WatcherFrame, EndTurn, PumpTakes, PaneDies, CallerCancels, vars, RunVars, adapterVars
  <2> QED BY <1>1, <1>2, <2>1 DEF WholeInv, StartInv, LoopsServe, PlanIsRegistered,
     StartCompletes, Starting
<1>3. CASE main' # "crashed"
  <2>1. /\ cfg' = cfg /\ EndpointPlan' = EndpointPlan
        /\ UNCHANGED <<main, failed, endpoints, signalSub, loops, closed>>
        /\ UNCHANGED runDone \/ runDone'
    BY <1>3, PlanStays DEF Next, WatcherStep, WatcherExits, WatcherParks, WatcherResumes,
       WatcherFrame, Arrive, HandlerStep, Dispatch, OnPromptStarts, AdapterStart,
       OnPromptChecks, OnPromptTypes, EchoAnswers, EchoSendsOnClosed, PromptFails, EndTurn,
       PumpTakes, PaneDies, CallerCancels, vars, RunVars, adapterVars
  <2> QED BY <1>1, <2>1 DEF WholeInv, StartInv, LoopsServe, PlanIsRegistered, StartCompletes
<1> QED BY <1>2, <1>3

(* Who starts the watchers binds all of them; nobody else touches them but   *)
(* themselves, and nothing takes back a cancelled context.                   *)
LEMMA StartKeepsWatchers ==
  ASSUME NEW ctx, AdapterStart(ctx), cfg' = cfg, UNCHANGED <<runDone, cancelled>>,
         WatchersGoWithTheirContext
  PROVE  WatchersGoWithTheirContext'
<1>1. Watchers' = Watchers
  BY DEF Watchers
<1>2. CASE started = "no"
  BY <1>1, <1>2 DEF AdapterStart, StartWatchers, WatchersGoWithTheirContext
<1>3. CASE started # "no"
  BY <1>1, <1>3 DEF AdapterStart, WatchersGoWithTheirContext, CtxDone
<1> QED BY <1>2, <1>3

LEMMA WatchersKeepGoing ==
  ASSUME WatchersGoWithTheirContext, [Next]_vars
  PROVE  WatchersGoWithTheirContext'
<1>1. cfg' = cfg /\ Watchers' = Watchers
  BY DEF Watchers, Next, MainStep, RegisterService, AddEndpoint, EndpointFails,
     StartAdapter, SubscribeSignals, SpawnLoops, Unsubscribe, StopService, CloseAdapter,
     Return, StartVars, LoopStep, HeartbeatExits, PumpExits, PaneGone, PaneWatchExits,
     LoopVars, WatcherStep, WatcherExits, WatcherParks, WatcherResumes, WatcherFrame, Arrive,
     HandlerStep, Dispatch, OnPromptStarts, OnPromptChecks, OnPromptTypes, EchoAnswers,
     EchoSendsOnClosed, PromptFails, EndTurn, PumpTakes, RunVars, PaneDies, CallerCancels, vars
<1>2. CASE StartAdapter
  BY <1>1, <1>2, StartKeepsWatchers DEF StartAdapter, StartVars, turnVars
<1>3. ASSUME NEW t \in Turns, OnPromptStarts(t), started # "yes"
      PROVE  WatchersGoWithTheirContext'
  BY <1>1, <1>3, StartKeepsWatchers DEF OnPromptStarts, RunVars
<1>4. ASSUME NEW w \in watchers, WatcherStep(w)
      PROVE  WatchersGoWithTheirContext'
  BY <1>1, <1>4 DEF WatcherStep, WatcherExits, WatcherParks, WatcherResumes, WatcherFrame,
     turnVars, WatchersGoWithTheirContext, CtxDone
<1>5. CASE /\ UNCHANGED <<started, boundTo, watchers>>
           /\ (closed => closed') /\ (runDone => runDone') /\ cancelled \subseteq cancelled'
  BY <1>1, <1>5 DEF WatchersGoWithTheirContext, CtxDone
<1>6. \/ StartAdapter
      \/ \E t \in Turns : OnPromptStarts(t) /\ started # "yes"
      \/ \E w \in watchers : WatcherStep(w)
      \/ UNCHANGED <<started, boundTo, watchers>>
  BY DEF Next, MainStep, RegisterService, AddEndpoint, EndpointFails, SubscribeSignals,
     SpawnLoops, Unsubscribe, StopService, CloseAdapter, Return, LoopStep, HeartbeatExits,
     PumpExits, PaneGone, PaneWatchExits, LoopVars, Arrive, HandlerStep, Dispatch,
     OnPromptStarts, OnPromptChecks, OnPromptTypes, EchoAnswers, EchoSendsOnClosed, PromptFails,
     EndTurn, PumpTakes, PaneDies, CallerCancels, vars, adapterVars
<1>7. closed => closed'
  BY DEF Next, MainStep, RegisterService, AddEndpoint, EndpointFails, StartAdapter,
     AdapterStart, SubscribeSignals, SpawnLoops, Unsubscribe, StopService, CloseAdapter,
     Return, LoopStep, HeartbeatExits, PumpExits, PaneGone, PaneWatchExits, LoopVars,
     WatcherStep, WatcherExits, WatcherParks, WatcherResumes, WatcherFrame, Arrive,
     HandlerStep, Dispatch, OnPromptStarts, OnPromptChecks, OnPromptTypes, EchoAnswers,
     EchoSendsOnClosed, PromptFails, EndTurn, PumpTakes, PaneDies, CallerCancels, vars,
     adapterVars
<1>8. runDone => runDone'
  BY DEF Next, MainStep, RegisterService, AddEndpoint, EndpointFails, StartAdapter,
     SubscribeSignals, SpawnLoops, Unsubscribe, StopService, CloseAdapter, Return, StartVars,
     LoopStep, HeartbeatExits, PumpExits, PaneGone, PaneWatchExits, WatcherStep, WatcherExits,
     WatcherParks, WatcherResumes, WatcherFrame, Arrive, HandlerStep, Dispatch, OnPromptStarts,
     OnPromptChecks, OnPromptTypes, EchoAnswers, EchoSendsOnClosed, PromptFails, EndTurn,
     PumpTakes, RunVars, PaneDies, CallerCancels, vars
<1>9. cancelled \subseteq cancelled'
  BY DEF Next, MainStep, RegisterService, AddEndpoint, EndpointFails, StartAdapter,
     SubscribeSignals, SpawnLoops, Unsubscribe, StopService, CloseAdapter, Return, StartVars,
     LoopStep, HeartbeatExits, PumpExits, PaneGone, PaneWatchExits, LoopVars, WatcherStep,
     WatcherExits, WatcherParks, WatcherResumes, WatcherFrame, Arrive, HandlerStep, Dispatch,
     OnPromptStarts, OnPromptChecks, OnPromptTypes, EchoAnswers, EchoSendsOnClosed, PromptFails,
     EndTurn, PumpTakes, Release, PaneDies, CallerCancels, vars, turnVars
<1> QED BY <1>2, <1>3, <1>4, <1>5, <1>6, <1>7, <1>8, <1>9

(* OnPrompt goes past its first step only with watchers, and echo's looks    *)
(* at its own flag.                                                          *)
LEMMA PromptsKeepMeeting ==
  ASSUME TypeOK, PromptsMeetAStartedAdapter, [Next]_vars
  PROVE  PromptsMeetAStartedAdapter'
<1>1. ASSUME NEW t \in Turns, at'[t] \in {"check", "send", "sent"}, at[t] # at'[t]
      PROVE  started' = "yes"
  <2>1. PICK u \in Turns : Arrive(u) \/ HandlerStep(u)
    BY <1>1 DEF Next, MainStep, RegisterService, AddEndpoint, EndpointFails, StartAdapter,
       SubscribeSignals, SpawnLoops, Unsubscribe, StopService, CloseAdapter, Return,
       StartVars, LoopStep, HeartbeatExits, PumpExits, PaneGone, PaneWatchExits, LoopVars,
       WatcherStep, WatcherExits, WatcherParks, WatcherResumes, WatcherFrame, EndTurn,
       PumpTakes, Release, PaneDies, CallerCancels, vars, turnVars
  <2>2. u = t
    BY <1>1, <2>1 DEF TypeOK, Arrive, HandlerStep, Dispatch, OnPromptStarts, OnPromptChecks,
       OnPromptTypes, EchoAnswers, EchoSendsOnClosed, PromptFails, turnVars
  <2>3. \/ OnPromptStarts(t) \/ OnPromptChecks(t)
        \/ OnPromptTypes(t) \/ EchoAnswers(t)
    BY <1>1, <2>1, <2>2 DEF TypeOK, Arrive, HandlerStep, Dispatch, EchoSendsOnClosed,
       PromptFails, turnVars
  <2>4. CASE OnPromptStarts(t)
    BY <1>1, <2>4 DEF TypeOK, OnPromptStarts
  <2>5. CASE OnPromptChecks(t)
    BY <1>1, <2>5 DEF TypeOK, OnPromptChecks, PromptsMeetAStartedAdapter, adapterVars
  <2>6. CASE OnPromptTypes(t) \/ EchoAnswers(t)
    BY <1>1, <2>6 DEF TypeOK, OnPromptTypes, EchoAnswers, PromptsMeetAStartedAdapter,
       adapterVars
  <2> QED BY <2>3, <2>4, <2>5, <2>6
<1>2. started = "yes" => started' = "yes"
  BY StartedForGood
<1> QED BY <1>1, <1>2 DEF PromptsMeetAStartedAdapter

(* The first endpoint is registered by the step after "register". *)
LEMMA RegistrationComesFirst ==
  ASSUME TypeOK, Registering, NobodyBeforeRegistration, [Next]_vars
  PROVE  NobodyBeforeRegistration'
<1> SUFFICES ASSUME main' = "register", NEW t \in Turns
             PROVE  at'[t] = "new"
  BY DEF NobodyBeforeRegistration
<1>1. main = "register" /\ ~MainStep
  BY DEF Next, MainStep, RegisterService, AddEndpoint, EndpointFails, StartAdapter, StartFails,
     SubscribeSignals, SpawnLoops, Unsubscribe, StopService, CloseAdapter, Return, LoopStep,
     HeartbeatExits, PumpExits, PaneGone, PaneWatchExits, LoopVars, WatcherStep, WatcherExits,
     WatcherParks, WatcherResumes, WatcherFrame, Arrive, HandlerStep, Dispatch, OnPromptStarts,
     OnPromptChecks, OnPromptTypes, EchoAnswers, EchoSendsOnClosed, PromptFails, EndTurn,
     PumpTakes, RunVars, PaneDies, CallerCancels, vars
<1>2. endpoints = << >> /\ 1..Len(<< >>) = {} /\ \A u \in Turns : at[u] = "new"
  BY <1>1 DEF Registering, NobodyBeforeRegistration
<1>3. \A u \in Turns : ~Arrive(u)
  BY <1>2 DEF Arrive
<1>4. \A u \in Turns : ~HandlerStep(u)
  BY <1>2 DEF HandlerStep, Dispatch, OnPromptStarts, OnPromptChecks, OnPromptTypes,
     EchoAnswers, EchoSendsOnClosed, PromptFails
<1>5. UNCHANGED at
  BY <1>1, <1>3, <1>4 DEF Next, LoopStep, HeartbeatExits, PumpExits, PaneGone, PaneWatchExits,
     LoopVars, WatcherStep, WatcherExits, WatcherParks, WatcherResumes, WatcherFrame, EndTurn,
     PumpTakes, PaneDies, CallerCancels, vars, turnVars
<1> QED BY <1>2, <1>5

LEMMA WholeInvCorrect == Spec => [](LifeInv /\ TypeOK /\ WholeInv)
<1>1. /\ Init => LifeInv /\ TypeOK /\ Registering /\ WholeInv
      /\ LifeInv /\ [Next]_vars => LifeInv'
      /\ TypeOK /\ Registering /\ [Next]_vars => TypeOK' /\ Registering'
  BY InitLife, InitLifeTypes, InitWhole, LifeStep, TypesStep
<1>2. LifeInv /\ TypeOK /\ Registering /\ WholeInv /\ [Next]_vars => WholeInv'
  BY MainKeepsWhole, LoopKeepsWhole, OthersKeepWhole, WatchersKeepGoing, PromptsKeepMeeting,
     RegistrationComesFirst DEF WholeInv
<1> QED BY <1>1, <1>2, PTL DEF Spec

(* The safety half of "a shim in a pane does not outlive it" and of "every   *)
(* goroutine ends": the ones that have to notice are there until they do,    *)
(* and so are the watchers, unless the turn that bound them is over.         *)
THEOREM ServingShimIsWholeCorrect == Spec => []ServingShimIsWhole
<1>1. LifeInv /\ WholeInv => ServingShimIsWhole
  BY DEF LifeInv, ClosedLast, WholeInv, StartInv, LoopsServe, PlanIsRegistered,
     StartCompletes, WatchersGoWithTheirContext, CtxDone, ServingShimIsWhole
<1> QED BY <1>1, WholeInvCorrect, PTL

(* From the moment start is past Adapter.Start, no prompt binds the watchers *)
(* to its context any more: the exception above is left to those that came   *)
(* earlier, and to what a failed start leaves.                               *)
THEOREM OnlyEarlyPromptsBindCorrect == Spec => OnlyEarlyPromptsBind
<1>1. LifeInv /\ TypeOK /\ WholeInv /\ [Next]_vars
        => [boundTo' # boundTo /\ boundTo' \in Turns =>
              main \in {"endpoints", "adapter"} \/ failed]_vars
  <2> SUFFICES ASSUME LifeInv, TypeOK, WholeInv, [Next]_vars,
                      boundTo' # boundTo, boundTo' \in Turns
               PROVE  main \in {"endpoints", "adapter"} \/ failed
    OBVIOUS
  <2>1. \/ StartAdapter
        \/ \E t \in Turns : OnPromptStarts(t) /\ main # "crashed"
    BY DEF Next, MainStep, RegisterService, AddEndpoint, EndpointFails, SubscribeSignals,
       SpawnLoops, Unsubscribe, StopService, CloseAdapter, Return, LoopStep, HeartbeatExits,
       PumpExits, PaneGone, PaneWatchExits, LoopVars, WatcherStep, WatcherExits, WatcherParks,
       WatcherResumes, WatcherFrame, Arrive, HandlerStep, Dispatch, OnPromptChecks,
       OnPromptTypes, EchoAnswers, EchoSendsOnClosed, PromptFails, EndTurn, PumpTakes,
       PaneDies, CallerCancels, vars, adapterVars
  <2>2. CASE StartAdapter
    BY <2>2 DEF StartAdapter
  <2>3. CASE \E t \in Turns : OnPromptStarts(t) /\ main # "crashed"
    <3>1. PICK t \in Turns : OnPromptStarts(t) /\ main # "crashed"
      BY <2>3
    <3>2. started = "no" /\ at[t] # "new"
      BY <3>1 DEF OnPromptStarts, AdapterStart, adapterVars, TypeOK
    <3> QED BY <3>1, <3>2 DEF LifeInv, LifeTypes, Starting, LeavesFailedOrClosed, WholeInv,
       StartInv, StartCompletes, NobodyBeforeRegistration
  <2> QED BY <2>1, <2>2, <2>3
<1> QED BY <1>1, WholeInvCorrect, PTL DEF Spec, OnlyEarlyPromptsBind

(* Also for a prompt that arrives in the middle of start, or is drained      *)
(* after stop.                                                               *)
THEOREM PromptsMeetAStartedAdapterCorrect == Spec => []PromptsMeetAStartedAdapter
<1>1. WholeInv => PromptsMeetAStartedAdapter
  BY DEF WholeInv
<1> QED BY <1>1, WholeInvCorrect, PTL
=============================================================================
