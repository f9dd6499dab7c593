--------------------------- MODULE ShimLifecycle ---------------------------
(***************************************************************************)
(* From RunWithConn to its return: start, the goroutines it spawns, the    *)
(* adapter's watchers, and stop.                                           *)
(*                                                                         *)
(* The actors are the goroutine of RunWithConn (main), the heartbeat loop, *)
(* the event pump and the pane watchdog it spawns, the adapter's watchers  *)
(* (file tailer and marker watcher), and one callback goroutine per prompt *)
(* request.  A prompt endpoint is live from the AddEndpoint that registers *)
(* it, so requests are dispatched while start is still at work; the        *)
(* service drains when it is stopped, so a request that arrived before is  *)
(* still dispatched after it.                                              *)
(*                                                                         *)
(* The slot is only its holder here: ShimTurn has its detail.  What a turn *)
(* matters for is its context, and who may end it.  Of the adapter's       *)
(* channel there is what blocks somebody: a watcher parked in emit, and    *)
(* the answers that wait in the echo adapter's channel.                    *)
(***************************************************************************)
EXTENDS Naturals, Sequences, FiniteSets

CONSTANTS
  Turns,       \* prompt requests; each arrives once
  NoTurn,
  Configs,     \* the Configs a shim may run with, as far as they matter here
  TuiWatchers, \* the goroutines Start of a TUI adapter spawns: two, three for codex
  EchoRoom     \* answers, of two chunks each, that fit echo's channel; 4 in the code

(* slug: InstanceID is set.  dualPublish: ORCH_SLUG_DUAL_PUBLISH is not    *)
(* "0".  tmux: the Locator is a tmux pane.  echo: the adapter is echo and  *)
(* not one that drives a TUI.                                              *)
Config == [slug : BOOLEAN, dualPublish : BOOLEAN, tmux : BOOLEAN, echo : BOOLEAN]

ASSUME ShimLifecycleAssumption ==
  /\ NoTurn \notin Turns /\ {"none", "run"} \cap Turns = {}
  /\ Configs \subseteq Config
  /\ EchoRoom \in Nat \ {0}

VARIABLES
  cfg,         \* its Config
  main,        \* where RunWithConn is; "crashed" when the process died of a panic
  failed,      \* start returned an error
  endpoints,   \* the endpoints registered and not stopped, in order
  signalSub,   \* the signal subscription is active
  runDone,     \* runCtx is cancelled
  loops,       \* the goroutines RunWithConn spawns
  pane,        \* the pane exists
  started,     \* outcome of the adapter's startOnce: "no", "yes", "failed"
  boundTo,     \* context of the watchers: "run" or the turn that started them
  watchers,    \* the watchers that run
  parked,      \* those of them that wait in emit for room in the channel
  answers,     \* how many answers of the echo adapter are in its channel
  closed,      \* Adapter.Close was called
  at,          \* where the handler of each request is
  holder,      \* the turn that holds the slot
  cancelled    \* turns whose context was cancelled

chunkVars == <<parked, answers>>
adapterVars == <<started, boundTo, watchers, chunkVars, closed>>
turnVars == <<at, holder, cancelled>>
vars == <<cfg, main, failed, endpoints, signalSub, runDone, loops, pane,
          adapterVars, turnVars>>

Loops == {"heartbeat", "pump", "paneWatch"}
Watchers == IF cfg.echo THEN {} ELSE TuiWatchers

PublishLegacy == ~cfg.slug \/ cfg.dualPublish

(* The endpoints start registers, in the order it does. *)
EndpointPlan ==
  (IF PublishLegacy THEN <<"prompt", "status">> ELSE << >>)
    \o (IF cfg.slug THEN <<"prompt_slug", "status_slug">> ELSE << >>)

(* Fault: the end of any turn ends the context. *)
CtxDoneOfAnyTurn(ctx) == runDone \/ cancelled # {}

CtxDone(ctx) == runDone \/ ctx \in cancelled

Init ==
  /\ cfg \in Configs
  /\ main = "register" /\ failed = FALSE
  /\ endpoints = << >> /\ signalSub = FALSE
  /\ runDone = FALSE
  /\ loops = [l \in Loops |-> "off"]
  /\ pane = "alive"
  /\ started = "no" /\ boundTo = "none" /\ watchers = {} /\ closed = FALSE
  /\ parked = {} /\ answers = 0
  /\ at = [t \in Turns |-> "new"]
  /\ holder = NoTurn
  /\ cancelled = {}

-----------------------------------------------------------------------------
(* The adapter. *)

(* Adapter.Start: startOnce runs startWatchers with the first context it   *)
(* is given; the marker directory or the fsnotify watch may be refused.    *)
StartWatchers(ctx) ==
  \/ /\ started' = "yes"
     /\ boundTo' = ctx
     /\ watchers' = Watchers
  \/ /\ ~cfg.echo
     /\ started' = "failed"
     /\ UNCHANGED <<boundTo, watchers>>

AdapterStart(ctx) ==
  /\ IF started = "no" THEN StartWatchers(ctx)
                       ELSE UNCHANGED <<started, boundTo, watchers>>
  /\ UNCHANGED <<chunkVars, closed>>

WatcherFrame == <<cfg, main, failed, endpoints, signalSub, runDone, loops, pane,
                  started, boundTo, answers, closed, turnVars>>

(* Fault: only Close ends a watcher. *)
WatcherExitsOnClose(w) ==
  /\ w \in watchers \ parked /\ closed
  /\ watchers' = watchers \ {w}
  /\ UNCHANGED <<parked, WatcherFrame>>

(* A watcher leaves its loop when its context is done or stopCh closed. *)
WatcherExits(w) ==
  /\ w \in watchers \ parked
  /\ CtxDone(boundTo) \/ closed
  /\ watchers' = watchers \ {w}
  /\ UNCHANGED <<parked, WatcherFrame>>

(* emit, past its look at stopCh, finds the channel full: it waits for room *)
(* or for stopCh, and for no context.  As long as a pump is at work, or may *)
(* come, there will be room; what is told apart is the watcher that waits   *)
(* when there is none any more.                                             *)
WatcherParks(w) ==
  /\ w \in watchers \ parked /\ ~closed
  /\ loops["pump"] = "exited" \/ failed
  /\ parked' = parked \cup {w}
  /\ UNCHANGED <<watchers, WatcherFrame>>

(* Close has closed stopCh. *)
WatcherResumes(w) ==
  /\ w \in parked /\ closed
  /\ parked' = parked \ {w}
  /\ UNCHANGED <<watchers, WatcherFrame>>

-----------------------------------------------------------------------------
(* start, step by step. *)

StartVars == <<cfg, runDone, loops, pane, turnVars>>

(* A step of start failed: an error is returned, after svc.Stop. *)
StartFails ==
  /\ main' = "cancel"
  /\ failed' = TRUE
  /\ endpoints' = << >>

(* Fault: the endpoints are left registered. *)
EndpointFailsUnstopped ==
  /\ main = "endpoints"
  /\ main' = "cancel" /\ failed' = TRUE
  /\ UNCHANGED <<endpoints, signalSub, adapterVars, StartVars>>

(* micro.AddService; nothing is registered when it fails. *)
RegisterService ==
  /\ main = "register"
  /\ \/ main' = "endpoints" /\ UNCHANGED <<failed, endpoints>>
     \/ StartFails
  /\ UNCHANGED <<signalSub, adapterVars, StartVars>>

AddEndpoint ==
  /\ main = "endpoints"
  /\ endpoints' = Append(endpoints, EndpointPlan[Len(endpoints) + 1])
  /\ main' = IF Len(endpoints') = Len(EndpointPlan) THEN "adapter" ELSE main
  /\ UNCHANGED <<failed, signalSub, adapterVars, StartVars>>

EndpointFails ==
  /\ main = "endpoints"
  /\ StartFails
  /\ UNCHANGED <<signalSub, adapterVars, StartVars>>

(* Fault: start leaves the adapter to the first prompt. *)
StartAdapterLater ==
  /\ main = "adapter" /\ main' = "subscribe"
  /\ UNCHANGED <<failed, endpoints, signalSub, adapterVars, StartVars>>

StartAdapter ==
  /\ main = "adapter"
  /\ AdapterStart("run")
  /\ IF started' = "yes" THEN main' = "subscribe" /\ UNCHANGED <<failed, endpoints>>
                         ELSE StartFails
  /\ UNCHANGED <<signalSub, StartVars>>

SubscribeSignals ==
  /\ main = "subscribe"
  /\ \/ main' = "spawn" /\ signalSub' = TRUE /\ UNCHANGED <<failed, endpoints>>
     \/ StartFails /\ UNCHANGED signalSub
  /\ UNCHANGED <<adapterVars, StartVars>>

-----------------------------------------------------------------------------
(* RunWithConn after start. *)

SpawnLoops ==
  /\ main = "spawn"
  /\ main' = "wait"
  /\ loops' = [l \in Loops |->
                 IF l = "paneWatch" /\ ~cfg.tmux THEN "off" ELSE "on"]
  /\ UNCHANGED <<cfg, failed, endpoints, signalSub, runDone, pane, adapterVars, turnVars>>

(* stop runs when runCtx is done: unsubscribe, svc.Stop, Adapter.Close. *)
Unsubscribe ==
  /\ main = "wait" /\ runDone
  /\ main' = "svcStop"
  /\ signalSub' = FALSE
  /\ UNCHANGED <<failed, endpoints, adapterVars, StartVars>>

(* Fault: the endpoints stay. *)
StopServiceForgets ==
  /\ main = "svcStop"
  /\ main' = "close"
  /\ UNCHANGED <<endpoints, failed, signalSub, adapterVars, StartVars>>

(* The service drains its subscriptions: nothing more arrives. *)
StopService ==
  /\ main = "svcStop"
  /\ main' = "close"
  /\ endpoints' = << >>
  /\ UNCHANGED <<failed, signalSub, adapterVars, StartVars>>

CloseAdapter ==
  /\ main = "close"
  /\ main' = "cancel"
  /\ closed' = TRUE
  /\ UNCHANGED <<failed, endpoints, signalSub, started, boundTo, watchers,
                 chunkVars, StartVars>>

(* The deferred cancel of RunWithConn, on every path. *)
Return ==
  /\ main = "cancel"
  /\ main' = "returned"
  /\ runDone' = TRUE
  /\ UNCHANGED <<cfg, failed, endpoints, signalSub, loops, pane, adapterVars, turnVars>>

-----------------------------------------------------------------------------
(* The goroutines RunWithConn spawns. *)

LoopVars == <<cfg, main, failed, endpoints, signalSub, pane, adapterVars, turnVars>>

HeartbeatExits ==
  /\ loops["heartbeat"] = "on" /\ runDone
  /\ loops' = [loops EXCEPT !["heartbeat"] = "exited"]
  /\ UNCHANGED <<runDone, LoopVars>>

PumpExits ==
  /\ loops["pump"] = "on" /\ (runDone \/ closed)
  /\ loops' = [loops EXCEPT !["pump"] = "exited"]
  /\ UNCHANGED <<runDone, LoopVars>>

(* Fault: the watchdog leaves without cancelling the shim. *)
PaneGoneQuietly ==
  /\ loops["paneWatch"] = "on" /\ pane = "gone" /\ ~runDone
  /\ loops' = [loops EXCEPT !["paneWatch"] = "exited"]
  /\ UNCHANGED <<runDone, LoopVars>>

(* A tick found the pane gone: the watchdog cancels runCtx. *)
PaneGone ==
  /\ loops["paneWatch"] = "on" /\ pane = "gone" /\ ~runDone
  /\ runDone' = TRUE
  /\ loops' = [loops EXCEPT !["paneWatch"] = "exited"]
  /\ UNCHANGED LoopVars

PaneWatchExits ==
  /\ loops["paneWatch"] = "on" /\ runDone
  /\ loops' = [loops EXCEPT !["paneWatch"] = "exited"]
  /\ UNCHANGED <<runDone, LoopVars>>

-----------------------------------------------------------------------------
(* Prompts. *)

RunVars == <<cfg, main, failed, endpoints, signalSub, runDone, loops, pane>>

(* A request reaches a registered prompt endpoint. *)
Arrive(t) ==
  /\ at[t] = "new"
  /\ \E i \in 1..Len(endpoints) : endpoints[i] \in {"prompt", "prompt_slug"}
  /\ at' = [at EXCEPT ![t] = "queued"]
  /\ UNCHANGED <<RunVars, adapterVars, holder, cancelled>>

(* Requests whose callback is inside OnPrompt. *)
InOnPrompt == {t \in Turns : at[t] \in {"onPrompt", "check", "send", "failing"}}

PromptEndpoints == IF cfg.slug /\ PublishLegacy THEN 2 ELSE 1

(* Fault: a prompt waits for the slot. *)
DispatchWaits(t) ==
  /\ at[t] = "queued" /\ holder = NoTurn
  /\ Cardinality(InOnPrompt) < PromptEndpoints
  /\ holder' = t /\ at' = [at EXCEPT ![t] = "onPrompt"]
  /\ UNCHANGED <<RunVars, adapterVars, cancelled>>

(* A subscription runs its callbacks one at a time.  dispatchPrompt claims *)
(* the slot, or answers 503.                                               *)
Dispatch(t) ==
  /\ at[t] = "queued"
  /\ Cardinality(InOnPrompt) < PromptEndpoints
  /\ IF holder = NoTurn
     THEN holder' = t /\ at' = [at EXCEPT ![t] = "onPrompt"]
     ELSE at' = [at EXCEPT ![t] = "over"] /\ UNCHANGED holder
  /\ UNCHANGED <<RunVars, adapterVars, cancelled>>

(* OnPrompt of a TUI adapter starts the watchers itself when nobody has:   *)
(* the context it has is the turn's.                                       *)
OnPromptStarts(t) ==
  /\ at[t] = "onPrompt" /\ ~cfg.echo
  /\ IF started = "yes" THEN UNCHANGED adapterVars ELSE AdapterStart(t)
  /\ at' = [at EXCEPT ![t] = IF started' = "yes" THEN "check" ELSE "failing"]
  /\ UNCHANGED <<RunVars, holder, cancelled>>

(* The TUI adapter's ctx.Err(), the echo adapter's started flag. *)
OnPromptChecks(t) ==
  /\ \/ at[t] = "check"
     \/ at[t] = "onPrompt" /\ cfg.echo
  /\ LET refused == IF cfg.echo THEN started # "yes" ELSE CtxDone(t)
     IN  at' = [at EXCEPT ![t] = IF refused THEN "failing" ELSE "send"]
  /\ UNCHANGED <<RunVars, adapterVars, holder, cancelled>>

(* The keystrokes of a TUI adapter, which the pane may refuse. *)
OnPromptTypes(t) ==
  /\ at[t] = "send" /\ ~cfg.echo
  /\ \E outcome \in {"sent", "failing"} : at' = [at EXCEPT ![t] = outcome]
  /\ UNCHANGED <<RunVars, adapterVars, holder, cancelled>>

(* echo sends its chunk and its Terminator itself: OnPrompt waits when they *)
(* do not fit.                                                              *)
EchoAnswers(t) ==
  /\ at[t] = "send" /\ cfg.echo /\ ~closed /\ answers < EchoRoom
  /\ answers' = answers + 1
  /\ at' = [at EXCEPT ![t] = "sent"]
  /\ UNCHANGED <<RunVars, started, boundTo, watchers, parked, closed,
                 holder, cancelled>>

(* Close has closed that channel: the send, a waiting one too, panics, and  *)
(* the process ends with all its goroutines.                                *)
EchoSendsOnClosed(t) ==
  /\ at[t] = "send" /\ cfg.echo /\ closed
  /\ main' = "crashed"
  /\ loops' = [l \in Loops |-> IF loops[l] = "on" THEN "exited" ELSE loops[l]]
  /\ UNCHANGED <<cfg, failed, endpoints, signalSub, runDone, pane, adapterVars, turnVars>>

(* OnPrompt's error ends the turn: clearActive. *)
PromptFails(t) ==
  /\ at[t] = "failing"
  /\ at' = [at EXCEPT ![t] = "over"]
  /\ IF holder = t THEN holder' = NoTurn /\ cancelled' = cancelled \cup {t}
                   ELSE UNCHANGED <<holder, cancelled>>
  /\ UNCHANGED <<RunVars, adapterVars>>

Release ==
  IF holder = NoTurn THEN UNCHANGED <<holder, cancelled>>
                     ELSE holder' = NoTurn /\ cancelled' = cancelled \cup {holder}

(* The turn loses the slot to an interrupt, to the Terminator a TUI adapter *)
(* may send, or to its watchdog, which gives up when the shim shuts down.   *)
EndTurn ==
  /\ holder # NoTurn
  /\ \/ signalSub
     \/ loops["pump"] = "on" /\ ~cfg.echo
     \/ at[holder] = "sent" /\ ~runDone
  /\ Release
  /\ UNCHANGED <<RunVars, adapterVars, at>>

(* The pump takes an answer of the echo adapter; its Terminator ends        *)
(* whichever turn holds the slot.                                           *)
PumpTakes ==
  /\ loops["pump"] = "on" /\ answers > 0
  /\ answers' = answers - 1
  /\ Release
  /\ UNCHANGED <<RunVars, started, boundTo, watchers, parked, closed, at>>

-----------------------------------------------------------------------------
(* The world outside. *)

PaneDies ==
  /\ pane = "alive" /\ pane' = "gone"
  /\ UNCHANGED <<cfg, main, failed, endpoints, signalSub, runDone, loops,
                 adapterVars, turnVars>>

(* SIGTERM, or the caller's own context. *)
CallerCancels ==
  /\ ~runDone /\ main # "returned"
  /\ runDone' = TRUE
  /\ UNCHANGED <<cfg, main, failed, endpoints, signalSub, loops, pane,
                 adapterVars, turnVars>>

MainStep ==
  \/ RegisterService \/ AddEndpoint \/ EndpointFails \/ StartAdapter
  \/ SubscribeSignals \/ SpawnLoops
  \/ Unsubscribe \/ StopService \/ CloseAdapter \/ Return

LoopStep == HeartbeatExits \/ PumpExits \/ PaneGone \/ PaneWatchExits

WatcherStep(w) == WatcherExits(w) \/ WatcherParks(w) \/ WatcherResumes(w)

(* A handler goes on as long as its process lives. *)
HandlerStep(t) ==
  /\ main # "crashed"
  /\ \/ Dispatch(t) \/ OnPromptStarts(t) \/ OnPromptChecks(t) \/ OnPromptTypes(t)
     \/ EchoAnswers(t) \/ EchoSendsOnClosed(t) \/ PromptFails(t)

Next ==
  \/ MainStep
  \/ LoopStep
  \/ \E w \in watchers : WatcherStep(w)
  \/ \E t \in Turns : Arrive(t) \/ HandlerStep(t)
  \/ EndTurn
  \/ PumpTakes
  \/ PaneDies
  \/ CallerCancels

Spec == Init /\ [][Next]_vars

(* Every goroutine that can go on does, each on its own.  The pane's death, *)
(* a signal, the arrival of a prompt and the end of a turn need not happen, *)
(* and no watcher need have so much to say that it parks.                   *)
FairSpec ==
  /\ Spec
  /\ WF_vars(MainStep)
  /\ WF_vars(HeartbeatExits) /\ WF_vars(PumpExits \/ PumpTakes)
  /\ WF_vars(PaneGone \/ PaneWatchExits)
  /\ \A w \in TuiWatchers : WF_vars(WatcherExits(w) \/ WatcherResumes(w))
  /\ \A t \in Turns : WF_vars(HandlerStep(t))

-----------------------------------------------------------------------------
(* Properties. *)

(* Types, and the endpoints are a prefix of the plan.                      *)
TypeOK ==
  /\ cfg \in Configs
  /\ main \in {"register", "endpoints", "adapter", "subscribe", "spawn",
               "wait", "svcStop", "close", "cancel", "returned", "crashed"}
  /\ failed \in BOOLEAN /\ signalSub \in BOOLEAN
  /\ runDone \in BOOLEAN /\ closed \in BOOLEAN
  /\ endpoints \in Seq({"prompt", "status", "prompt_slug", "status_slug"})
  /\ Len(endpoints) <= Len(EndpointPlan)
  /\ \A i \in 1..Len(endpoints) : endpoints[i] = EndpointPlan[i]
  /\ loops \in [Loops -> {"off", "on", "exited"}]
  /\ pane \in {"alive", "gone"}
  /\ started \in {"no", "yes", "failed"}
  /\ boundTo \in Turns \cup {"none", "run"}
  /\ watchers \subseteq Watchers /\ parked \subseteq watchers
  /\ answers \in 0..EchoRoom
  /\ at \in [Turns -> {"new", "queued", "onPrompt", "check", "send",
                       "failing", "sent", "over"}]
  /\ holder \in Turns \cup {NoTurn}
  /\ cancelled \subseteq Turns

(* When RunWithConn has returned, whichever step of start failed, it has   *)
(* left no endpoint and no subscription on the caller's connection, and a  *)
(* start that succeeded has closed its adapter: a second shim on the same  *)
(* connection is not in the way of the first.                              *)
NothingLeftBehind ==
  main = "returned" =>
    /\ endpoints = << >> /\ ~signalSub
    /\ runDone
    /\ failed \/ closed

(* A shim that serves is whole: while RunWithConn waits on a live context,  *)
(* the heartbeat, the pump and, in a tmux pane, the pane watchdog run, every *)
(* endpoint of the plan and the signal subscription are there, and the       *)
(* adapter is started and open.  Its watchers are all there too, whatever    *)
(* turn ended, failed or was interrupted, with one exception: a prompt had   *)
(* bound them to its own context, and is over.                               *)
ServingShimIsWhole ==
  main = "wait" /\ ~runDone =>
    /\ \A l \in Loops : loops[l] = "on" <=> (l # "paneWatch" \/ cfg.tmux)
    /\ Len(endpoints) = Len(EndpointPlan) /\ signalSub
    /\ started = "yes" /\ ~closed /\ ~failed
    /\ watchers # Watchers => boundTo \in cancelled

(* A prompt binds the watchers to its own context only when it reaches       *)
(* OnPrompt before start has come past Adapter.Start, or start failed.       *)
OnlyEarlyPromptsBind ==
  [][boundTo' # boundTo /\ boundTo' \in Turns =>
       main \in {"endpoints", "adapter"} \/ failed]_vars

(* The adapter is closed only once nothing new can reach it: the endpoints   *)
(* and the signal subscription are gone and runCtx is done.  The requests    *)
(* the service still drains reach it after that.                             *)
CloseComesLast ==
  closed => endpoints = << >> /\ ~signalSub /\ runDone

(* A cancelled shim returns, and every goroutine it started ends: all of     *)
(* them, unless start failed and nobody closes the adapter; then a watcher   *)
(* that waits for room in the channel stays, and no other.                   *)
Stops ==
  runDone ~> /\ main \in {"returned", "crashed"}
             /\ \A l \in Loops : loops[l] # "on"
             /\ watchers = {} \/ (failed /\ watchers \subseteq parked)

(* A shim bound to a tmux pane does not outlive it: when the pane is gone,   *)
(* RunWithConn returns.                                                      *)
PaneGoneStops == cfg.tmux => (pane = "gone" ~> main \in {"returned", "crashed"})

(* A prompt that arrived is answered, before or after the shutdown: it is    *)
(* not left in a handler.  The echo adapter has two exceptions: the process  *)
(* dies of the send that meets its closed channel, and a failed start leaves *)
(* nobody to empty a full one.                                               *)
PromptsAreHandled ==
  \A t \in Turns : at[t] = "queued" ~>
    \/ at[t] \in {"sent", "over"}
    \/ /\ cfg.echo
       /\ (main = "crashed" /\ closed) \/ (failed /\ answers = EchoRoom)
=============================================================================
