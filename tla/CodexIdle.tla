----------------------------- MODULE CodexIdle -----------------------------
(***************************************************************************)
(* codex has no notification hook: idleQueryLoop captures the pane at      *)
(* every tick and emits a query when the hash of the screen's tail has     *)
(* stayed the same for idleThreshold and the screen shows a prompt.        *)
(*                                                                         *)
(* One unit of time is the poll interval.  The loop polls once per unit    *)
(* unless a capture, or the emit of a query, keeps it busy for longer.     *)
(* How it ends is ShimLifecycle's, how emit waits is AdapterChannel's.     *)
(***************************************************************************)
EXTENDS Naturals, Sequences

CONSTANTS
  Screens,
  TailOf,       \* what of a screen is hashed
  HasPrompt,    \* the screens with a prompt pattern anywhere on them
  Threshold,    \* idleThreshold in poll intervals: 2 in the code
  NoScreen,     \* the capture failed
  MaxChanges    \* bound: times the pane changes, fails or comes back

ASSUME CodexIdleAssumption ==
  /\ NoScreen \notin Screens
  /\ HasPrompt \subseteq Screens
  /\ DOMAIN TailOf = Screens
  /\ \A s \in Screens : TailOf[s] # NoScreen
  /\ Threshold \in Nat \ {0} /\ MaxChanges \in Nat

VARIABLES
  screen,    \* what a capture would show now
  changes,   \* how often that changed
  at,        \* where the loop is
  polled,    \* the tick of this unit was taken
  seen,      \* the last capture, and changes at that moment
  prev,      \* the tail the loop compares with: prevHash and hasPrev
  age,       \* time since idleSince, up to Threshold
  same,      \* time since the first of the captures that look like the last
  emitted,   \* the guard: one query per idle window
  queries    \* what was emitted

paneVars == <<screen, changes>>
loopVars == <<at, polled, seen, prev, emitted, queries>>
vars == <<paneVars, loopVars, age, same>>

Later(t) == IF t < Threshold THEN t + 1 ELSE t

Tail_(s) == IF s = NoScreen THEN NoScreen ELSE TailOf[s]

Init ==
  /\ screen \in Screens
  /\ changes = 0
  /\ at = "wait" /\ polled = FALSE
  /\ seen = [screen |-> NoScreen, changes |-> 0]
  /\ prev = NoScreen
  /\ age = 0 /\ same = 0
  /\ emitted = FALSE
  /\ queries = << >>

-----------------------------------------------------------------------------
(* The pane's screen changes, the pane goes or comes back. *)
PaneChanges ==
  /\ changes < MaxChanges
  /\ \E s \in (Screens \cup {NoScreen}) \ {screen} : screen' = s
  /\ changes' = changes + 1
  /\ UNCHANGED <<loopVars, age, same>>

Elapse ==
  /\ at # "wait" \/ polled
  /\ polled' = FALSE
  /\ age' = Later(age) /\ same' = Later(same)
  /\ UNCHANGED <<paneVars, at, seen, prev, emitted, queries>>

-----------------------------------------------------------------------------
(* idleQueryLoop. *)

Capture ==
  /\ at = "wait" /\ ~polled
  /\ polled' = TRUE
  /\ seen' = [screen |-> screen, changes |-> changes]
  /\ IF Tail_(screen) = Tail_(seen.screen)
     THEN UNCHANGED same
     ELSE same' = 0
  /\ at' = "compare"
  /\ UNCHANGED <<paneVars, prev, age, emitted, queries>>

(* Fault: a failed capture is passed over. *)
CaptureSkipped ==
  /\ at = "compare" /\ seen.screen = NoScreen
  /\ at' = "wait"
  /\ UNCHANGED <<paneVars, polled, seen, prev, age, same, emitted, queries>>

(* The pane is gone or tmux is not there: everything starts over. *)
CaptureFailed ==
  /\ at = "compare" /\ seen.screen = NoScreen
  /\ prev' = NoScreen /\ age' = 0 /\ emitted' = FALSE
  /\ at' = "wait"
  /\ UNCHANGED <<paneVars, polled, seen, same, queries>>

(* Fault: the guard outlives its window. *)
SeesChangeKeepsGuard ==
  /\ at = "compare" /\ seen.screen # NoScreen
  /\ Tail_(seen.screen) # prev
  /\ prev' = Tail_(seen.screen) /\ age' = 0
  /\ at' = "wait"
  /\ UNCHANGED <<paneVars, polled, seen, same, emitted, queries>>

(* The first capture, or one that differs: the idle clock is reset. *)
SeesChange ==
  /\ at = "compare" /\ seen.screen # NoScreen
  /\ Tail_(seen.screen) # prev
  /\ prev' = Tail_(seen.screen) /\ age' = 0 /\ emitted' = FALSE
  /\ at' = "wait"
  /\ UNCHANGED <<paneVars, polled, seen, same, queries>>

Stable == at = "compare" /\ seen.screen # NoScreen /\ Tail_(seen.screen) = prev

QueryDue == age >= Threshold /\ ~emitted /\ seen.screen \in HasPrompt

StaysSilent ==
  /\ Stable /\ ~QueryDue
  /\ at' = "wait"
  /\ UNCHANGED <<paneVars, polled, seen, prev, age, same, emitted, queries>>

DecidesToQuery ==
  /\ Stable /\ QueryDue
  /\ at' = "emit"
  /\ UNCHANGED <<paneVars, polled, seen, prev, age, same, emitted, queries>>

(* What a query reports, and how long that had looked the same. *)
Query == [screen |-> seen.screen, changes |-> seen.changes, same |-> same]

(* Fault: the guard is not set. *)
EmitsUnguarded ==
  /\ at = "emit"
  /\ queries' = Append(queries, Query)
  /\ at' = "wait"
  /\ UNCHANGED <<paneVars, polled, seen, prev, age, same, emitted>>

EmitsQuery ==
  /\ at = "emit"
  /\ queries' = Append(queries, Query)
  /\ emitted' = TRUE
  /\ at' = "wait"
  /\ UNCHANGED <<paneVars, polled, seen, prev, age, same>>

LoopStep ==
  \/ Capture \/ CaptureFailed \/ SeesChange
  \/ StaysSilent \/ DecidesToQuery \/ EmitsQuery

Next == PaneChanges \/ Elapse \/ LoopStep

Spec == Init /\ [][Next]_vars

(* Time passes and the loop goes on; the pane may rest. *)
FairSpec == Spec /\ WF_vars(Elapse) /\ WF_vars(LoopStep)

-----------------------------------------------------------------------------
(* Properties. *)

TypeOK ==
  /\ screen \in Screens \cup {NoScreen}
  /\ changes \in 0..MaxChanges
  /\ at \in {"wait", "compare", "emit"}
  /\ polled \in BOOLEAN /\ emitted \in BOOLEAN
  /\ age \in 0..Threshold /\ same \in 0..Threshold
  /\ seen \in [screen : Screens \cup {NoScreen}, changes : 0..MaxChanges]
  /\ prev \in {NoScreen} \cup {TailOf[s] : s \in Screens}
  /\ queries \in Seq([screen : Screens, changes : 0..MaxChanges, same : 0..Threshold])

(* Never two queries for one idle window: between two of them the pane     *)
(* changed or was gone.                                                    *)
OneQueryPerWindow ==
  \A i, j \in DOMAIN queries :
    i < j => queries[i].changes < queries[j].changes

(* Every capture of the last idleThreshold looked the same when the loop   *)
(* asked, with no failed capture among them.                               *)
QueriesFollowStableCaptures ==
  \A i \in DOMAIN queries : queries[i].same >= Threshold

(* A pane that comes to rest on a prompt is reported, whatever it showed   *)
(* before and however long a capture or an emit took.                      *)
RestingPromptIsReported ==
  \A s \in HasPrompt :
    <>[](screen = s) =>
      <>[](/\ queries # << >>
           /\ TailOf[queries[Len(queries)].screen] = TailOf[s])
=============================================================================
