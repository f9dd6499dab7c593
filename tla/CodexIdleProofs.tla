-------------------------- MODULE CodexIdleProofs --------------------------
(***************************************************************************)
(* Proofs about codex's idle loop, for any screens, any hash of their      *)
(* tails, any threshold and any number of changes.  IdleInv has two halves: *)
(* the clock (the loop's idle time is never longer than the time the       *)
(* captures really looked the same) and the guard (an open guard means     *)
(* that the pane changed after the last query, a set one that what the     *)
(* loop compares with has been asked).                                     *)
(***************************************************************************)
EXTENDS CodexIdle, TLAPS

Queries == [screen : Screens, changes : Nat, same : 0..Threshold]

IdleTypes ==
  /\ screen \in Screens \cup {NoScreen}
  /\ changes \in Nat
  /\ at \in {"wait", "compare", "emit"}
  /\ emitted \in BOOLEAN
  /\ age \in 0..Threshold /\ same \in 0..Threshold
  /\ seen \in [screen : Screens \cup {NoScreen}, changes : Nat]
  /\ queries \in Seq(Queries)

(* The pane as it was captured, at an earlier moment or this one; before   *)
(* the first capture it is nothing yet.                                    *)
SeenIsPast ==
  /\ seen.changes <= changes
  /\ seen.changes = changes =>
       seen.screen = screen \/ (at = "wait" /\ queries = << >>)

(* The loop's idle time is covered by captures that looked the same. *)
ClockIsHonest ==
  /\ at = "wait" => Tail_(seen.screen) = prev /\ age <= same
  /\ at = "compare" /\ Tail_(seen.screen) = prev => age <= same
  /\ at = "emit" => /\ Tail_(seen.screen) = prev /\ seen.screen # NoScreen
                    /\ age <= same /\ age >= Threshold /\ ~emitted

(* What was emitted is past, in order; when the guard is set, the loop     *)
(* still compares with what it asked about, and when it is open the pane   *)
(* has changed since.                                                      *)
GuardIsHonest ==
  \A i \in 1..Len(queries) :
    /\ queries[i].changes <= seen.changes
    /\ emitted /\ i = Len(queries) => Tail_(queries[i].screen) = prev
    /\ queries[i].changes = seen.changes => queries[i].screen = seen.screen
    /\ ~emitted => queries[i].changes < seen.changes

IdleInv ==
  /\ IdleTypes /\ SeenIsPast /\ ClockIsHonest /\ GuardIsHonest
  /\ OneQueryPerWindow /\ QueriesFollowStableCaptures
-----------------------------------------------------------------------------
LEMMA ZeroIsATime == 0 \in 0..Threshold
  BY CodexIdleAssumption

LEMMA InitIdle == Init => IdleInv
<1> SUFFICES ASSUME Init PROVE IdleInv
  OBVIOUS
<1>1. IdleTypes
  <2>1. queries \in Seq(Queries)
    BY DEF Init
  <2>2. seen \in [screen : Screens \cup {NoScreen}, changes : Nat]
    BY DEF Init
  <2> QED BY <2>1, <2>2, ZeroIsATime DEF Init, IdleTypes
<1>2. SeenIsPast /\ ClockIsHonest
  BY DEF Init, SeenIsPast, ClockIsHonest, Tail_
<1>3. GuardIsHonest /\ OneQueryPerWindow /\ QueriesFollowStableCaptures
  BY DEF Init, GuardIsHonest, OneQueryPerWindow, QueriesFollowStableCaptures
<1> QED BY <1>1, <1>2, <1>3 DEF IdleInv

(* Time and the pane go on under the loop. *)
LEMMA WorldKeepsIdle ==
  ASSUME IdleInv, PaneChanges \/ Elapse \/ UNCHANGED vars
  PROVE  IdleInv'
<1>1. CASE PaneChanges
  <2>1. /\ changes' = changes + 1 /\ screen' \in Screens \cup {NoScreen}
        /\ UNCHANGED <<at, polled, seen, prev, emitted, queries, age, same>>
    BY <1>1 DEF PaneChanges, loopVars
  <2>2. IdleTypes' /\ SeenIsPast'
    BY <2>1 DEF IdleInv, IdleTypes, Queries, SeenIsPast
  <2> QED
    BY <2>1, <2>2 DEF IdleInv, ClockIsHonest, Tail_, GuardIsHonest,
       OneQueryPerWindow, QueriesFollowStableCaptures
<1>2. CASE Elapse
  <2>1. /\ age' = Later(age) /\ same' = Later(same)
        /\ UNCHANGED <<screen, changes, at, seen, prev, emitted, queries>>
    BY <1>2 DEF Elapse, paneVars
  <2>2. IdleTypes' /\ SeenIsPast'
    BY <2>1, CodexIdleAssumption DEF IdleInv, IdleTypes, Queries, SeenIsPast, Later
  <2>3. ClockIsHonest'
    BY <2>1, CodexIdleAssumption DEF IdleInv, IdleTypes, ClockIsHonest, Tail_, Later
  <2> QED
    BY <2>1, <2>2, <2>3 DEF IdleInv, GuardIsHonest, Tail_,
       OneQueryPerWindow, QueriesFollowStableCaptures
<1>3. CASE UNCHANGED vars
  BY <1>3 DEF vars, paneVars, loopVars, IdleInv, IdleTypes, Queries, SeenIsPast,
     ClockIsHonest, Tail_, GuardIsHonest, OneQueryPerWindow,
     QueriesFollowStableCaptures
<1> QED BY <1>1, <1>2, <1>3

(* A capture is later than every query, and shows what the last one saw if *)
(* the pane has not changed since.                                         *)
LEMMA CaptureKeepsIdle ==
  ASSUME IdleInv, Capture
  PROVE  IdleInv'
<1>1. /\ seen' = [screen |-> screen, changes |-> changes] /\ at = "wait"
      /\ at' = "compare" /\ UNCHANGED <<screen, changes, prev, age, emitted, queries>>
  BY DEF Capture, paneVars
<1>2. IF Tail_(screen) = Tail_(seen.screen) THEN same' = same ELSE same' = 0
  BY DEF Capture
<1>3. IdleTypes' /\ SeenIsPast'
  BY <1>1, <1>2, CodexIdleAssumption DEF IdleInv, IdleTypes, Queries, SeenIsPast
<1>4. ClockIsHonest'
  BY <1>1, <1>2 DEF IdleInv, ClockIsHonest, Tail_
<1>5. GuardIsHonest'
  <2> SUFFICES ASSUME NEW i \in 1..Len(queries)
               PROVE  /\ queries[i].changes <= changes
                      /\ emitted /\ i = Len(queries) => Tail_(queries[i].screen) = prev
                      /\ queries[i].changes = changes => queries[i].screen = screen
                      /\ ~emitted => queries[i].changes < changes
    BY <1>1 DEF GuardIsHonest, Tail_
  <2>1. queries[i] \in Queries
    BY DEF IdleInv, IdleTypes
  <2>2. queries # << >>
    BY DEF IdleInv, IdleTypes
  <2> QED
    BY <2>1, <2>2 DEF IdleInv, IdleTypes, Queries, SeenIsPast, GuardIsHonest
<1> QED
  BY <1>1, <1>3, <1>4, <1>5 DEF IdleInv, OneQueryPerWindow, QueriesFollowStableCaptures

(* A screen that differs from the one the last query was about, a failed   *)
(* capture too, is of a later moment.                                      *)
LEMMA ChangeIsLater ==
  ASSUME IdleInv, Tail_(seen.screen) # prev \/ seen.screen = NoScreen,
         NEW i \in 1..Len(queries)
  PROVE  queries[i].changes < seen.changes
<1>1. \A j \in 1..Len(queries) : queries[j] \in Queries
  BY DEF IdleInv, IdleTypes
<1>2. CASE emitted
  <2> DEFINE n == Len(queries)
  <2>1. n \in 1..Len(queries) /\ i <= n
    BY DEF IdleInv, IdleTypes
  <2>2. queries[n].screen # seen.screen
    BY <1>1, <1>2, <2>1, CodexIdleAssumption
    DEF IdleInv, GuardIsHonest, Tail_, Queries
  <2>3. queries[n].changes < seen.changes
    BY <1>1, <2>1, <2>2 DEF IdleInv, IdleTypes, GuardIsHonest, Queries
  <2>4. i = n \/ queries[i].changes < queries[n].changes
    BY <2>1 DEF IdleInv, IdleTypes, OneQueryPerWindow
  <2>5. /\ queries[i].changes \in Nat /\ queries[n].changes \in Nat
        /\ seen.changes \in Nat
    BY <1>1, <2>1 DEF IdleInv, IdleTypes, Queries
  <2> HIDE DEF n
  <2> QED BY <2>3, <2>4, <2>5
<1>3. CASE ~emitted
  BY <1>3 DEF IdleInv, GuardIsHonest
<1> QED BY <1>2, <1>3 DEF IdleInv, IdleTypes

(* The loop's comparison. *)
LEMMA CompareKeepsIdle ==
  ASSUME IdleInv, CaptureFailed \/ SeesChange \/ StaysSilent \/ DecidesToQuery
  PROVE  IdleInv'
<1>1. CASE CaptureFailed \/ SeesChange
  <2>1. /\ prev' = Tail_(seen.screen) /\ age' = 0 /\ emitted' = FALSE
        /\ at' = "wait" /\ at = "compare"
        /\ UNCHANGED <<screen, changes, seen, same, queries>>
    BY <1>1 DEF CaptureFailed, SeesChange, paneVars, Tail_
  <2>2. \A i \in 1..Len(queries) : queries[i].changes < seen.changes
    BY <1>1, ChangeIsLater DEF CaptureFailed, SeesChange
  <2>3. IdleTypes' /\ SeenIsPast'
    BY <2>1, ZeroIsATime DEF IdleInv, IdleTypes, SeenIsPast
  <2>4. ClockIsHonest'
    BY <2>1 DEF IdleInv, IdleTypes, ClockIsHonest, Tail_
  <2>5. GuardIsHonest'
    <3>1. \A i \in 1..Len(queries) : queries[i] \in Queries
      BY DEF IdleInv, IdleTypes
    <3> QED BY <2>1, <2>2, <3>1 DEF IdleInv, IdleTypes, GuardIsHonest, Queries
  <2> QED
    BY <2>1, <2>3, <2>4, <2>5 DEF IdleInv, OneQueryPerWindow,
       QueriesFollowStableCaptures
<1>2. CASE StaysSilent \/ DecidesToQuery
  <2>1. /\ Tail_(seen.screen) = prev /\ seen.screen # NoScreen /\ at = "compare"
        /\ at' = "wait" \/ (at' = "emit" /\ age >= Threshold /\ ~emitted)
        /\ UNCHANGED <<screen, changes, seen, prev, age, same, emitted, queries>>
    BY <1>2 DEF StaysSilent, DecidesToQuery, Stable, QueryDue, paneVars
  <2>2. IdleTypes' /\ SeenIsPast' /\ ClockIsHonest'
    BY <2>1 DEF IdleInv, IdleTypes, Queries, SeenIsPast, ClockIsHonest, Tail_
  <2> QED
    BY <2>1, <2>2 DEF IdleInv, GuardIsHonest, Tail_, OneQueryPerWindow,
       QueriesFollowStableCaptures
<1> QED BY <1>1, <1>2

(* A query: the clock says it is due, the guard that it is the first. *)
LEMMA EmitKeepsIdle ==
  ASSUME IdleInv, EmitsQuery
  PROVE  IdleInv'
<1>1. /\ at = "emit" /\ at' = "wait" /\ emitted' = TRUE
      /\ queries' = Append(queries, Query)
      /\ UNCHANGED <<screen, changes, seen, prev, age, same>>
  BY DEF EmitsQuery, paneVars
<1>2. /\ Query \in Queries /\ Query.changes = seen.changes
      /\ Query.screen = seen.screen /\ Query.same >= Threshold
  BY <1>1, CodexIdleAssumption DEF IdleInv, IdleTypes, ClockIsHonest, Query, Queries
<1>3. /\ queries' \in Seq(Queries) /\ Len(queries') = Len(queries) + 1
      /\ queries'[Len(queries) + 1] = Query
      /\ \A i \in 1..Len(queries) : /\ queries'[i] = queries[i]
                                    /\ queries[i] \in Queries
      /\ Len(queries) \in Nat
  <2> HIDE DEF Query
  <2> QED BY <1>1, <1>2 DEF IdleInv, IdleTypes
<1>4. \A i \in 1..Len(queries) : queries[i].changes < seen.changes
  BY <1>1 DEF IdleInv, ClockIsHonest, GuardIsHonest
<1>5. IdleTypes' /\ SeenIsPast' /\ ClockIsHonest'
  BY <1>1, <1>3 DEF IdleInv, IdleTypes, SeenIsPast, ClockIsHonest, Tail_
<1>6. GuardIsHonest'
  BY <1>1, <1>2, <1>3, <1>4
  DEF IdleInv, IdleTypes, ClockIsHonest, GuardIsHonest, Tail_, Queries
<1>7. OneQueryPerWindow'
  <2> SUFFICES ASSUME NEW i \in 1..Len(queries'), NEW j \in 1..Len(queries'), i < j
               PROVE  queries'[i].changes < queries'[j].changes
    BY <1>3 DEF OneQueryPerWindow
  <2>1. i \in 1..Len(queries) /\ (j \in 1..Len(queries) \/ j = Len(queries) + 1)
    BY <1>3
  <2>2. CASE j \in 1..Len(queries)
    BY <1>3, <2>1, <2>2 DEF IdleInv, OneQueryPerWindow
  <2>3. CASE j = Len(queries) + 1
    BY <1>2, <1>3, <1>4, <2>1, <2>3
  <2> QED BY <2>1, <2>2, <2>3
<1>8. QueriesFollowStableCaptures'
  BY <1>2, <1>3 DEF IdleInv, IdleTypes, QueriesFollowStableCaptures
<1> QED BY <1>5, <1>6, <1>7, <1>8 DEF IdleInv

(* The clock and the guard hold in every run of the loop. *)
THEOREM IdleInvariant == Spec => []IdleInv
<1>1. IdleInv /\ [Next]_vars => IdleInv'
  BY WorldKeepsIdle, CaptureKeepsIdle, CompareKeepsIdle, EmitKeepsIdle
  DEF Next, LoopStep
<1> QED BY <1>1, InitIdle, PTL DEF Spec

-----------------------------------------------------------------------------
(* Between two queries the pane changed or was gone, whatever the loop was  *)
(* busy with in between.                                                    *)
THEOREM OneQueryPerWindowCorrect == Spec => []OneQueryPerWindow
<1>1. IdleInv => OneQueryPerWindow
  BY DEF IdleInv
<1> QED BY <1>1, IdleInvariant, PTL

(* A query is asked only of a screen whose captures looked the same for     *)
(* idleThreshold, however long the poll, the capture or emit took.          *)
THEOREM QueriesAreStable == Spec => []QueriesFollowStableCaptures
<1>1. IdleInv => QueriesFollowStableCaptures
  BY DEF IdleInv
<1> QED BY <1>1, IdleInvariant, PTL

-----------------------------------------------------------------------------
(* The types; what is asked about is a screen, never a failed capture.      *)
THEOREM IdleTypesCorrect == Spec => []TypeOK
<1>1. Init => TypeOK
  <2> SUFFICES ASSUME Init PROVE TypeOK
    OBVIOUS
  <2>1. queries \in Seq([screen : Screens, changes : 0..MaxChanges, same : 0..Threshold])
    BY DEF Init
  <2>2. 0 \in 0..MaxChanges
    BY CodexIdleAssumption
  <2>3. seen \in [screen : Screens \cup {NoScreen}, changes : 0..MaxChanges]
    BY <2>2 DEF Init
  <2>4. /\ screen \in Screens /\ changes = 0 /\ at = "wait" /\ polled = FALSE
        /\ prev = NoScreen /\ age = 0 /\ same = 0 /\ emitted = FALSE
    BY DEF Init
  <2> QED BY <2>1, <2>2, <2>3, <2>4, ZeroIsATime DEF TypeOK
<1>2. IdleInv /\ TypeOK /\ [Next]_vars => TypeOK'
  <2> SUFFICES ASSUME IdleInv, TypeOK, [Next]_vars PROVE TypeOK'
    OBVIOUS
  <2>0. /\ Threshold \in Nat /\ MaxChanges \in Nat /\ 0 \in 0..Threshold
        /\ Later(age) \in 0..Threshold /\ Later(same) \in 0..Threshold
        /\ Tail_(seen.screen) \in {NoScreen} \cup {TailOf[s] : s \in Screens}
    BY CodexIdleAssumption, ZeroIsATime DEF TypeOK, Later, Tail_
  <2>1. CASE PaneChanges
    BY <2>0, <2>1 DEF PaneChanges, loopVars, TypeOK
  <2>2. CASE Elapse
    BY <2>0, <2>2 DEF Elapse, paneVars, TypeOK
  <2>3. CASE Capture
    BY <2>0, <2>3 DEF Capture, paneVars, TypeOK
  <2>4. CASE CaptureFailed \/ SeesChange \/ StaysSilent \/ DecidesToQuery
    BY <2>0, <2>4 DEF CaptureFailed, SeesChange, StaysSilent, DecidesToQuery, paneVars, TypeOK
  <2>5. CASE EmitsQuery
    <3>1. Query \in [screen : Screens, changes : 0..MaxChanges, same : 0..Threshold]
      BY <2>5 DEF EmitsQuery, Query, IdleInv, ClockIsHonest, TypeOK
    <3>2. queries' \in Seq([screen : Screens, changes : 0..MaxChanges, same : 0..Threshold])
      BY <2>5, <3>1 DEF EmitsQuery, TypeOK
    <3> QED BY <2>5, <3>2 DEF EmitsQuery, paneVars, TypeOK
  <2>6. CASE UNCHANGED vars
    BY <2>6 DEF vars, paneVars, loopVars, TypeOK
  <2> QED BY <2>1, <2>2, <2>3, <2>4, <2>5, <2>6 DEF Next, LoopStep
<1> QED BY <1>1, <1>2, IdleInvariant, PTL DEF Spec

-----------------------------------------------------------------------------
(* The other side of the guard: it silences the loop only about what it has *)
(* asked.  When a screen with a prompt is due and the loop passes it over,  *)
(* the last query was about this same tail: a prompt is never missed because*)
(* an earlier window left the guard shut.                                   *)
SilenceOnlyAfterReport ==
  [][StaysSilent /\ age >= Threshold /\ seen.screen \in HasPrompt =>
       /\ queries # << >>
       /\ TailOf[queries[Len(queries)].screen] = TailOf[seen.screen]]_vars

GuardMeansAsked == emitted => queries # << >>

THEOREM SilenceOnlyAfterReportCorrect == Spec => SilenceOnlyAfterReport
<1>1. Init => GuardMeansAsked
  BY DEF Init, GuardMeansAsked
<1>2. IdleInv /\ GuardMeansAsked /\ [Next]_vars => GuardMeansAsked'
  <2> SUFFICES ASSUME IdleInv, GuardMeansAsked, [Next]_vars PROVE GuardMeansAsked'
    OBVIOUS
  <2>1. CASE EmitsQuery
    BY <2>1 DEF EmitsQuery, IdleInv, IdleTypes, GuardMeansAsked
  <2>2. CASE ~EmitsQuery
    BY <2>2 DEF Next, LoopStep, PaneChanges, Elapse, Capture, CaptureFailed, SeesChange,
       StaysSilent, DecidesToQuery, vars, paneVars, loopVars, GuardMeansAsked
  <2> QED BY <2>1, <2>2
<1>3. ASSUME IdleInv, GuardMeansAsked, StaysSilent, age >= Threshold, seen.screen \in HasPrompt
      PROVE  /\ queries # << >>
             /\ TailOf[queries[Len(queries)].screen] = TailOf[seen.screen]
  <2>1. emitted /\ queries # << >> /\ Tail_(seen.screen) = prev /\ seen.screen # NoScreen
    BY <1>3 DEF StaysSilent, Stable, QueryDue, GuardMeansAsked
  <2>2. Len(queries) \in 1..Len(queries) /\ queries[Len(queries)] \in Queries
    BY <1>3, <2>1 DEF IdleInv, IdleTypes
  <2>3. Tail_(queries[Len(queries)].screen) = prev
    BY <1>3, <2>1, <2>2 DEF IdleInv, GuardIsHonest
  <2> QED BY <2>1, <2>2, <2>3, CodexIdleAssumption DEF Queries, Tail_
<1> QED BY <1>1, <1>2, <1>3, IdleInvariant, PTL DEF Spec, SilenceOnlyAfterReport
=============================================================================
