----------------------------- MODULE EventQueue -----------------------------
(***************************************************************************)
(* What a shim may rely on of an adapter's Events(), and nothing of how:   *)
(* the chunks come out in the order they went in, none is lost on the way  *)
(* or there twice, the chunks of one watcher keep their order, no more     *)
(* than the buffer holds are on the way, and after the queue is shut       *)
(* nothing goes in.  AdapterChannel.tla (emit's selects, the parked        *)
(* senders of the Go runtime, Close) is shown to implement it.             *)
(***************************************************************************)
EXTENDS Naturals, Sequences

CONSTANTS
  Chunks,   \* chunks that may be put: who put it (from) and its number
  Cap       \* how many may be on the way

VARIABLES
  log,      \* every chunk that went in, in order
  taken,    \* how many of them came out
  shut

queueVars == <<log, taken, shut>>

Init == log = << >> /\ taken = 0 /\ shut = FALSE

(* c goes in: what its watcher put before has a smaller number. *)
Admit(c) ==
  /\ ~shut
  /\ \A i \in 1..Len(log) : log[i].from = c.from => log[i].number < c.number
  /\ log' = Append(log, c)

Put(c) ==
  /\ Len(log) - taken < Cap
  /\ Admit(c)
  /\ UNCHANGED <<taken, shut>>

Take ==
  /\ taken < Len(log)
  /\ taken' = taken + 1
  /\ UNCHANGED <<log, shut>>

(* The place of the chunk that comes out goes to one that waits. *)
Pass(c) ==
  /\ taken < Len(log)
  /\ taken' = taken + 1
  /\ Admit(c)
  /\ UNCHANGED shut

Shut ==
  /\ ~shut /\ shut' = TRUE
  /\ UNCHANGED <<log, taken>>

Next == Take \/ Shut \/ \E c \in Chunks : Put(c) \/ Pass(c)

Spec == Init /\ [][Next]_queueVars
=============================================================================
