--------------------------- MODULE TranscriptTail ---------------------------
(***************************************************************************)
(* What a TUI adapter makes of the agent's files: transcriptLoop tails the *)
(* newest session file and emits a chunk per block, markerLoop turns the   *)
(* stop marker into a Terminator and the notify marker into a Query.  The  *)
(* files are written to meanwhile: the session by the agent, the markers   *)
(* by whoever has them written.  The hooks that used to are retired (the   *)
(* NOTE at markerLoop): what is left is the adapters' tests, and a hook of *)
(* the user's own.  Nothing here says that the end of a turn writes one.   *)
(*                                                                         *)
(* claude-code and pi look for a newer session after every poll; codex and *)
(* gemini only when the file they follow was quiet for rolloverIdleScan.   *)
(* pi emits a query before its Terminator; claude-code and gemini watch    *)
(* the notify marker.  What emit does with a chunk is AdapterChannel's:    *)
(* the two loops are told apart here, and nothing orders their chunks.     *)
(*                                                                         *)
(* A file is a sequence of pieces: a line an agent writes at one go is one *)
(* piece, a line that reaches the disk in two writes is a head and a tail, *)
(* and one above the scanner's 8 MB is written as what fits and the tail.  *)
(* A file exists from its first piece, and the newest is the last one      *)
(* written to.  The file a line is in and its number identify the line.    *)
(***************************************************************************)
EXTENDS Naturals, Sequences, FiniteSets, Functions

CONSTANTS
  Agents,           \* the adapters: "claude-code", "codex", "gemini", "pi"
  Files,            \* the agent's session files
  NoFile,
  MaxLines,         \* bound: lines in a session file
  LongLines,        \* which of them are above 8 MB
  BlocksIn,         \* how many blocks that emit a chunk a line has
  MaxStops,         \* bound: writes of the stop marker
  MaxNotes,         \* bound: writes of the notify marker
  MaxEvents,        \* bound: writes of all three kinds
  MaxRotations      \* bound: times the agent takes up another session

ASSUME TranscriptTailAssumption ==
  /\ Agents \subseteq {"claude-code", "codex", "gemini", "pi"}
  /\ NoFile \notin Files /\ Files # {}
  /\ MaxLines \in Nat /\ MaxEvents \in Nat
  /\ MaxStops \in Nat /\ MaxNotes \in Nat /\ MaxRotations \in Nat
  /\ LongLines \subseteq 1..MaxLines
  /\ BlocksIn \in [1..MaxLines -> Nat]

VARIABLES
  agent,     \* the adapter
  content,   \* the pieces of each file
  newest,    \* the file written to last, or NoFile
  writes,    \* writes to them
  session,   \* the session the agent writes to
  rotations, \* times it changed session
  stops,     \* times the stop marker was written
  notes,     \* times the notify marker was written
  note,      \* what it holds: the last text written, or 0: a blank one
  markers,   \* events of the marker directories markerLoop has not seen
  ending,    \* what markerLoop still has to emit
  signalled, \* what it emitted, in order
  at,        \* where transcriptLoop is
  watched,   \* watchedFile, or NoFile
  offset,    \* pieces of it consumed
  block,     \* blocks of the current line emitted so far
  quiet,     \* rolloverIdleScan has passed since lastActive
  emitted    \* what transcriptLoop emitted, in order

agentVars == <<agent, content, newest, writes, session, rotations>>
hookVars == <<stops, notes, note>>
markerVars == <<markers, ending, signalled>>
tailVars == <<at, watched, offset, block, quiet, emitted>>
vars == <<agentVars, hookVars, markerVars, tailVars>>

WatchesNotify == agent \in {"claude-code", "gemini"}
RescanWhenQuiet == agent \in {"codex", "gemini"}
QueryAtTurnEnd == agent = "pi"

Piece(line, part) == [line |-> line, part |-> part]

(* The lines of which the first n pieces of f hold such a part.            *)
LinesOf(f, n, part) ==
  {content[f][i].line : i \in {j \in 1..n : content[f][j].part = part}}

(* The last line of f lacks its tail. *)
Torn(f) ==
  content[f] # << >> /\ content[f][Len(content[f])].part = "head"

LinesWritten(f) ==
  IF content[f] = << >> THEN 0 ELSE content[f][Len(content[f])].line

Init ==
  /\ agent \in Agents
  /\ content = [f \in Files |-> << >>]
  /\ newest = NoFile
  /\ session \in Files
  /\ writes = 0 /\ rotations = 0 /\ stops = 0
  /\ notes = 0 /\ note = 0
  /\ markers = << >> /\ ending = << >> /\ signalled = << >>
  /\ at = "tick" /\ watched = NoFile /\ offset = 0 /\ block = 0
  /\ quiet = FALSE
  /\ emitted = << >>

-----------------------------------------------------------------------------
(* The agents. *)

MoreEvents == writes + stops + notes < MaxEvents

Write(f, pieces) ==
  /\ f = session
  /\ MoreEvents /\ writes' = writes + 1
  /\ content' = [content EXCEPT ![f] = @ \o pieces]
  /\ newest' = f
  /\ UNCHANGED <<agent, session, rotations, hookVars, markerVars, tailVars>>

NextLine(f) == LinesWritten(f) + 1

WriteLine(f) ==
  /\ ~Torn(f) /\ NextLine(f) \in (1..MaxLines) \ LongLines
  /\ Write(f, <<Piece(NextLine(f), "whole")>>)

WriteLongLine(f) ==
  /\ ~Torn(f) /\ NextLine(f) \in LongLines
  /\ Write(f, <<Piece(NextLine(f), "long"), Piece(NextLine(f), "tail")>>)

BeginLine(f) ==
  /\ ~Torn(f) /\ NextLine(f) \in (1..MaxLines) \ LongLines
  /\ Write(f, <<Piece(NextLine(f), "head")>>)

CompleteLine(f) ==
  /\ Torn(f)
  /\ Write(f, <<Piece(LinesWritten(f), "tail")>>)

(* The agent takes up another session, a new one or one it had before. *)
ChangeSession ==
  /\ rotations < MaxRotations /\ ~Torn(session)
  /\ \E f \in Files \ {session} : session' = f
  /\ rotations' = rotations + 1
  /\ UNCHANGED <<agent, content, newest, writes, hookVars, markerVars, tailVars>>

(* Whoever writes the stop marker, by a rename: one event for markerLoop. *)
WriteStopMarker ==
  /\ MoreEvents /\ stops < MaxStops
  /\ stops' = stops + 1
  /\ markers' = Append(markers, [stop |-> stops + 1])
  /\ UNCHANGED <<agentVars, notes, note, ending, signalled, tailVars>>

(* Likewise the notify marker, whose last text is lost; a text may be blank. *)
WriteNotifyMarker ==
  /\ WatchesNotify
  /\ MoreEvents /\ notes < MaxNotes
  /\ notes' = notes + 1
  /\ note' \in {0, notes + 1}
  /\ markers' = Append(markers, [notify |-> notes + 1])
  /\ UNCHANGED <<agentVars, stops, ending, signalled, tailVars>>

-----------------------------------------------------------------------------
(* transcriptLoop.  A token the scanner returns is the rest of a line from *)
(* offset on, up to its newline or to the end of the file; what is no      *)
(* complete line is no JSON, and is dropped.                               *)

(* The search for the latest session file, by time of modification. *)
FindLatest == newest

(* A tick before the agent has written anything. *)
NothingToOpen ==
  /\ at = "tick" /\ watched = NoFile /\ FindLatest = NoFile
  /\ UNCHANGED vars

(* A tick with no file open: the newest is opened and read from its start. *)
OpenNewest ==
  /\ at = "tick" /\ watched = NoFile /\ FindLatest # NoFile
  /\ watched' = FindLatest
  /\ offset' = 0
  /\ quiet' = FALSE
  /\ at' = "scan"
  /\ UNCHANGED <<agentVars, hookVars, markerVars, block, emitted>>

Tick ==
  /\ at = "tick" /\ watched # NoFile
  /\ at' = "scan"
  /\ UNCHANGED <<agentVars, hookVars, markerVars, watched, offset, block, quiet, emitted>>

Next1 == content[watched][offset + 1]
Unread == Len(content[watched]) - offset

(* A whole line, in one piece or two: its blocks are emitted one by one. *)
ScanLine ==
  /\ at = "scan" /\ Unread > 0
  /\ \/ Next1.part = "whole" /\ offset' = offset + 1
     \/ Next1.part = "head" /\ Unread > 1 /\ offset' = offset + 2
  /\ at' = "emit" /\ block' = 0 /\ quiet' = FALSE
  /\ UNCHANGED <<agentVars, hookVars, markerVars, watched, emitted>>

(* The end of the file in the middle of a line: the scanner returns what   *)
(* there is and the offset moves past it.                                  *)
ScanTornLine ==
  /\ at = "scan" /\ Unread = 1 /\ Next1.part = "head"
  /\ offset' = offset + 1
  /\ at' = "rescan" /\ quiet' = FALSE
  /\ UNCHANGED <<agentVars, hookVars, markerVars, watched, block, emitted>>

(* Fault: the rest of the file is passed over with the line. *)
ScanTooLongToTheEnd ==
  /\ at = "scan" /\ Unread > 0 /\ Next1.part = "long"
  /\ offset' = Len(content[watched])
  /\ at' = "rescan"
  /\ UNCHANGED <<agentVars, hookVars, markerVars, watched, block, quiet, emitted>>

(* A line above 8 MB: the scanner fails with its buffer full, without a    *)
(* token, and the offset is behind what it buffered.                       *)
ScanTooLong ==
  /\ at = "scan" /\ Unread > 0 /\ Next1.part = "long"
  /\ offset' = offset + 1
  /\ at' = "rescan"
  /\ UNCHANGED <<agentVars, hookVars, markerVars, watched, block, quiet, emitted>>

(* The rest of a line of which a poll before has consumed the beginning. *)
ScanRest ==
  /\ at = "scan" /\ Unread > 0 /\ Next1.part = "tail"
  /\ offset' = offset + 1 /\ quiet' = FALSE
  /\ UNCHANGED <<agentVars, hookVars, markerVars, at, watched, block, emitted>>

ScanEnds ==
  /\ at = "scan" /\ Unread = 0
  /\ at' = "rescan"
  /\ UNCHANGED <<agentVars, hookVars, markerVars, watched, offset, block, quiet, emitted>>

LineInHand == content[watched][offset].line

(* Fault: one chunk per line, whatever its blocks. *)
EmitBlockOnce ==
  /\ at = "emit"
  /\ emitted' = Append(emitted, [file |-> watched, line |-> LineInHand, block |-> 1])
  /\ at' = "scan"
  /\ UNCHANGED <<agentVars, hookVars, markerVars, watched, offset, block, quiet>>

EmitBlock ==
  /\ at = "emit"
  /\ IF block < BlocksIn[LineInHand]
     THEN /\ block' = block + 1
          /\ emitted' = Append(emitted, [file |-> watched, line |-> LineInHand,
                                         block |-> block + 1])
          /\ UNCHANGED at
     ELSE at' = "scan" /\ UNCHANGED <<block, emitted>>
  /\ UNCHANGED <<agentVars, hookVars, markerVars, watched, offset, quiet>>

(* Fault: the file is never left. *)
RescanStays ==
  /\ at = "rescan"
  /\ at' = "tick"
  /\ UNCHANGED <<agentVars, hookVars, markerVars, watched, offset, block, quiet, emitted>>

(* Fault: the newest is opened again, be it the one in hand. *)
RescanReopens ==
  /\ at = "rescan"
  /\ at' = "tick" /\ watched' = NoFile
  /\ UNCHANGED <<agentVars, hookVars, markerVars, offset, block, quiet, emitted>>

(* After a poll: a newer session is taken up at the next tick. *)
Rescan ==
  /\ at = "rescan"
  /\ at' = "tick"
  /\ IF ~RescanWhenQuiet \/ quiet
     THEN /\ watched' = IF FindLatest # watched THEN NoFile ELSE watched
          /\ quiet' = FALSE
     ELSE UNCHANGED <<watched, quiet>>
  /\ UNCHANGED <<agentVars, hookVars, markerVars, offset, block, emitted>>

(* Ten seconds go by without a line. *)
GoesQuiet ==
  /\ RescanWhenQuiet /\ watched # NoFile /\ ~quiet
  /\ quiet' = TRUE
  /\ UNCHANGED <<agentVars, hookVars, markerVars, at, watched, offset, block, emitted>>

-----------------------------------------------------------------------------
(* markerLoop. *)

Query(text) == [query |-> text]
Terminator(turn) == [term |-> turn]

(* Fault: the Terminator goes first. *)
TerminatorFirst(turn) ==
  <<Terminator(turn)>> \o (IF QueryAtTurnEnd THEN <<Query(turn)>> ELSE << >>)

(* pi: the query goes first, while the stream is open. *)
TurnEndChunks(turn) ==
  (IF QueryAtTurnEnd THEN <<Query(turn)>> ELSE << >>) \o <<Terminator(turn)>>

StopSeen ==
  /\ ending = << >> /\ markers # << >> /\ "stop" \in DOMAIN Head(markers)
  /\ ending' = TurnEndChunks(Head(markers).stop)
  /\ markers' = Tail(markers)
  /\ UNCHANGED <<agentVars, hookVars, tailVars, signalled>>

(* Fault: a notification is looked at only when nothing came after it. *)
NotifySeenUnlessMore ==
  /\ ending = << >> /\ markers # << >> /\ "notify" \in DOMAIN Head(markers)
  /\ ending' = IF note = 0 \/ Len(markers) > 1 THEN << >> ELSE <<Query(note)>>
  /\ markers' = Tail(markers)
  /\ UNCHANGED <<agentVars, hookVars, tailVars, signalled>>

(* The marker's text is read when its event is handled; a blank one is     *)
(* passed over.                                                            *)
NotifySeen ==
  /\ ending = << >> /\ markers # << >> /\ "notify" \in DOMAIN Head(markers)
  /\ ending' = IF note = 0 THEN << >> ELSE <<Query(note)>>
  /\ markers' = Tail(markers)
  /\ UNCHANGED <<agentVars, hookVars, tailVars, signalled>>

(* Fault: one chunk per marker. *)
EmitMarkerOnce ==
  /\ ending # << >>
  /\ signalled' = Append(signalled, Head(ending))
  /\ ending' = << >>
  /\ UNCHANGED <<agentVars, hookVars, tailVars, markers>>

EmitMarker ==
  /\ ending # << >>
  /\ signalled' = Append(signalled, Head(ending))
  /\ ending' = Tail(ending)
  /\ UNCHANGED <<agentVars, hookVars, tailVars, markers>>

-----------------------------------------------------------------------------
AgentStep ==
  \/ \E f \in Files :
       WriteLine(f) \/ WriteLongLine(f) \/ BeginLine(f) \/ CompleteLine(f)
  \/ ChangeSession
  \/ WriteStopMarker \/ WriteNotifyMarker

TailStep ==
  \/ NothingToOpen \/ OpenNewest \/ Tick
  \/ ScanLine \/ ScanTornLine \/ ScanTooLong \/ ScanRest \/ ScanEnds
  \/ EmitBlock \/ Rescan

MarkerStep == StopSeen \/ NotifySeen \/ EmitMarker

Next == AgentStep \/ TailStep \/ GoesQuiet \/ MarkerStep

Spec == Init /\ [][Next]_vars

(* The loops go on; a file nobody writes to goes quiet; the agent may stop.*)
FairSpec ==
  /\ Spec
  /\ WF_vars(TailStep)
  /\ WF_vars(MarkerStep)
  /\ WF_vars(GoesQuiet)

-----------------------------------------------------------------------------
(* Properties. *)

TailChunks == [file : Files, line : 1..MaxLines, block : Nat]

BlocksOf(f, line) ==
  {[file |-> f, line |-> line, block |-> b] : b \in 1..BlocksIn[line]}

LineEmitted(f, line) == BlocksOf(f, line) \subseteq Range(emitted)

Pieces == [line : 1..MaxLines, part : {"whole", "head", "tail", "long"}]
Events == [stop : 1..MaxStops] \cup [notify : 1..MaxNotes]
MarkerChunks == [term : 1..MaxStops] \cup [query : 1..MaxStops \cup 1..MaxNotes]

(* Types, and the offset is inside the file. *)
TypeOK ==
  /\ agent \in Agents
  /\ content \in [Files -> Seq(Pieces)]
  /\ newest \in Files \cup {NoFile}
  /\ session \in Files
  /\ writes \in 0..MaxEvents /\ rotations \in 0..MaxRotations
  /\ stops \in 0..MaxStops /\ notes \in 0..MaxNotes
  /\ note \in 0..notes
  /\ markers \in Seq(Events)
  /\ ending \in Seq(MarkerChunks)
  /\ signalled \in Seq(MarkerChunks)
  /\ at \in {"tick", "scan", "emit", "rescan"}
  /\ watched \in Files \cup {NoFile}
  /\ offset \in Nat
  /\ watched # NoFile => offset <= Len(content[watched])
  /\ at # "tick" => watched # NoFile
  /\ at = "emit" => offset > 0
  /\ block \in Nat
  /\ quiet \in BOOLEAN
  /\ emitted \in Seq(TailChunks)

(* Of the file in hand nothing before the offset was passed over: every    *)
(* block of every line written at one go has been emitted, across any      *)
(* number of polls, changes of file, torn lines and lines the scanner      *)
(* cannot hold, but for those of the line in hand.                         *)
WholeLinesEmitted ==
  watched # NoFile =>
    \A line \in LinesOf(watched, offset, "whole") :
      \/ LineEmitted(watched, line)
      \/ at = "emit" /\ line = LineInHand

(* Until the agent changes its session, its blocks go out once each and in *)
(* the order it wrote them, however polls and writes interleave, and       *)
(* whether or not a poll caught it in the middle of a line.                *)
BlocksOnceInOrder ==
  rotations = 0 =>
    \A i, j \in 1..Len(emitted) :
      i < j =>
        \/ emitted[i].line < emitted[j].line
        \/ emitted[i].line = emitted[j].line /\ emitted[i].block < emitted[j].block

IsTerminator(c) == "term" \in DOMAIN c
IsQuery(c) == "query" \in DOMAIN c
Terms(s, n) == {i \in 1..n : IsTerminator(s[i])}

(* The Terminators go out in the order in which the stop marker was        *)
(* written, one for each time, whatever queries go out between them; pi's  *)
(* query stands right before its Terminator; and the end of a turn that is *)
(* not out yet is in the loop's hand or still to be seen.                  *)
TurnEndsInOrder ==
  /\ \A i \in 1..Len(signalled) : IsTerminator(signalled[i]) =>
       /\ signalled[i].term = Cardinality(Terms(signalled, i))
       /\ QueryAtTurnEnd => i > 1 /\ signalled[i - 1] = Query(signalled[i].term)
  /\ \A n \in 1..stops :
       \/ \E i \in 1..Len(signalled) : signalled[i] = Terminator(n)
       \/ \E i \in 1..Len(ending) : ending[i] = Terminator(n)
       \/ \E i \in 1..Len(markers) : markers[i] = [stop |-> n]

(* No notification is asked that was overwritten when an earlier query     *)
(* went out, and pi's queries go out in the order of its stop markers.     *)
QueriesInOrder ==
  \A i, j \in 1..Len(signalled) :
    i < j /\ IsQuery(signalled[i]) /\ IsQuery(signalled[j]) =>
      signalled[i].query <= signalled[j].query

(* When the agent rests, the tailer has caught up with the newest session,  *)
(* whichever file it was on before and whatever the poll was doing when    *)
(* its lines were written.                                                 *)
CatchesUpWithNewest ==
  <>[](newest # NoFile =>
         \A line \in LinesOf(newest, Len(content[newest]), "whole") :
           LineEmitted(newest, line))

(* Each time the stop marker is written, the adapter has a Terminator for  *)
(* the shim.  It says nothing of a turn for which nobody writes it.        *)
EveryStopMarkerTerminates ==
  \A n \in 1..MaxStops :
    stops >= n ~> \E i \in 1..Len(signalled) : signalled[i] = Terminator(n)

(* The notify marker is read after its event: a text may be overwritten    *)
(* before it was read, but the one that stays is asked, and none is asked  *)
(* that was overwritten when an earlier query went out.                    *)
LastNotificationIsAsked ==
  /\ []QueriesInOrder
  /\ \A n \in 1..MaxNotes :
       note = n ~> note # n \/ \E i \in 1..Len(signalled) : signalled[i] = Query(n)

-----------------------------------------------------------------------------
(* What the repository says and the code does not do. *)

(* docs/architecture.md: "emits one `response` chunk per assistant text    *)
(* block": nothing before the offset was passed over, of the lines that    *)
(* reached the disk in two writes neither.                                 *)
TornLinesEmitted ==
  watched # NoFile =>
    \A line \in LinesOf(watched, offset, "tail") :
      \/ LineEmitted(watched, line)
      \/ at = "emit" /\ line = LineInHand
=============================================================================
