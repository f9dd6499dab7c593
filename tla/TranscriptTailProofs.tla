------------------------ MODULE TranscriptTailProofs ------------------------
(***************************************************************************)
(* Proofs about the tailer and the marker loop, for any adapters, any      *)
(* number of session files, of lines above the scanner's buffer, of        *)
(* changes of session and of events.                                       *)
(*                                                                         *)
(* TailInv says piece by piece what the offset stands for: every whole     *)
(* line before it is emitted or in hand, and of the line in hand the       *)
(* blocks counted are.  OrderInv is for a single session: the lines of a   *)
(* file ascend, and what was emitted is behind whatever the offset has     *)
(* still in front of it.  EndsInv follows the end of a turn from its stop  *)
(* marker through the loop's hand to its Terminator, QueriesInv the text   *)
(* of the notify marker to its query.                                      *)
(***************************************************************************)
EXTENDS TranscriptTail, FiniteSetTheorems, TLAPS

Block(f, line, b) == [file |-> f, line |-> line, block |-> b]

(* The whole lines before the offset. *)
PassedOver ==
  watched # NoFile =>
    \A i \in 1..offset :
      content[watched][i].part = "whole" =>
        \/ LineEmitted(watched, content[watched][i].line)
        \/ at = "emit" /\ content[watched][i].line = LineInHand

(* The blocks of the line in hand that are counted are emitted. *)
InHand ==
  at = "emit" =>
    /\ block <= BlocksIn[LineInHand]
    /\ \A b \in 1..block : Block(watched, LineInHand, b) \in Range(emitted)

TailInv == TypeOK /\ PassedOver /\ InHand
-----------------------------------------------------------------------------
LEMMA AppendBehind ==
  ASSUME NEW S, NEW s \in Seq(S), NEW e \in S
  PROVE  /\ Append(s, e) \in Seq(S) /\ Len(Append(s, e)) = Len(s) + 1 /\ Len(s) \in Nat
         /\ \A i \in 1..Len(s) : Append(s, e)[i] = s[i]
         /\ Append(s, e)[Len(s) + 1] = e
  OBVIOUS

LEMMA RangeOfAppend ==
  ASSUME NEW S, NEW s \in Seq(S), NEW e \in S
  PROVE  Range(Append(s, e)) = Range(s) \cup {e}
<1>1. /\ DOMAIN s = 1..Len(s) /\ DOMAIN Append(s, e) = 1..(Len(s) + 1) /\ Len(s) \in Nat
      /\ \A i \in 1..Len(s) : Append(s, e)[i] = s[i]
      /\ Append(s, e)[Len(s) + 1] = e
  BY AppendBehind
<1>2. 1..(Len(s) + 1) = 1..Len(s) \cup {Len(s) + 1}
  BY <1>1
<1> QED BY <1>1, <1>2 DEF Range

LEMMA ConcatBehind ==
  ASSUME NEW S, NEW s \in Seq(S), NEW r \in Seq(S)
  PROVE  /\ s \o r \in Seq(S) /\ Len(s \o r) = Len(s) + Len(r)
         /\ Len(s) \in Nat /\ Len(r) \in Nat
         /\ \A i \in 1..Len(s) : (s \o r)[i] = s[i]
         /\ \A i \in (Len(s) + 1)..Len(s \o r) : (s \o r)[i] = r[i - Len(s)]
  OBVIOUS

LEMMA InitTail == Init => TailInv
<1> SUFFICES ASSUME Init PROVE TailInv
  OBVIOUS
<1>1. /\ << >> \in Seq(Pieces) /\ << >> \in Seq(Events) /\ << >> \in Seq(MarkerChunks)
      /\ << >> \in Seq(TailChunks)
  OBVIOUS
<1>2. \A n \in {MaxEvents, MaxRotations, MaxStops, MaxNotes} : 0 \in 0..n
  BY TranscriptTailAssumption
<1>3. content \in [Files -> Seq(Pieces)]
  BY <1>1 DEF Init
<1>4. /\ writes \in 0..MaxEvents /\ rotations \in 0..MaxRotations /\ stops \in 0..MaxStops
      /\ notes \in 0..MaxNotes /\ note \in 0..notes
  BY <1>2 DEF Init
<1>5. TypeOK
  BY <1>1, <1>3, <1>4 DEF Init, TypeOK
<1> QED BY <1>5 DEF Init, TailInv, PassedOver, InHand

-----------------------------------------------------------------------------
(* The agent. *)

(* What a write does, whatever it writes: the pieces before stay. *)
LEMMA WriteKeepsTail ==
  ASSUME TailInv, NEW f \in Files, NEW pieces \in Seq(Pieces), Write(f, pieces)
  PROVE  TailInv'
<1> USE DEF TailInv
<1>1. /\ content' = [content EXCEPT ![f] = @ \o pieces]
      /\ newest' = f /\ writes' = writes + 1 /\ MoreEvents
      /\ UNCHANGED <<agent, session, rotations, hookVars, markerVars, tailVars>>
  BY DEF Write
<1>2. content[f] \in Seq(Pieces) /\ content[f] \o pieces \in Seq(Pieces)
  BY ConcatBehind DEF TypeOK
<1>3. content' \in [Files -> Seq(Pieces)]
  BY <1>1, <1>2 DEF TypeOK
<1>4. \A g \in Files :
        /\ Len(content'[g]) >= Len(content[g])
        /\ Len(content[g]) \in Nat /\ Len(content'[g]) \in Nat
        /\ \A i \in 1..Len(content[g]) : content'[g][i] = content[g][i]
  <2> SUFFICES ASSUME NEW g \in Files
               PROVE  /\ Len(content'[g]) >= Len(content[g])
                      /\ Len(content[g]) \in Nat /\ Len(content'[g]) \in Nat
                      /\ \A i \in 1..Len(content[g]) : content'[g][i] = content[g][i]
    OBVIOUS
  <2>1. content[g] \in Seq(Pieces) /\ content[g] \o pieces \in Seq(Pieces)
    BY ConcatBehind DEF TypeOK
  <2>2. CASE g = f
    <3>1. content'[g] = content[g] \o pieces
      BY <1>1, <2>2 DEF TypeOK
    <3> QED BY <2>1, <3>1, ConcatBehind
  <2>3. CASE g # f
    BY <1>1, <2>1, <2>3 DEF TypeOK
  <2> QED BY <2>2, <2>3
<1>5. writes' \in 0..MaxEvents
  BY <1>1, TranscriptTailAssumption DEF MoreEvents, TypeOK
<1>6. watched' # NoFile => offset' <= Len(content'[watched'])
  BY <1>1, <1>4 DEF TypeOK, tailVars
<1>7. TypeOK'
  BY <1>1, <1>3, <1>5, <1>6 DEF TypeOK, tailVars, hookVars, markerVars
<1>8. watched # NoFile => \A i \in 1..offset : content'[watched][i] = content[watched][i]
  <2> SUFFICES ASSUME watched # NoFile, NEW i \in 1..offset
               PROVE  content'[watched][i] = content[watched][i]
    OBVIOUS
  <2>1. watched \in Files /\ offset \in Nat /\ offset <= Len(content[watched])
    BY DEF TypeOK
  <2>2. Len(content[watched]) \in Nat
    BY <1>4, <2>1
  <2>3. i \in 1..Len(content[watched])
    BY <2>1, <2>2
  <2> QED BY <1>4, <2>1, <2>3
<1>9. at = "emit" => LineInHand' = LineInHand
  BY <1>1, <1>8 DEF TypeOK, LineInHand, tailVars
<1>10. PassedOver'
  BY <1>1, <1>8, <1>9 DEF PassedOver, LineEmitted, BlocksOf, tailVars
<1>11. InHand'
  BY <1>1, <1>9 DEF InHand, tailVars
<1> QED BY <1>7, <1>10, <1>11

LEMMA LastLine ==
  ASSUME TypeOK, NEW f \in Files
  PROVE  /\ LinesWritten(f) \in 0..MaxLines
         /\ content[f] # << >> => /\ Len(content[f]) \in 1..Len(content[f])
                                  /\ LinesWritten(f) = content[f][Len(content[f])].line
                                  /\ LinesWritten(f) \in 1..MaxLines
<1>1. content[f] \in Seq(Pieces)
  BY DEF TypeOK
<1>2. content[f] # << >> => /\ Len(content[f]) \in 1..Len(content[f])
                            /\ content[f][Len(content[f])] \in Pieces
  BY <1>1
<1> QED BY <1>2, TranscriptTailAssumption DEF LinesWritten, Pieces

LEMMA AgentKeepsTail ==
  ASSUME TailInv, AgentStep
  PROVE  TailInv'
<1> USE DEF TailInv
<1>1. ASSUME NEW f \in Files, WriteLine(f) \/ WriteLongLine(f) \/ BeginLine(f) \/ CompleteLine(f)
      PROVE  TailInv'
  <2>1. CASE WriteLine(f)
    <3>1. Piece(NextLine(f), "whole") \in Pieces
      BY <2>1 DEF WriteLine, Piece, Pieces
    <3>2. <<Piece(NextLine(f), "whole")>> \in Seq(Pieces)
      BY <3>1
    <3> QED BY <2>1, <3>2, WriteKeepsTail DEF WriteLine
  <2>2. CASE WriteLongLine(f)
    <3>1. Piece(NextLine(f), "long") \in Pieces /\ Piece(NextLine(f), "tail") \in Pieces
      BY <2>2, TranscriptTailAssumption DEF WriteLongLine, Piece, Pieces
    <3>2. <<Piece(NextLine(f), "long"), Piece(NextLine(f), "tail")>> \in Seq(Pieces)
      BY <3>1
    <3> QED BY <2>2, <3>2, WriteKeepsTail DEF WriteLongLine
  <2>3. CASE BeginLine(f)
    <3>1. Piece(NextLine(f), "head") \in Pieces
      BY <2>3 DEF BeginLine, Piece, Pieces
    <3>2. <<Piece(NextLine(f), "head")>> \in Seq(Pieces)
      BY <3>1
    <3> QED BY <2>3, <3>2, WriteKeepsTail DEF BeginLine
  <2>4. CASE CompleteLine(f)
    <3>1. Piece(LinesWritten(f), "tail") \in Pieces
      BY <2>4, LastLine DEF CompleteLine, Torn, Piece, Pieces
    <3>2. <<Piece(LinesWritten(f), "tail")>> \in Seq(Pieces)
      BY <3>1
    <3> QED BY <2>4, <3>2, WriteKeepsTail DEF CompleteLine
  <2> QED BY <1>1, <2>1, <2>2, <2>3, <2>4
<1>2. CASE ChangeSession
  <2>1. /\ session' \in Files /\ rotations' \in 0..MaxRotations
        /\ UNCHANGED <<agent, content, newest, writes, hookVars, markerVars, tailVars>>
    BY <1>2, TranscriptTailAssumption DEF ChangeSession, TypeOK
  <2>2. TypeOK'
    BY <2>1 DEF TypeOK, hookVars, markerVars, tailVars
  <2> QED
    BY <2>1, <2>2 DEF PassedOver, InHand, LineInHand, LineEmitted, BlocksOf, tailVars
<1>3. CASE WriteStopMarker \/ WriteNotifyMarker
  <2>1. UNCHANGED <<agentVars, ending, signalled, tailVars>>
    BY <1>3 DEF WriteStopMarker, WriteNotifyMarker
  <2>2. /\ stops' \in 0..MaxStops /\ notes' \in 0..MaxNotes /\ note' \in 0..notes'
        /\ \E e \in Events : markers' = Append(markers, e)
    <3>1. CASE WriteStopMarker
      <4>1. stops + 1 \in 1..MaxStops
        BY <3>1, TranscriptTailAssumption DEF WriteStopMarker, TypeOK
      <4>2. [stop |-> stops + 1] \in Events
        BY <4>1 DEF Events
      <4> QED BY <3>1, <4>1, <4>2 DEF WriteStopMarker, TypeOK
    <3>2. CASE WriteNotifyMarker
      <4>1. notes + 1 \in 1..MaxNotes
        BY <3>2, TranscriptTailAssumption DEF WriteNotifyMarker, TypeOK
      <4>2. [notify |-> notes + 1] \in Events
        BY <4>1 DEF Events
      <4> QED BY <3>2, <4>1, <4>2 DEF WriteNotifyMarker, TypeOK
    <3> QED BY <1>3, <3>1, <3>2
  <2>3. markers' \in Seq(Events)
    BY <2>2, AppendBehind DEF TypeOK
  <2>4. TypeOK'
    BY <2>1, <2>2, <2>3 DEF TypeOK, agentVars, tailVars
  <2> QED
    BY <2>1, <2>4 DEF PassedOver, InHand, LineInHand, LineEmitted, BlocksOf, agentVars, tailVars
<1> QED BY <1>1, <1>2, <1>3 DEF AgentStep
-----------------------------------------------------------------------------
(* The tailer. *)

(* A poll that opens no file, emits nothing and moves the offset, if at    *)
(* all, over pieces of which none is whole. *)
LEMMA MoveKeepsTail ==
  ASSUME TailInv, NEW o \in Nat,
         at # "emit", at' \in {"tick", "scan", "rescan"},
         at' # "tick" => watched # NoFile,
         offset' = o, o >= offset,
         watched # NoFile => o <= Len(content[watched]),
         watched # NoFile =>
           \A i \in (offset + 1)..o : content[watched][i].part # "whole",
         watched' \in {watched, NoFile}, at' # "tick" => watched' = watched,
         quiet' \in BOOLEAN,
         UNCHANGED <<agentVars, hookVars, markerVars, block, emitted>>
  PROVE  TailInv'
<1> USE DEF TailInv
<1>1. TypeOK'
  BY DEF TypeOK, agentVars, hookVars, markerVars
<1>2. InHand'
  BY DEF InHand
<1>3. PassedOver'
  <2> SUFFICES ASSUME watched # NoFile, watched' = watched, NEW i \in 1..o,
                      content[watched][i].part = "whole"
               PROVE  BlocksOf(watched, content[watched][i].line) \subseteq Range(emitted)
    BY DEF PassedOver, LineEmitted, BlocksOf, agentVars
  <2>1. offset \in Nat
    BY DEF TypeOK
  <2>2. i \in 1..offset
    BY <2>1
  <2> QED BY <2>2 DEF PassedOver, LineEmitted
<1> QED BY <1>1, <1>2, <1>3

LEMMA TailKeepsTail ==
  ASSUME TailInv, TailStep
  PROVE  TailInv'
<1> USE DEF TailInv
<1>a. /\ offset \in Nat /\ block \in Nat /\ watched \in Files \cup {NoFile}
      /\ quiet \in BOOLEAN
      /\ newest \in Files \cup {NoFile} /\ at \in {"tick", "scan", "emit", "rescan"}
      /\ at # "tick" => watched \in Files
      /\ watched # NoFile => offset <= Len(content[watched])
      /\ emitted \in Seq(TailChunks)
  BY DEF TypeOK
<1>b. \A f \in Files : content[f] \in Seq(Pieces) /\ Len(content[f]) \in Nat
  BY DEF TypeOK
<1>1. CASE NothingToOpen
  BY <1>1 DEF NothingToOpen, vars, agentVars, hookVars, markerVars, tailVars, TypeOK,
       PassedOver, InHand, LineEmitted, BlocksOf, LineInHand
<1>2. CASE OpenNewest
  <2>1. /\ watched' = newest /\ newest \in Files /\ offset' = 0 /\ at' = "scan"
        /\ quiet' = FALSE
        /\ UNCHANGED <<agentVars, hookVars, markerVars, block, emitted>>
    BY <1>2, <1>a DEF OpenNewest, FindLatest
  <2>2. 0 <= Len(content[newest])
    BY <1>b, <2>1
  <2>3. newest # NoFile
    BY <2>1, TranscriptTailAssumption
  <2>4. TypeOK'
    BY <2>1, <2>2, <2>3 DEF TypeOK, agentVars, hookVars, markerVars
  <2>5. PassedOver'
    BY <2>1 DEF PassedOver
  <2> QED BY <2>1, <2>4, <2>5 DEF InHand
<1>3. CASE Tick
  <2>1. /\ at = "tick" /\ at' = "scan" /\ watched # NoFile
        /\ UNCHANGED <<watched, offset, quiet>>
        /\ UNCHANGED <<agentVars, hookVars, markerVars, block, emitted>>
    BY <1>3 DEF Tick
  <2>2. \A i \in (offset + 1)..offset : content[watched][i].part # "whole"
    BY <1>a
  <2> QED BY <1>a, <2>1, <2>2, MoveKeepsTail
<1>4. CASE ScanLine
  <2>1. /\ at = "scan" /\ at' = "emit" /\ block' = 0 /\ quiet' = FALSE
        /\ watched \in Files /\ watched' = watched /\ emitted' = emitted
        /\ UNCHANGED <<agentVars, hookVars, markerVars>>
    BY <1>4, <1>a DEF ScanLine
  <2>2. /\ content' = content
        /\ offset' \in Nat /\ offset' > 0 /\ offset' <= Len(content[watched])
    BY <1>4, <1>a, <1>b, <2>1 DEF ScanLine, Unread, agentVars
  <2>3. TypeOK'
    BY <2>1, <2>2 DEF TypeOK, agentVars, hookVars, markerVars
  <2>4. LineInHand' = content[watched][offset'].line
    BY <2>1, <2>2 DEF LineInHand
  <2>5. ASSUME NEW i \in 1..offset', content[watched][i].part = "whole"
        PROVE  LineEmitted(watched, content[watched][i].line) \/ i = offset'
    <3>1. CASE i \in 1..offset
      BY <2>1, <2>5, <3>1, TranscriptTailAssumption DEF PassedOver
    <3>2. CASE i \notin 1..offset
      <4>1. i = offset' \/ (i = offset + 1 /\ Next1.part = "head")
        BY <1>4, <1>a, <2>2, <3>2 DEF ScanLine
      <4> QED BY <2>5, <4>1 DEF Next1
    <3> QED BY <3>1, <3>2
  <2>6. PassedOver'
    BY <2>1, <2>2, <2>4, <2>5 DEF PassedOver, LineEmitted, BlocksOf
  <2>7. LineInHand' \in 1..MaxLines
    <3>1. content[watched] \in Seq(Pieces) /\ offset' \in 1..Len(content[watched])
      BY <1>b, <2>1, <2>2
    <3>2. content[watched][offset'] \in Pieces
      BY <3>1
    <3> QED BY <2>4, <3>2 DEF Pieces
  <2>8. BlocksIn[LineInHand'] \in Nat
    BY <2>7, TranscriptTailAssumption
  <2>9. InHand'
    BY <2>1, <2>8 DEF InHand
  <2> QED BY <2>3, <2>6, <2>9
<1>5. CASE ScanTornLine \/ ScanTooLong \/ ScanRest
  <2>1. /\ at = "scan" /\ at' \in {"scan", "rescan"}
        /\ watched \in Files /\ watched' = watched /\ offset' = offset + 1
        /\ Unread > 0 /\ Next1.part # "whole"
        /\ UNCHANGED <<agentVars, hookVars, markerVars, block, emitted>>
    <3>1. CASE ScanTornLine
      <4>1. Unread > 0
        BY <3>1 DEF ScanTornLine
      <4> QED BY <1>a, <3>1, <4>1 DEF ScanTornLine
    <3>2. CASE ScanTooLong
      BY <1>a, <3>2 DEF ScanTooLong
    <3>3. CASE ScanRest
      BY <1>a, <3>3 DEF ScanRest
    <3> QED BY <1>5, <3>1, <3>2, <3>3
  <2>a. quiet' \in BOOLEAN
    BY <1>5, <1>a DEF ScanTornLine, ScanTooLong, ScanRest
  <2>2. offset + 1 \in Nat /\ offset + 1 <= Len(content[watched])
    BY <1>a, <1>b, <2>1 DEF Unread
  <2>3. \A i \in (offset + 1)..(offset + 1) : content[watched][i].part # "whole"
    BY <1>a, <2>1 DEF Next1
  <2>4. watched # NoFile /\ offset + 1 >= offset
    BY <1>a, <2>1, TranscriptTailAssumption
  <2> QED BY <2>1, <2>a, <2>2, <2>3, <2>4, MoveKeepsTail
<1>6. CASE ScanEnds
  <2>1. /\ at = "scan" /\ at' = "rescan" /\ watched # NoFile
        /\ UNCHANGED <<watched, offset, quiet>>
        /\ UNCHANGED <<agentVars, hookVars, markerVars, block, emitted>>
    BY <1>6, <1>a, TranscriptTailAssumption DEF ScanEnds
  <2>2. \A i \in (offset + 1)..offset : content[watched][i].part # "whole"
    BY <1>a
  <2> QED BY <1>a, <2>1, <2>2, MoveKeepsTail
<1>7. CASE Rescan
  <2>1. /\ at = "rescan" /\ at' = "tick" /\ watched' \in {watched, NoFile}
        /\ quiet' \in BOOLEAN /\ offset' = offset
        /\ UNCHANGED <<agentVars, hookVars, markerVars, block, emitted>>
    BY <1>7, <1>a DEF Rescan
  <2>2. \A i \in (offset + 1)..offset : content[watched][i].part # "whole"
    BY <1>a
  <2> QED BY <1>a, <2>1, <2>2, MoveKeepsTail
<1>8. CASE EmitBlock
  <2>1. /\ at = "emit" /\ watched \in Files /\ offset' = offset
        /\ watched' = watched /\ quiet' = quiet /\ content' = content
        /\ UNCHANGED <<agentVars, hookVars, markerVars>>
    BY <1>8, <1>a DEF EmitBlock, agentVars
  <2>2. LineInHand' = LineInHand
    BY <2>1 DEF LineInHand
  <2>3. LineInHand \in 1..MaxLines
    <3>1. offset > 0
      BY <2>1 DEF TypeOK
    <3>2. watched # NoFile
      BY <2>1, TranscriptTailAssumption
    <3>3. content[watched] \in Seq(Pieces) /\ offset \in 1..Len(content[watched])
      BY <1>a, <1>b, <2>1, <3>1, <3>2
    <3>4. content[watched][offset] \in Pieces
      BY <3>3
    <3> QED BY <3>4 DEF Pieces, LineInHand
  <2>4. BlocksIn[LineInHand] \in Nat
    BY <2>3, TranscriptTailAssumption
  <2>5. CASE block < BlocksIn[LineInHand]
    <3>1. /\ at' = "emit" /\ block' = block + 1
          /\ emitted' = Append(emitted, Block(watched, LineInHand, block + 1))
      BY <1>8, <2>1, <2>5 DEF EmitBlock, Block
    <3>2. Block(watched, LineInHand, block + 1) \in TailChunks
      BY <1>a, <2>1, <2>3 DEF Block, TailChunks
    <3>3. /\ emitted' \in Seq(TailChunks)
          /\ Range(emitted') = Range(emitted) \cup {Block(watched, LineInHand, block + 1)}
      BY <1>a, <3>1, <3>2, RangeOfAppend, AppendBehind
    <3>4. block' \in Nat /\ block' <= BlocksIn[LineInHand]
      BY <1>a, <2>4, <2>5, <3>1
    <3>5. TypeOK'
      BY <2>1, <3>1, <3>3, <3>4 DEF TypeOK, agentVars, hookVars, markerVars
    <3>6. PassedOver'
      BY <2>1, <2>2, <3>1, <3>3 DEF PassedOver, LineEmitted, BlocksOf
    <3>7. ASSUME NEW b \in 1..(block + 1)
          PROVE  Block(watched, LineInHand, b) \in Range(emitted')
      <4>1. b \in 1..block \/ b = block + 1
        BY <1>a
      <4> QED BY <2>1, <3>3, <4>1 DEF InHand
    <3>8. InHand'
      BY <2>1, <2>2, <3>1, <3>4, <3>7 DEF InHand, Block
    <3> QED BY <3>5, <3>6, <3>8
  <2>6. CASE ~(block < BlocksIn[LineInHand])
    <3>1. at' = "scan" /\ block' = block /\ emitted' = emitted
      BY <1>8, <2>6 DEF EmitBlock
    <3>2. TypeOK'
      BY <2>1, <3>1 DEF TypeOK, agentVars, hookVars, markerVars
    <3>3. block = BlocksIn[LineInHand]
      BY <1>a, <2>1, <2>4, <2>6 DEF InHand
    <3>4. LineEmitted(watched, LineInHand)
      BY <2>1, <3>3 DEF InHand, LineEmitted, BlocksOf, Block
    <3>5. PassedOver'
      BY <2>1, <3>1, <3>4 DEF PassedOver, LineEmitted, BlocksOf
    <3> QED BY <3>1, <3>2, <3>5 DEF InHand
  <2> QED BY <2>5, <2>6
<1> QED
  BY <1>1, <1>2, <1>3, <1>4, <1>5, <1>6, <1>7, <1>8 DEF TailStep

LEMMA QuietKeepsTail ==
  ASSUME TailInv, GoesQuiet \/ UNCHANGED vars
  PROVE  TailInv'
<1>1. UNCHANGED <<agentVars, hookVars, markerVars, at, watched, offset, block, emitted>>
  BY DEF GoesQuiet, vars, tailVars
<1>2. quiet' \in BOOLEAN
  BY DEF GoesQuiet, vars, tailVars, TailInv, TypeOK
<1>3. TypeOK'
  BY <1>1, <1>2 DEF TypeOK, TailInv, agentVars, hookVars, markerVars
<1> QED
  BY <1>1, <1>3 DEF TailInv, PassedOver, InHand, LineInHand, LineEmitted, BlocksOf, agentVars

-----------------------------------------------------------------------------
(* markerLoop. *)

LEMMA MarkerKeepsTail ==
  ASSUME TailInv, MarkerStep
  PROVE  TailInv'
<1> USE DEF TailInv
<1>a. markers \in Seq(Events) /\ ending \in Seq(MarkerChunks) /\ signalled \in Seq(MarkerChunks)
      /\ note \in 0..notes /\ notes \in 0..MaxNotes
  BY DEF TypeOK
<1>1. UNCHANGED <<agentVars, hookVars, tailVars>>
  BY DEF MarkerStep, StopSeen, NotifySeen, EmitMarker
<1>2. /\ markers' \in Seq(Events) /\ ending' \in Seq(MarkerChunks)
      /\ signalled' \in Seq(MarkerChunks)
  <2>1. CASE StopSeen
    <3>1. Head(markers) \in Events /\ Tail(markers) \in Seq(Events)
      BY <1>a, <2>1 DEF StopSeen
    <3>2. Head(markers).stop \in 1..MaxStops
      BY <2>1, <3>1 DEF StopSeen, Events
    <3>3. /\ Query(Head(markers).stop) \in MarkerChunks
          /\ Terminator(Head(markers).stop) \in MarkerChunks
      BY <3>2 DEF Query, Terminator, MarkerChunks
    <3>4. TurnEndChunks(Head(markers).stop) \in Seq(MarkerChunks)
      BY <3>3 DEF TurnEndChunks
    <3> QED BY <1>a, <2>1, <3>1, <3>4 DEF StopSeen
  <2>2. CASE NotifySeen
    <3>1. Tail(markers) \in Seq(Events)
      BY <1>a, <2>2 DEF NotifySeen
    <3>2. << >> \in Seq(MarkerChunks)
      OBVIOUS
    <3>3. note # 0 => note \in 1..MaxNotes
      BY <1>a, TranscriptTailAssumption
    <3>4. note # 0 => Query(note) \in MarkerChunks
      BY <3>3 DEF Query, MarkerChunks
    <3>5. note # 0 => <<Query(note)>> \in Seq(MarkerChunks)
      BY <3>4
    <3> QED BY <1>a, <2>2, <3>1, <3>2, <3>5 DEF NotifySeen
  <2>3. CASE EmitMarker
    <3>1. Head(ending) \in MarkerChunks /\ Tail(ending) \in Seq(MarkerChunks)
      BY <1>a, <2>3 DEF EmitMarker
    <3>2. Append(signalled, Head(ending)) \in Seq(MarkerChunks)
      BY <1>a, <3>1, AppendBehind
    <3> QED BY <1>a, <2>3, <3>1, <3>2 DEF EmitMarker
  <2> QED BY <2>1, <2>2, <2>3 DEF MarkerStep
<1>3. TypeOK'
  BY <1>1, <1>2 DEF TypeOK, agentVars, hookVars, tailVars
<1> QED
  BY <1>1, <1>3 DEF PassedOver, InHand, LineInHand, LineEmitted, BlocksOf, agentVars, tailVars

LEMMA TailInvCorrect == Spec => []TailInv
<1>1. TailInv /\ [Next]_vars => TailInv'
  BY AgentKeepsTail, TailKeepsTail, QuietKeepsTail, MarkerKeepsTail DEF Next
<1> QED BY <1>1, InitTail, PTL DEF Spec

(* The queues and the places of both loops have their types, and the       *)
(* offset of pollFile never runs past the file it is in.                   *)
THEOREM TailTypesCorrect == Spec => []TypeOK
BY TailInvCorrect, PTL DEF TailInv

(* Whatever the polls meet, no line written at one go is passed over.      *)
THEOREM WholeLinesEmittedCorrect == Spec => []WholeLinesEmitted
<1>1. TailInv => WholeLinesEmitted
  BY DEF TailInv, PassedOver, WholeLinesEmitted, LinesOf
<1> QED BY <1>1, TailInvCorrect, PTL

-----------------------------------------------------------------------------
(* One session: the order. *)

(* A piece of a file is behind another one. *)
Ascends(p, q) == p.line < q.line \/ (p.line = q.line /\ q.part = "tail")

Ascending ==
  \A f \in Files : \A i, j \in 1..Len(content[f]) :
    i < j => Ascends(content[f][i], content[f][j])

(* One session is one file, and its lines are only read from its start     *)
(* when nothing was emitted.                                               *)
OneFile ==
  rotations = 0 =>
    /\ newest \in {NoFile, session}
    /\ watched \in {NoFile, newest}
    /\ watched = NoFile => emitted = << >>

(* What was emitted stands before the offset, and not behind the block of  *)
(* the line in hand.                                                       *)
EmittedIsBehind ==
  rotations = 0 /\ watched # NoFile =>
    \A i \in 1..Len(emitted) :
      /\ \E k \in 1..offset : emitted[i].line = content[watched][k].line
      /\ at = "emit" =>
           \/ emitted[i].line < LineInHand
           \/ emitted[i].line = LineInHand /\ emitted[i].block <= block

OrderInv == Ascending /\ OneFile /\ EmittedIsBehind /\ BlocksOnceInOrder

LEMMA InitOrder == Init => OrderInv
<1> SUFFICES ASSUME Init PROVE OrderInv
  OBVIOUS
<1>1. Len(<< >>) = 0
  OBVIOUS
<1>2. 1..0 = {}
  OBVIOUS
<1>3. Ascending
  BY <1>1, <1>2 DEF Init, Ascending
<1>4. OneFile /\ EmittedIsBehind
  BY DEF Init, OneFile, EmittedIsBehind
<1>5. BlocksOnceInOrder
  BY <1>1, <1>2 DEF Init, BlocksOnceInOrder
<1> QED BY <1>3, <1>4, <1>5 DEF OrderInv

(* The last line is the greatest. *)
LEMMA NoLineIsGreater ==
  ASSUME TypeOK, Ascending, NEW f \in Files, NEW i \in 1..Len(content[f])
  PROVE  content[f][i].line <= LinesWritten(f)
<1>1. content[f] \in Seq(Pieces)
  BY DEF TypeOK
<1>2. content[f] # << >> /\ Len(content[f]) \in 1..Len(content[f])
  BY <1>1
<1>3. LinesWritten(f) = content[f][Len(content[f])].line
  BY <1>2 DEF LinesWritten
<1>4. /\ content[f][i] \in Pieces /\ content[f][Len(content[f])] \in Pieces
      /\ i = Len(content[f]) \/ i < Len(content[f])
  BY <1>1, <1>2
<1>5. /\ content[f][i].line \in Nat /\ content[f][Len(content[f])].line \in Nat
  BY <1>4, TranscriptTailAssumption DEF Pieces
<1> QED BY <1>2, <1>3, <1>4, <1>5 DEF Ascending, Ascends

LEMMA WriteKeepsOrder ==
  ASSUME TailInv, TailInv', OrderInv, NEW f \in Files, NEW pieces \in Seq(Pieces),
         Write(f, pieces),
         \A j \in 1..Len(pieces) :
           \/ pieces[j].line > LinesWritten(f)
           \/ pieces[j].line = LinesWritten(f) /\ pieces[j].part = "tail",
         \A i, j \in 1..Len(pieces) : i < j => Ascends(pieces[i], pieces[j])
  PROVE  OrderInv'
<1> USE DEF OrderInv, TailInv
<1>1. /\ content' = [content EXCEPT ![f] = @ \o pieces]
      /\ newest' = f /\ f = session
      /\ UNCHANGED <<session, rotations, hookVars, markerVars, tailVars>>
  BY DEF Write
<1>2. Ascending'
  <2> SUFFICES ASSUME NEW g \in Files, NEW i \in 1..Len(content'[g]),
                      NEW j \in 1..Len(content'[g]), i < j
               PROVE  Ascends(content'[g][i], content'[g][j])
    BY DEF Ascending
  <2>1. CASE g # f
    <3>1. content'[g] = content[g]
      BY <1>1, <2>1 DEF TypeOK
    <3> QED BY <3>1 DEF Ascending
  <2>2. CASE g = f
    <3>1. content'[f] = content[f] \o pieces /\ content[f] \in Seq(Pieces)
      BY <1>1 DEF TypeOK
    <3>2. /\ Len(content'[f]) = Len(content[f]) + Len(pieces)
          /\ Len(content[f]) \in Nat /\ Len(pieces) \in Nat
          /\ \A k \in 1..Len(content[f]) : content'[f][k] = content[f][k]
          /\ \A k \in (Len(content[f]) + 1)..Len(content'[f]) :
               content'[f][k] = pieces[k - Len(content[f])]
      BY <3>1, ConcatBehind
    <3>3. CASE j \in 1..Len(content[f])
      <4>1. i \in 1..Len(content[f])
        BY <3>2, <3>3
      <4> QED BY <2>2, <3>2, <3>3, <4>1 DEF Ascending
    <3>4. CASE i \in 1..Len(content[f]) /\ j \notin 1..Len(content[f])
      <4>1. /\ j \in (Len(content[f]) + 1)..Len(content'[f])
            /\ j - Len(content[f]) \in 1..Len(pieces)
        BY <2>2, <3>2, <3>4
      <4>2. content'[f][j] = pieces[j - Len(content[f])] /\ content'[f][i] = content[f][i]
        BY <3>2, <3>4, <4>1
      <4>3. content[f][i].line <= LinesWritten(f)
        BY <3>4, NoLineIsGreater
      <4>4. content[f][i] \in Pieces /\ pieces[j - Len(content[f])] \in Pieces
        BY <3>1, <3>4, <4>1
      <4>5. /\ content[f][i].line \in Nat /\ LinesWritten(f) \in Nat
            /\ pieces[j - Len(content[f])].line \in Nat
        <5>1. LinesWritten(f) \in 0..MaxLines
          BY LastLine
        <5>2. LinesWritten(f) \in Nat
          BY <5>1
        <5> HIDE DEF TailInv, OrderInv
        <5>3. content[f][i].line \in 1..MaxLines
          BY <4>4 DEF Pieces
        <5>4. pieces[j - Len(content[f])].line \in 1..MaxLines
          BY <4>4 DEF Pieces
        <5> QED BY <5>2, <5>3, <5>4
      <4>6. \/ pieces[j - Len(content[f])].line > LinesWritten(f)
            \/ /\ pieces[j - Len(content[f])].line = LinesWritten(f)
               /\ pieces[j - Len(content[f])].part = "tail"
        BY <4>1
      <4> QED BY <2>2, <4>2, <4>3, <4>5, <4>6 DEF Ascends
    <3>5. CASE i \notin 1..Len(content[f]) /\ j \notin 1..Len(content[f])
      <4>1. /\ j \in (Len(content[f]) + 1)..Len(content'[f])
            /\ i \in (Len(content[f]) + 1)..Len(content'[f])
            /\ j - Len(content[f]) \in 1..Len(pieces)
            /\ i - Len(content[f]) \in 1..Len(pieces)
            /\ i - Len(content[f]) < j - Len(content[f])
        BY <2>2, <3>2, <3>5
      <4>2. /\ content'[f][j] = pieces[j - Len(content[f])]
            /\ content'[f][i] = pieces[i - Len(content[f])]
        BY <3>2, <4>1
      <4> QED BY <2>2, <4>1, <4>2
    <3>6. i \in 1..Len(content[f]) => j \in 1..Len(content[f]) \/ j \notin 1..Len(content[f])
      OBVIOUS
    <3>7. j \in 1..Len(content[f]) => i \in 1..Len(content[f])
      BY <3>2
    <3> QED BY <3>3, <3>4, <3>5, <3>7
  <2> QED BY <2>1, <2>2
<1>3. OneFile'
  BY <1>1 DEF OneFile, tailVars
<1>4. ASSUME watched # NoFile
      PROVE  \A k \in 1..offset : content'[watched][k] = content[watched][k]
  <2> TAKE k \in 1..offset
  <2>1. /\ watched \in Files /\ offset \in Nat /\ offset <= Len(content[watched])
        /\ content[watched] \in Seq(Pieces)
    BY <1>4 DEF TypeOK
  <2>2. k \in 1..Len(content[watched])
    BY <2>1
  <2>3. watched = f => content'[watched] = content[watched] \o pieces
    BY <1>1, <2>1 DEF TypeOK
  <2>4. watched # f => content'[watched] = content[watched]
    BY <1>1, <2>1 DEF TypeOK
  <2> QED BY <2>1, <2>2, <2>3, <2>4, ConcatBehind
<1>5. at = "emit" => LineInHand' = LineInHand
  <2> SUFFICES ASSUME at = "emit" PROVE LineInHand' = LineInHand
    OBVIOUS
  <2>1. offset > 0 /\ offset \in Nat /\ watched # NoFile
    BY DEF TypeOK
  <2>2. offset \in 1..offset
    BY <2>1
  <2> QED BY <1>1, <1>4, <2>1, <2>2 DEF LineInHand, tailVars
<1>6. EmittedIsBehind'
  <2>1. UNCHANGED <<rotations, watched, emitted, offset, at, block>>
    BY <1>1 DEF tailVars
  <2> SUFFICES ASSUME rotations = 0, watched # NoFile, NEW i \in 1..Len(emitted)
               PROVE  /\ \E k \in 1..offset : emitted[i].line = content'[watched][k].line
                      /\ at = "emit" =>
                           \/ emitted[i].line < LineInHand'
                           \/ emitted[i].line = LineInHand' /\ emitted[i].block <= block
    BY <2>1 DEF EmittedIsBehind
  <2>2. PICK k \in 1..offset : emitted[i].line = content[watched][k].line
    BY DEF EmittedIsBehind
  <2>3. content'[watched][k] = content[watched][k]
    BY <1>4
  <2> QED BY <1>5, <2>2, <2>3 DEF EmittedIsBehind
<1>7. BlocksOnceInOrder'
  BY <1>1 DEF BlocksOnceInOrder, tailVars
<1> QED BY <1>2, <1>3, <1>6, <1>7

LEMMA AgentKeepsOrder ==
  ASSUME TailInv, TailInv', OrderInv, AgentStep
  PROVE  OrderInv'
<1>0. TypeOK
  BY DEF TailInv
<1>1. ASSUME NEW f \in Files, WriteLine(f) \/ WriteLongLine(f) \/ BeginLine(f) \/ CompleteLine(f)
      PROVE  OrderInv'
  <2>a. LinesWritten(f) \in Nat /\ NextLine(f) > LinesWritten(f)
    BY <1>0, LastLine DEF NextLine
  <2>1. ASSUME NEW p \in Pieces, Write(f, <<p>>),
               p.line > LinesWritten(f) \/ (p.line = LinesWritten(f) /\ p.part = "tail")
        PROVE  OrderInv'
    <3>1. <<p>> \in Seq(Pieces) /\ Len(<<p>>) = 1 /\ <<p>>[1] = p /\ 1..1 = {1}
      OBVIOUS
    <3>2. \A j \in 1..Len(<<p>>) :
            \/ <<p>>[j].line > LinesWritten(f)
            \/ <<p>>[j].line = LinesWritten(f) /\ <<p>>[j].part = "tail"
      BY <2>1, <3>1
    <3>3. \A i, j \in 1..Len(<<p>>) : i < j => Ascends(<<p>>[i], <<p>>[j])
      BY <3>1
    <3> QED BY <2>1, <3>1, <3>2, <3>3, WriteKeepsOrder
  <2>2. CASE WriteLine(f)
    <3>1. Piece(NextLine(f), "whole") \in Pieces
      BY <2>2 DEF WriteLine, Piece, Pieces
    <3>2. Piece(NextLine(f), "whole").line > LinesWritten(f)
      BY <2>a DEF Piece
    <3> QED BY <2>1, <2>2, <3>1, <3>2 DEF WriteLine
  <2>3. CASE BeginLine(f)
    <3>1. Piece(NextLine(f), "head") \in Pieces
      BY <2>3 DEF BeginLine, Piece, Pieces
    <3>2. Piece(NextLine(f), "head").line > LinesWritten(f)
      BY <2>a DEF Piece
    <3> QED BY <2>1, <2>3, <3>1, <3>2 DEF BeginLine
  <2>4. CASE CompleteLine(f)
    <3>1. Piece(LinesWritten(f), "tail") \in Pieces
      BY <1>0, <2>4, LastLine DEF CompleteLine, Torn, Piece, Pieces
    <3>2. /\ Piece(LinesWritten(f), "tail").line = LinesWritten(f)
          /\ Piece(LinesWritten(f), "tail").part = "tail"
      BY DEF Piece
    <3> QED BY <2>1, <2>4, <3>1, <3>2 DEF CompleteLine
  <2>5. CASE WriteLongLine(f)
    <3> DEFINE p == Piece(NextLine(f), "long")
               q == Piece(NextLine(f), "tail")
    <3>1. p \in Pieces /\ q \in Pieces
      BY <2>5, TranscriptTailAssumption DEF WriteLongLine, Piece, Pieces
    <3>2. p.line > LinesWritten(f) /\ q.line > LinesWritten(f) /\ Ascends(p, q)
      BY <2>a DEF Piece, Ascends
    <3>3. Write(f, <<p, q>>)
      BY <2>5 DEF WriteLongLine
    <3> HIDE DEF p, q
    <3>4. /\ <<p, q>> \in Seq(Pieces) /\ Len(<<p, q>>) = 2
          /\ <<p, q>>[1] = p /\ <<p, q>>[2] = q /\ 1..2 = {1, 2}
      BY <3>1
    <3>5. \A j \in 1..Len(<<p, q>>) :
            \/ <<p, q>>[j].line > LinesWritten(f)
            \/ <<p, q>>[j].line = LinesWritten(f) /\ <<p, q>>[j].part = "tail"
      BY <3>2, <3>4
    <3>6. \A i, j \in 1..Len(<<p, q>>) : i < j => Ascends(<<p, q>>[i], <<p, q>>[j])
      BY <3>2, <3>4
    <3> QED BY <3>3, <3>4, <3>5, <3>6, WriteKeepsOrder
  <2> QED BY <1>1, <2>2, <2>3, <2>4, <2>5
<1>2. CASE ChangeSession
  <2>1. rotations' # 0 /\ UNCHANGED <<content, hookVars, tailVars>>
    BY <1>0, <1>2 DEF ChangeSession, TypeOK
  <2> QED
    BY <2>1 DEF OrderInv, Ascending, OneFile, EmittedIsBehind, BlocksOnceInOrder
<1>3. CASE WriteStopMarker \/ WriteNotifyMarker
  <2>1. UNCHANGED <<agentVars, tailVars>>
    BY <1>3 DEF WriteStopMarker, WriteNotifyMarker
  <2> QED
    BY <2>1 DEF OrderInv, Ascending, OneFile, EmittedIsBehind, BlocksOnceInOrder,
         LineInHand, agentVars, tailVars
<1> QED BY <1>1, <1>2, <1>3 DEF AgentStep

(* A step of the poll that emits nothing and takes up no line. *)
LEMMA MoveKeepsOrder ==
  ASSUME TailInv, TailInv', OrderInv,
         at' # "emit", offset' >= offset,
         watched' = watched \/ (watched' = NoFile /\ watched # newest),
         UNCHANGED <<agentVars, emitted>>
  PROVE  OrderInv'
<1> USE DEF OrderInv, TailInv
<1>1. Ascending' /\ BlocksOnceInOrder'
  BY DEF Ascending, BlocksOnceInOrder, agentVars
<1>2. OneFile'
  BY DEF OneFile, agentVars
<1>3. offset \in Nat /\ offset' \in Nat
  BY DEF TypeOK
<1>4. \A k \in 1..offset : k \in 1..offset'
  BY <1>3
<1>5. EmittedIsBehind'
  BY <1>4 DEF EmittedIsBehind, agentVars
<1> QED BY <1>1, <1>2, <1>5

LEMMA TailKeepsOrder ==
  ASSUME TailInv, TailInv', OrderInv, TailStep
  PROVE  OrderInv'
<1>0. TypeOK /\ TypeOK'
  BY DEF TailInv
<1>a. /\ offset \in Nat /\ block \in Nat /\ emitted \in Seq(TailChunks)
      /\ at # "tick" => watched \in Files /\ watched # NoFile
      /\ watched # NoFile => offset <= Len(content[watched])
  BY <1>0, TranscriptTailAssumption DEF TypeOK
<1>b. \A f \in Files : content[f] \in Seq(Pieces) /\ Len(content[f]) \in Nat
  BY <1>0 DEF TypeOK
<1>1. CASE NothingToOpen
  BY <1>1 DEF NothingToOpen, vars, agentVars, tailVars, OrderInv, Ascending, OneFile,
       EmittedIsBehind, BlocksOnceInOrder, LineInHand
<1>2. CASE OpenNewest
  <2>1. /\ watched = NoFile /\ watched' = newest /\ at' = "scan"
        /\ UNCHANGED <<agentVars, emitted>>
    BY <1>2 DEF OpenNewest, FindLatest
  <2>2. Ascending' /\ BlocksOnceInOrder'
    BY <2>1 DEF OrderInv, Ascending, BlocksOnceInOrder, agentVars
  <2>3. newest # NoFile
    BY <1>2 DEF OpenNewest, FindLatest
  <2>4. OneFile'
    BY <2>1, <2>3 DEF OrderInv, OneFile, agentVars
  <2>5. rotations = 0 => Len(emitted) = 0
    BY <2>1 DEF OrderInv, OneFile
  <2>6. EmittedIsBehind'
    BY <2>1, <2>5 DEF EmittedIsBehind, agentVars
  <2> QED BY <2>2, <2>4, <2>6 DEF OrderInv
<1>3. CASE Tick \/ ScanEnds
  BY <1>3, <1>a, MoveKeepsOrder DEF Tick, ScanEnds
<1>4. CASE ScanTornLine \/ ScanTooLong \/ ScanRest
  <2>1. /\ at' # "emit" /\ offset' = offset + 1 /\ watched' = watched
        /\ UNCHANGED <<agentVars, emitted>>
    <3>1. CASE ScanTornLine
      BY <3>1 DEF ScanTornLine
    <3>2. CASE ScanTooLong
      BY <3>2 DEF ScanTooLong
    <3>3. CASE ScanRest
      BY <3>3 DEF ScanRest
    <3> QED BY <1>4, <3>1, <3>2, <3>3
  <2>2. offset' >= offset
    BY <1>a, <2>1
  <2> QED BY <2>1, <2>2, MoveKeepsOrder
<1>5. CASE Rescan
  <2>1. /\ at' # "emit" /\ offset' = offset
        /\ watched' = watched \/ (watched' = NoFile /\ watched # newest)
        /\ UNCHANGED <<agentVars, emitted>>
    BY <1>5 DEF Rescan, FindLatest
  <2>2. offset' >= offset
    BY <1>a, <2>1
  <2> QED BY <2>1, <2>2, MoveKeepsOrder
<1>6. CASE ScanLine
  <2>1. /\ at = "scan" /\ at' = "emit" /\ block' = 0
        /\ watched' = watched /\ watched \in Files /\ watched # NoFile
        /\ UNCHANGED <<agentVars, emitted>>
    BY <1>6, <1>a DEF ScanLine
  <2>2. Ascending' /\ BlocksOnceInOrder' /\ OneFile'
    BY <2>1 DEF OrderInv, Ascending, BlocksOnceInOrder, OneFile, agentVars
  <2>3. content' = content /\ rotations' = rotations
    BY <2>1 DEF agentVars
  <2>4. LineInHand' = content[watched][offset'].line
    BY <2>1, <2>3 DEF LineInHand
  <2>5. /\ offset' \in {offset + 1, offset + 2} /\ offset' <= Len(content[watched])
        /\ Next1.part # "tail"
        /\ offset + 1 \in 1..Len(content[watched]) /\ offset' \in 1..Len(content[watched])
    BY <1>6, <1>a, <1>b, <2>1 DEF ScanLine, Unread
  <2>6. ASSUME NEW k \in 1..offset
        PROVE  content[watched][k].line < LineInHand'
    <3>1. k \in 1..Len(content[watched]) /\ k < offset + 1
      BY <1>a, <1>b, <2>1
    <3>2. /\ content[watched][k] \in Pieces /\ content[watched][offset + 1] \in Pieces
          /\ content[watched][offset'] \in Pieces
      BY <1>b, <2>1, <2>5, <3>1
    <3>3. /\ content[watched][k].line \in Nat /\ content[watched][offset + 1].line \in Nat
          /\ content[watched][offset'].line \in Nat
      BY <3>2, TranscriptTailAssumption DEF Pieces
    <3>4. content[watched][k].line < content[watched][offset + 1].line
      BY <2>1, <2>5, <3>1 DEF OrderInv, Ascending, Ascends, Next1
    <3>5. content[watched][offset + 1].line <= content[watched][offset'].line
      <4>1. CASE offset' = offset + 1
        BY <3>3, <4>1
      <4>2. CASE offset' = offset + 2
        <5>1. offset + 1 < offset'
          BY <1>a, <4>2
        <5> QED BY <2>1, <2>5, <3>3, <5>1 DEF OrderInv, Ascending, Ascends
      <4> QED BY <2>5, <4>1, <4>2
    <3> QED BY <2>4, <3>3, <3>4, <3>5
  <2>7. \A k \in 1..offset : k \in 1..offset'
    BY <1>a, <2>5
  <2>8. EmittedIsBehind'
    BY <2>1, <2>3, <2>6, <2>7 DEF OrderInv, EmittedIsBehind
  <2> QED BY <2>2, <2>8 DEF OrderInv
<1>7. CASE EmitBlock
  <2>1. /\ at = "emit" /\ offset' = offset /\ watched' = watched
        /\ watched \in Files /\ watched # NoFile /\ UNCHANGED agentVars
    BY <1>7, <1>a DEF EmitBlock
  <2>2. Ascending' /\ content' = content /\ rotations' = rotations
    BY <2>1 DEF OrderInv, Ascending, agentVars
  <2>3. LineInHand' = LineInHand
    BY <2>1, <2>2 DEF LineInHand
  <2>4. CASE block < BlocksIn[LineInHand]
    <3> DEFINE e == Block(watched, LineInHand, block + 1)
    <3>1. at' = "emit" /\ block' = block + 1 /\ emitted' = Append(emitted, e)
      BY <1>7, <2>1, <2>4 DEF EmitBlock, Block
    <3>2. /\ offset \in 1..offset /\ offset \in 1..Len(content[watched])
      BY <1>0, <1>a, <1>b, <2>1 DEF TypeOK
    <3>3. content[watched][offset] \in Pieces
      BY <1>b, <2>1, <3>2
    <3>4. LineInHand \in 1..MaxLines /\ LineInHand = content[watched][offset].line
      BY <3>3 DEF LineInHand, Pieces
    <3>5. e \in TailChunks /\ e.line = LineInHand /\ e.block = block + 1
      BY <1>a, <2>1, <3>4 DEF Block, TailChunks
    <3> HIDE DEF e
    <3>6. /\ Len(emitted') = Len(emitted) + 1 /\ Len(emitted) \in Nat
          /\ \A i \in 1..Len(emitted) : emitted'[i] = emitted[i]
          /\ emitted'[Len(emitted) + 1] = e
      BY <1>a, <3>1, <3>5, AppendBehind
    <3>7. \A i \in 1..Len(emitted) : emitted[i].line \in Nat /\ emitted[i].block \in Nat
      <4> TAKE i \in 1..Len(emitted)
      <4>1. emitted[i] \in TailChunks
        BY <1>a
      <4> QED BY <4>1, TranscriptTailAssumption DEF TailChunks
    <3>8. \A i \in 1..Len(emitted') : i \in 1..Len(emitted) \/ i = Len(emitted) + 1
      BY <3>6
    <3>9. OneFile'
      BY <2>1, <2>2 DEF OrderInv, OneFile, agentVars
    <3>10. rotations = 0 => \A i \in 1..Len(emitted) :
             \/ emitted[i].line < e.line
             \/ emitted[i].line = e.line /\ emitted[i].block < e.block
      <4> SUFFICES ASSUME rotations = 0, NEW i \in 1..Len(emitted)
                   PROVE  \/ emitted[i].line < e.line
                          \/ emitted[i].line = e.line /\ emitted[i].block < e.block
        OBVIOUS
      <4>1. \/ emitted[i].line < LineInHand
            \/ emitted[i].line = LineInHand /\ emitted[i].block <= block
        BY <2>1 DEF OrderInv, EmittedIsBehind
      <4> QED BY <1>a, <3>5, <3>7, <4>1
    <3>11. BlocksOnceInOrder'
      <4> SUFFICES ASSUME rotations = 0, NEW i \in 1..Len(emitted'),
                          NEW j \in 1..Len(emitted'), i < j
                   PROVE  \/ emitted'[i].line < emitted'[j].line
                          \/ /\ emitted'[i].line = emitted'[j].line
                             /\ emitted'[i].block < emitted'[j].block
        BY <2>2 DEF BlocksOnceInOrder
      <4>1. i \in 1..Len(emitted)
        BY <3>6
      <4>2. CASE j \in 1..Len(emitted)
        BY <3>6, <4>1, <4>2 DEF OrderInv, BlocksOnceInOrder
      <4>3. CASE j = Len(emitted) + 1
        BY <3>6, <3>10, <4>1, <4>3
      <4> QED BY <3>8, <4>2, <4>3
    <3>12. EmittedIsBehind'
      <4> SUFFICES ASSUME rotations = 0, NEW i \in 1..Len(emitted')
                   PROVE  /\ \E k \in 1..offset :
                               emitted'[i].line = content[watched][k].line
                          /\ \/ emitted'[i].line < LineInHand
                             \/ emitted'[i].line = LineInHand /\ emitted'[i].block <= block + 1
        BY <2>1, <2>2, <2>3, <3>1 DEF EmittedIsBehind
      <4>1. CASE i \in 1..Len(emitted)
        <5>1. /\ \E k \in 1..offset : emitted[i].line = content[watched][k].line
              /\ \/ emitted[i].line < LineInHand
                 \/ emitted[i].line = LineInHand /\ emitted[i].block <= block
          BY <2>1, <4>1 DEF OrderInv, EmittedIsBehind
        <5> QED BY <1>a, <3>6, <3>7, <4>1, <5>1
      <4>2. CASE i = Len(emitted) + 1
        <5>1. emitted'[i].line = LineInHand /\ emitted'[i].block = block + 1
          BY <3>5, <3>6, <4>2
        <5> QED BY <1>a, <3>2, <3>4, <5>1
      <4> QED BY <3>8, <4>1, <4>2
    <3> QED BY <2>2, <3>9, <3>11, <3>12 DEF OrderInv
  <2>5. CASE ~(block < BlocksIn[LineInHand])
    <3>1. at' = "scan" /\ emitted' = emitted
      BY <1>7, <2>5 DEF EmitBlock
    <3>2. offset' >= offset
      BY <1>a, <2>1
    <3> QED BY <2>1, <3>1, <3>2, MoveKeepsOrder
  <2> QED BY <2>4, <2>5
<1> QED
  BY <1>1, <1>2, <1>3, <1>4, <1>5, <1>6, <1>7 DEF TailStep

LEMMA OthersKeepOrder ==
  ASSUME OrderInv, GoesQuiet \/ MarkerStep \/ UNCHANGED vars
  PROVE  OrderInv'
<1>1. UNCHANGED <<agentVars, at, watched, offset, block, emitted>>
  BY DEF GoesQuiet, MarkerStep, StopSeen, NotifySeen, EmitMarker, vars, tailVars
<1> QED
  BY <1>1 DEF OrderInv, Ascending, OneFile, EmittedIsBehind, BlocksOnceInOrder,
       LineInHand, agentVars

(* Until the agent changes its session, every block goes out once and in   *)
(* the order the lines were written, however its writes, whole, torn or    *)
(* above 8 MB, fall between the polls.                                     *)
THEOREM BlocksOnceInOrderCorrect == Spec => []BlocksOnceInOrder
<1>1. TailInv /\ TailInv' /\ OrderInv /\ [Next]_vars => OrderInv'
  BY AgentKeepsOrder, TailKeepsOrder, OthersKeepOrder DEF Next
<1>2. OrderInv => BlocksOnceInOrder
  BY DEF OrderInv
<1> QED BY <1>1, <1>2, InitOrder, TailInvCorrect, PTL DEF Spec

-----------------------------------------------------------------------------
(* The ends of turns, and the queries. *)

(* Ends signalled, and ends taken out of the marker directory. *)
Out == Cardinality(Terms(signalled, Len(signalled)))
EndIn(s, n) == \E i \in 1..Len(s) : s[i] = Terminator(n)
Taken == Out + IF EndIn(ending, Out + 1) THEN 1 ELSE 0

(* What the loop has in hand: the end of the next turn, with pi's query    *)
(* before it or out already, or a notification.                            *)
NextEndInHand ==
  \/ ending = << >>
  \/ /\ ending = <<Terminator(Out + 1)>> /\ Out < stops
     /\ QueryAtTurnEnd =>
          Len(signalled) > 0 /\ signalled[Len(signalled)] = Query(Out + 1)
  \/ QueryAtTurnEnd /\ ending = <<Query(Out + 1), Terminator(Out + 1)>> /\ Out < stops
  \/ ~QueryAtTurnEnd /\ \E n \in 1..notes : ending = <<Query(n)>>

IsStop(e) == "stop" \in DOMAIN e

(* The stop markers still to be seen are those written after the ends that *)
(* were taken, each once and in their order.                               *)
StopsAwait ==
  /\ Taken <= stops
  /\ \A i \in 1..Len(markers) : IsStop(markers[i]) => markers[i].stop \in (Taken + 1)..stops
  /\ \A i, j \in 1..Len(markers) :
       i < j /\ IsStop(markers[i]) /\ IsStop(markers[j]) => markers[i].stop < markers[j].stop
  /\ \A n \in (Taken + 1)..stops : \E i \in 1..Len(markers) : markers[i] = [stop |-> n]
  /\ QueryAtTurnEnd => \A i \in 1..Len(markers) : IsStop(markers[i])

EndsOut ==
  /\ \A i \in 1..Len(signalled) : IsTerminator(signalled[i]) =>
       /\ signalled[i].term = Cardinality(Terms(signalled, i))
       /\ QueryAtTurnEnd => i > 1 /\ signalled[i - 1] = Query(signalled[i].term)
  /\ \A n \in 1..Out : \E i \in 1..Len(signalled) : signalled[i] = Terminator(n)

EndsInv == NextEndInHand /\ StopsAwait /\ EndsOut

(* What was asked is not later than what the loop may ask next. *)
Asked(n) == IF QueryAtTurnEnd THEN n <= Taken ELSE n <= notes

QueriesInv ==
  /\ QueriesInOrder
  /\ note \in {0, notes}
  /\ \A i \in 1..Len(signalled) : IsQuery(signalled[i]) =>
       /\ Asked(signalled[i].query)
       /\ \A j \in 1..Len(ending) : IsQuery(ending[j]) => signalled[i].query <= ending[j].query

LEMMA ChunkKinds ==
  /\ \A c \in MarkerChunks :
       /\ IsTerminator(c) => c.term \in Nat /\ c = Terminator(c.term) /\ ~IsQuery(c)
       /\ IsQuery(c) => c.query \in Nat /\ c = Query(c.query)
  /\ \A n :
       /\ IsTerminator(Terminator(n)) /\ ~IsQuery(Terminator(n)) /\ Terminator(n).term = n
       /\ IsQuery(Query(n)) /\ ~IsTerminator(Query(n)) /\ Query(n).query = n
BY TranscriptTailAssumption DEF IsTerminator, IsQuery, Terminator, Query, MarkerChunks

LEMMA MarkerKinds ==
  /\ \A e \in Events : IsStop(e) => e.stop \in Nat /\ e = [stop |-> e.stop]
  /\ \A n : IsStop([stop |-> n]) /\ ~IsStop([notify |-> n]) /\ [stop |-> n].stop = n
BY TranscriptTailAssumption DEF IsStop, Events

(* Appending one chunk counts it when it is a Terminator. *)
LEMMA TermsCount ==
  ASSUME NEW s \in Seq(MarkerChunks), NEW c \in MarkerChunks
  PROVE  /\ \A n \in 0..Len(s) :
              /\ Terms(Append(s, c), n) = Terms(s, n)
              /\ Cardinality(Terms(s, n)) \in Nat
         /\ Cardinality(Terms(Append(s, c), Len(s) + 1))
              = Cardinality(Terms(s, Len(s))) + IF IsTerminator(c) THEN 1 ELSE 0
<1> DEFINE longer == Append(s, c)
<1>1. /\ Len(longer) = Len(s) + 1 /\ Len(s) \in Nat
      /\ \A i \in 1..Len(s) : longer[i] = s[i]
      /\ longer[Len(s) + 1] = c
  BY AppendBehind
<1> HIDE DEF longer
<1>2. \A n \in 0..Len(s) : Terms(longer, n) = Terms(s, n)
  BY <1>1 DEF Terms
<1>3. ASSUME NEW n \in 0..Len(s)
      PROVE  IsFiniteSet(Terms(s, n)) /\ Cardinality(Terms(s, n)) \in Nat
  <2>1. IsFiniteSet(1..n)
    BY <1>1, FS_Interval
  <2>2. Terms(s, n) \in SUBSET (1..n)
    BY DEF Terms
  <2> QED BY <2>1, <2>2, FS_Subset, FS_CardinalityType
<1>4. CASE ~IsTerminator(c)
  <2>1. Terms(longer, Len(s) + 1) = Terms(s, Len(s))
    BY <1>1, <1>4 DEF Terms
  <2> QED BY <1>1, <1>2, <1>3, <1>4, <2>1 DEF longer
<1>5. CASE IsTerminator(c)
  <2>1. Terms(longer, Len(s) + 1) = Terms(s, Len(s)) \cup {Len(s) + 1}
    BY <1>1, <1>5 DEF Terms
  <2>2. Len(s) + 1 \notin Terms(s, Len(s)) /\ IsFiniteSet(Terms(s, Len(s)))
    BY <1>1, <1>3 DEF Terms
  <2>3. Cardinality(Terms(longer, Len(s) + 1)) = Cardinality(Terms(s, Len(s))) + 1
    BY <2>1, <2>2, FS_AddElement
  <2> QED BY <1>2, <1>3, <1>5, <2>3 DEF longer
<1> QED BY <1>4, <1>5

LEMMA OutIsNat == TypeOK => Out \in Nat /\ Taken \in Nat
<1> SUFFICES ASSUME TypeOK PROVE Out \in Nat
  BY DEF Taken
<1>1. signalled \in Seq(MarkerChunks) /\ Len(signalled) \in Nat
  BY DEF TypeOK
<1>2. IsFiniteSet(1..Len(signalled)) /\ Terms(signalled, Len(signalled)) \in SUBSET (1..Len(signalled))
  BY <1>1, FS_Interval DEF Terms
<1> QED BY <1>2, FS_Subset, FS_CardinalityType DEF Out

(* Whether an end is in the loop's hand, read off its chunks. *)
LEMMA EndInHand ==
  ASSUME NEW k, NEW s
  PROVE  /\ s = << >> => ~EndIn(s, k)
         /\ s = <<Terminator(k)>> => EndIn(s, k)
         /\ s = <<Query(k), Terminator(k)>> => EndIn(s, k)
         /\ (\E n : s = <<Query(n)>>) => ~EndIn(s, k)
<1>1. s = << >> => ~EndIn(s, k)
  BY DEF EndIn
<1>2. s = <<Terminator(k)>> => EndIn(s, k)
  BY DEF EndIn
<1>3. ASSUME s = <<Query(k), Terminator(k)>> PROVE EndIn(s, k)
  <2>1. 2 \in 1..Len(s) /\ s[2] = Terminator(k)
    BY <1>3
  <2> QED BY <2>1 DEF EndIn
<1>4. ASSUME NEW n, s = <<Query(n)>> PROVE ~EndIn(s, k)
  <2>1. Len(s) = 1 /\ s[1] = Query(n)
    BY <1>4
  <2>2. Query(n) # Terminator(k)
    BY ChunkKinds
  <2> QED BY <2>1, <2>2 DEF EndIn
<1> QED BY <1>1, <1>2, <1>3, <1>4

LEMMA InitEnds == Init => EndsInv /\ QueriesInv
<1> SUFFICES ASSUME Init PROVE EndsInv /\ QueriesInv
  OBVIOUS
<1>1. /\ signalled = << >> /\ ending = << >> /\ markers = << >> /\ stops = 0
      /\ note = 0 /\ Len(signalled) = 0 /\ Len(markers) = 0
  BY DEF Init
<1>2. Terms(signalled, Len(signalled)) = {}
  BY <1>1 DEF Terms
<1>3. Out = 0
  BY <1>2, FS_EmptySet DEF Out
<1>4. Taken = 0
  BY <1>1, <1>3 DEF Taken, EndIn
<1> QED
  BY <1>1, <1>3, <1>4 DEF EndsInv, NextEndInHand, StopsAwait, EndsOut, QueriesInv,
     QueriesInOrder

-----------------------------------------------------------------------------
(* A marker is written, the stop or the notify one, or neither. *)

Loops == <<agent, ending, signalled>>

LEMMA LoopsUntouched ==
  ASSUME UNCHANGED Loops
  PROVE  Out' = Out /\ Taken' = Taken /\ QueryAtTurnEnd' = QueryAtTurnEnd
BY DEF Loops, Out, Taken, QueryAtTurnEnd

LEMMA StopKeepsEnds ==
  ASSUME TailInv, EndsInv, QueriesInv, WriteStopMarker
  PROVE  EndsInv' /\ QueriesInv'
<1>1. TypeOK /\ Out \in Nat /\ Taken \in Nat
  BY OutIsNat DEF TailInv
<1>2. /\ UNCHANGED Loops /\ UNCHANGED <<notes, note>>
      /\ stops' = stops + 1 /\ markers' = Append(markers, [stop |-> stops + 1])
      /\ stops + 1 \in 1..MaxStops /\ stops \in Nat
  BY <1>1, TranscriptTailAssumption DEF WriteStopMarker, agentVars, tailVars, Loops, TypeOK
<1>3. Out' = Out /\ Taken' = Taken /\ QueryAtTurnEnd' = QueryAtTurnEnd
  BY <1>2, LoopsUntouched
<1>4. /\ Len(markers') = Len(markers) + 1 /\ Len(markers) \in Nat
      /\ \A i \in 1..Len(markers) : markers'[i] = markers[i]
      /\ markers'[Len(markers) + 1] = [stop |-> stops + 1]
  <2>1. markers \in Seq(Events) /\ [stop |-> stops + 1] \in Events
    BY <1>1, <1>2 DEF TypeOK, Events
  <2> QED BY <1>2, <2>1, AppendBehind
<1>5. NextEndInHand'
  BY <1>1, <1>2, <1>3 DEF EndsInv, NextEndInHand, Loops
<1>6. StopsAwait'
  <2>1. IsStop(markers'[Len(markers) + 1]) /\ markers'[Len(markers) + 1].stop = stops + 1
    BY <1>4, MarkerKinds
  <2>2. ASSUME NEW i \in 1..Len(markers'), IsStop(markers'[i])
        PROVE  markers'[i].stop \in (Taken + 1)..(stops + 1)
    BY <1>1, <1>2, <1>4, <2>1, <2>2 DEF EndsInv, StopsAwait
  <2>3. ASSUME NEW i \in 1..Len(markers'), NEW j \in 1..Len(markers'),
               i < j, IsStop(markers'[i]), IsStop(markers'[j])
        PROVE  markers'[i].stop < markers'[j].stop
    <3>1. i \in 1..Len(markers) /\ markers'[i] = markers[i]
      BY <1>4, <2>3
    <3>2. markers[i].stop \in (Taken + 1)..stops
      BY <2>3, <3>1 DEF EndsInv, StopsAwait
    <3>3. CASE j \in 1..Len(markers)
      BY <1>4, <2>3, <3>1, <3>3 DEF EndsInv, StopsAwait
    <3>4. CASE j = Len(markers) + 1
      BY <1>1, <1>2, <2>1, <3>1, <3>2, <3>4
    <3> QED BY <1>4, <3>3, <3>4
  <2>4. ASSUME NEW n \in (Taken + 1)..(stops + 1)
        PROVE  \E i \in 1..Len(markers') : markers'[i] = [stop |-> n]
    <3>1. CASE n = stops + 1
      BY <1>4, <3>1
    <3>2. CASE n \in (Taken + 1)..stops
      BY <1>4, <3>2 DEF EndsInv, StopsAwait
    <3> QED BY <1>1, <1>2, <3>1, <3>2
  <2>5. QueryAtTurnEnd => \A i \in 1..Len(markers') : IsStop(markers'[i])
    BY <1>4, <2>1 DEF EndsInv, StopsAwait
  <2>6. Taken <= stops + 1
    BY <1>1, <1>2 DEF EndsInv, StopsAwait
  <2> QED BY <1>2, <1>3, <2>2, <2>3, <2>4, <2>5, <2>6 DEF StopsAwait
<1>7. EndsOut'
  BY <1>2, <1>3 DEF EndsInv, EndsOut, Loops
<1>8. QueriesInv'
  BY <1>2, <1>3 DEF QueriesInv, QueriesInOrder, Asked, Loops
<1> QED BY <1>5, <1>6, <1>7, <1>8 DEF EndsInv

LEMMA NotifyKeepsEnds ==
  ASSUME TailInv, EndsInv, QueriesInv, WriteNotifyMarker
  PROVE  EndsInv' /\ QueriesInv'
<1>1. TypeOK /\ Out \in Nat /\ Taken \in Nat
  BY OutIsNat DEF TailInv
<1>2. /\ UNCHANGED Loops /\ stops' = stops /\ ~QueryAtTurnEnd
      /\ notes' = notes + 1 /\ note' \in {0, notes + 1} /\ notes \in Nat
      /\ markers' = Append(markers, [notify |-> notes + 1])
      /\ notes + 1 \in 1..MaxNotes
  BY <1>1, TranscriptTailAssumption
     DEF WriteNotifyMarker, WatchesNotify, QueryAtTurnEnd, agentVars, tailVars, Loops, TypeOK
<1>3. Out' = Out /\ Taken' = Taken /\ QueryAtTurnEnd' = QueryAtTurnEnd
  BY <1>2, LoopsUntouched
<1>4. /\ Len(markers') = Len(markers) + 1 /\ Len(markers) \in Nat
      /\ \A i \in 1..Len(markers) : markers'[i] = markers[i]
      /\ ~IsStop(markers'[Len(markers) + 1])
  <2>1. markers \in Seq(Events) /\ [notify |-> notes + 1] \in Events
    BY <1>1, <1>2 DEF TypeOK, Events
  <2>2. ~IsStop([notify |-> notes + 1])
    BY MarkerKinds
  <2> QED BY <1>2, <2>1, <2>2, AppendBehind
<1>5. NextEndInHand'
  BY <1>1, <1>2, <1>3 DEF EndsInv, NextEndInHand, Loops
<1>6. StopsAwait'
  BY <1>1, <1>2, <1>3, <1>4 DEF EndsInv, StopsAwait
<1>7. EndsOut'
  BY <1>2, <1>3 DEF EndsInv, EndsOut, Loops
<1>8. QueriesInv'
  <2>1. \A i \in 1..Len(signalled) : IsQuery(signalled[i]) => signalled[i].query \in Nat
    BY <1>1, ChunkKinds DEF TypeOK
  <2> QED BY <1>1, <1>2, <1>3, <2>1 DEF QueriesInv, QueriesInOrder, Asked, Loops
<1> QED BY <1>5, <1>6, <1>7, <1>8 DEF EndsInv

LEMMA OthersKeepEnds ==
  ASSUME EndsInv, QueriesInv, UNCHANGED <<agent, hookVars, markerVars>>
  PROVE  EndsInv' /\ QueriesInv'
<1>1. UNCHANGED Loops /\ UNCHANGED <<stops, notes, note, markers>>
  BY DEF Loops, hookVars, markerVars
<1>2. Out' = Out /\ Taken' = Taken /\ QueryAtTurnEnd' = QueryAtTurnEnd
  BY <1>1, LoopsUntouched
<1> QED
  BY <1>1, <1>2 DEF EndsInv, NextEndInHand, StopsAwait, EndsOut, QueriesInv,
     QueriesInOrder, Asked, Loops

-----------------------------------------------------------------------------
(* markerLoop takes a marker up. *)

(* The first marker is taken off; the others move up by one. *)
LEMMA MarkersMoveUp ==
  ASSUME NEW S, NEW s \in Seq(S), s # << >>
  PROVE  /\ Head(s) = s[1] /\ Len(s) \in Nat /\ Len(s) > 0
         /\ Tail(s) \in Seq(S) /\ Len(Tail(s)) = Len(s) - 1
         /\ \A i \in 1..Len(Tail(s)) : Tail(s)[i] = s[i + 1]
OBVIOUS

LEMMA StopSeenKeepsEnds ==
  ASSUME TailInv, EndsInv, QueriesInv, StopSeen
  PROVE  EndsInv' /\ QueriesInv'
<1>0. PICK k \in Nat : k = Out
  BY OutIsNat DEF TailInv
<1>1. TypeOK /\ Out = k /\ Taken = k /\ ending = << >>
  BY <1>0, EndInHand DEF TailInv, StopSeen, Taken
<1>2. /\ UNCHANGED <<agent, stops, notes, note, signalled>>
      /\ markers # << >> /\ IsStop(Head(markers)) /\ markers' = Tail(markers)
      /\ ending' = TurnEndChunks(Head(markers).stop)
  BY DEF StopSeen, agentVars, hookVars, IsStop
<1>3. /\ Head(markers) = markers[1] /\ Len(markers) \in Nat /\ Len(markers) > 0
      /\ Len(markers') = Len(markers) - 1
      /\ \A i \in 1..Len(markers') : markers'[i] = markers[i + 1]
  BY <1>1, <1>2, MarkersMoveUp DEF TypeOK
<1>4. stops \in Nat /\ \A i \in 1..Len(markers) : markers[i] \in Events
  BY <1>1, <1>3, TranscriptTailAssumption DEF TypeOK
<1>5. markers[1].stop = k + 1 /\ k + 1 <= stops
  <2>1. markers[1].stop \in (k + 1)..stops
    BY <1>1, <1>2, <1>3 DEF EndsInv, StopsAwait
  <2>2. k + 1 \in (k + 1)..stops
    BY <1>1, <1>4, <2>1
  <2>3. PICK i \in 1..Len(markers) : markers[i] = [stop |-> k + 1]
    BY <1>1, <2>2 DEF EndsInv, StopsAwait
  <2>4. IsStop(markers[i]) /\ markers[i].stop = k + 1
    BY <2>3, MarkerKinds
  <2>5. i # 1 => markers[1].stop < k + 1
    BY <1>1, <1>2, <1>3, <2>3, <2>4 DEF EndsInv, StopsAwait
  <2> QED BY <1>1, <1>4, <2>1, <2>4, <2>5
<1>6. Out' = k /\ QueryAtTurnEnd' = QueryAtTurnEnd
  BY <1>1, <1>2 DEF Out, QueryAtTurnEnd
<1>7. ending' = IF QueryAtTurnEnd THEN <<Query(k + 1), Terminator(k + 1)>>
                                  ELSE <<Terminator(k + 1)>>
  BY <1>2, <1>3, <1>5 DEF TurnEndChunks
<1>8. Taken' = k + 1
  <2>1. EndIn(ending', k + 1)
    BY <1>7, EndInHand
  <2> QED BY <2>1, <1>6 DEF Taken
<1>9. NextEndInHand'
  BY <1>2, <1>4, <1>5, <1>6, <1>7, <1>1 DEF NextEndInHand
<1>10. StopsAwait'
  <2>1. \A i, j \in 1..Len(markers') :
          i < j /\ IsStop(markers'[i]) /\ IsStop(markers'[j]) => markers'[i].stop < markers'[j].stop
    <3> SUFFICES ASSUME NEW i \in 1..Len(markers'), NEW j \in 1..Len(markers'),
                        i < j, IsStop(markers'[i]), IsStop(markers'[j])
                 PROVE  markers'[i].stop < markers'[j].stop
      OBVIOUS
    <3>1. /\ i + 1 \in 1..Len(markers) /\ j + 1 \in 1..Len(markers) /\ i + 1 < j + 1
          /\ markers'[i] = markers[i + 1] /\ markers'[j] = markers[j + 1]
      BY <1>3
    <3> QED BY <3>1 DEF EndsInv, StopsAwait
  <2>2. ASSUME NEW i \in 1..Len(markers'), IsStop(markers'[i])
        PROVE  markers'[i].stop \in (k + 2)..stops
    <3>1. /\ markers'[i] = markers[i + 1] /\ i + 1 \in 1..Len(markers) /\ 1 < i + 1
      BY <1>3
    <3>2. markers[i + 1].stop \in (k + 1)..stops /\ markers[1].stop < markers[i + 1].stop
      BY <1>1, <1>2, <1>3, <2>2, <3>1 DEF EndsInv, StopsAwait
    <3> QED BY <1>1, <1>4, <1>5, <3>1, <3>2
  <2>3. ASSUME NEW n \in (k + 2)..stops
        PROVE  \E i \in 1..Len(markers') : markers'[i] = [stop |-> n]
    <3>1. n \in (k + 1)..stops /\ n # k + 1
      BY <1>1, <1>4
    <3>2. PICK i \in 1..Len(markers) : markers[i] = [stop |-> n]
      BY <1>1, <3>1 DEF EndsInv, StopsAwait
    <3>3. i # 1
      BY <1>5, <3>1, <3>2, MarkerKinds
    <3>4. i - 1 \in 1..Len(markers') /\ markers'[i - 1] = markers[i]
      BY <1>3, <3>2, <3>3
    <3> QED BY <3>2, <3>4
  <2>4. QueryAtTurnEnd => \A i \in 1..Len(markers') : IsStop(markers'[i])
    BY <1>3 DEF EndsInv, StopsAwait
  <2> QED BY <1>1, <1>2, <1>4, <1>5, <1>6, <1>8, <2>1, <2>2, <2>3, <2>4 DEF StopsAwait
<1>11. EndsOut'
  BY <1>1, <1>2, <1>6 DEF EndsInv, EndsOut
<1>12. QueriesInv'
  <2>1. ASSUME NEW i \in 1..Len(signalled), IsQuery(signalled[i])
        PROVE  /\ Asked(signalled[i].query)'
               /\ \A j \in 1..Len(ending') : IsQuery(ending'[j]) =>
                    signalled[i].query <= ending'[j].query
    <3>1. signalled[i].query \in Nat
      BY <1>1, <2>1, ChunkKinds DEF TypeOK
    <3>2. QueryAtTurnEnd => signalled[i].query <= k
      BY <1>1, <2>1 DEF QueriesInv, Asked
    <3>3. Asked(signalled[i].query)'
      <4>1. Asked(signalled[i].query)
        BY <2>1 DEF QueriesInv
      <4> QED BY <1>1, <1>2, <1>6, <1>8, <3>1, <3>2, <4>1 DEF Asked
    <3>4. ASSUME NEW j \in 1..Len(ending'), IsQuery(ending'[j])
          PROVE  signalled[i].query <= ending'[j].query
      <4>1. QueryAtTurnEnd /\ ending'[j] = Query(k + 1)
        <5>1. CASE QueryAtTurnEnd
          <6>1. Len(ending') = 2 /\ ending'[1] = Query(k + 1) /\ ending'[2] = Terminator(k + 1)
            BY <5>1, <1>7
          <6> QED BY <3>4, <5>1, <6>1, ChunkKinds
        <5>2. CASE ~QueryAtTurnEnd
          <6>1. Len(ending') = 1 /\ ending'[1] = Terminator(k + 1)
            BY <5>2, <1>7
          <6> QED BY <3>4, <6>1, ChunkKinds
        <5> QED BY <5>1, <5>2
      <4> QED BY <1>1, <3>1, <3>2, <4>1, ChunkKinds
    <3> QED BY <3>3, <3>4
  <2> QED BY <1>2, <2>1 DEF QueriesInv, QueriesInOrder
<1> QED BY <1>9, <1>10, <1>11, <1>12 DEF EndsInv

(* pi has no notify marker; for the others what is asked is the last text. *)
LEMMA NotifySeenKeepsEnds ==
  ASSUME TailInv, EndsInv, QueriesInv, NotifySeen
  PROVE  EndsInv' /\ QueriesInv'
<1>0. PICK k \in Nat : k = Out
  BY OutIsNat DEF TailInv
<1>1. TypeOK /\ Out = k /\ Taken = k /\ ending = << >>
  BY <1>0, EndInHand DEF TailInv, NotifySeen, Taken
<1>2. /\ UNCHANGED <<agent, stops, notes, note, signalled>>
      /\ markers # << >> /\ "notify" \in DOMAIN Head(markers) /\ markers' = Tail(markers)
      /\ ending' = IF note = 0 THEN << >> ELSE <<Query(note)>>
  BY DEF NotifySeen, agentVars, hookVars
<1>3. /\ Head(markers) = markers[1] /\ Len(markers) \in Nat /\ Len(markers) > 0
      /\ Len(markers') = Len(markers) - 1
      /\ \A i \in 1..Len(markers') : markers'[i] = markers[i + 1]
      /\ markers[1] \in Events
  <2>1. markers \in Seq(Events)
    BY <1>1 DEF TypeOK
  <2> QED BY <2>1, <1>2, MarkersMoveUp
<1>4. ~IsStop(markers[1])
  BY <1>2, <1>3 DEF IsStop, Events
<1>5. ~QueryAtTurnEnd
  BY <1>3, <1>4 DEF EndsInv, StopsAwait
<1>6. Out' = k /\ ~QueryAtTurnEnd'
  BY <1>1, <1>2, <1>5 DEF Out, QueryAtTurnEnd
<1>7. Taken' = k
  BY <1>2, <1>6, EndInHand DEF Taken
<1>8. stops \in Nat /\ notes \in Nat /\ (note # 0 => note = notes /\ note \in 1..notes)
  BY <1>1, TranscriptTailAssumption DEF TypeOK, QueriesInv
<1>9. NextEndInHand'
  BY <1>2, <1>6, <1>8 DEF NextEndInHand
<1>10. StopsAwait'
  <2>1. ASSUME NEW i \in 1..Len(markers')
        PROVE  i + 1 \in 1..Len(markers) /\ markers'[i] = markers[i + 1]
    BY <1>3
  <2>2. \A i \in 1..Len(markers') : IsStop(markers'[i]) => markers'[i].stop \in (k + 1)..stops
    BY <1>1, <2>1 DEF EndsInv, StopsAwait
  <2>3. ASSUME NEW i \in 1..Len(markers'), NEW j \in 1..Len(markers'),
               i < j, IsStop(markers'[i]), IsStop(markers'[j])
        PROVE  markers'[i].stop < markers'[j].stop
    <3>1. i + 1 < j + 1
      BY <2>3, <1>3
    <3> QED BY <2>1, <2>3, <3>1 DEF EndsInv, StopsAwait
  <2>4. ASSUME NEW n \in (k + 1)..stops
        PROVE  \E i \in 1..Len(markers') : markers'[i] = [stop |-> n]
    <3>1. PICK i \in 1..Len(markers) : markers[i] = [stop |-> n]
      BY <1>1 DEF EndsInv, StopsAwait
    <3>2. i # 1
      <4>1. IsStop([stop |-> n])
        BY DEF IsStop
      <4>2. IsStop(markers[i])
        BY <3>1, <4>1
      <4> QED BY <1>4, <4>2
    <3>3. i - 1 \in 1..Len(markers') /\ markers'[i - 1] = markers[i]
      BY <1>3, <3>2
    <3> QED BY <3>1, <3>3
  <2>5. k <= stops
    BY <1>1 DEF EndsInv, StopsAwait
  <2> QED BY <1>2, <1>6, <1>7, <2>2, <2>3, <2>4, <2>5 DEF StopsAwait
<1>11. EndsOut'
  BY <1>1, <1>2, <1>6, <1>5 DEF EndsInv, EndsOut
<1>12. QueriesInv'
  <2>1. ASSUME NEW i \in 1..Len(signalled), IsQuery(signalled[i])
        PROVE  /\ signalled[i].query <= notes
               /\ \A j \in 1..Len(ending') : signalled[i].query <= ending'[j].query
    <3>1. signalled[i].query <= notes
      BY <1>5, <2>1 DEF QueriesInv, Asked
    <3>2. ASSUME NEW j \in 1..Len(ending')
          PROVE  signalled[i].query <= ending'[j].query
      <4>1. note # 0 /\ ending'[j] = Query(note)
        <5>1. note # 0
          BY <1>2
        <5>2. Len(ending') = 1 /\ ending'[1] = Query(note)
          BY <1>2, <5>1
        <5> QED BY <5>1, <5>2
      <4> QED BY <1>8, <3>1, <4>1, ChunkKinds
    <3> QED BY <3>1, <3>2
  <2> QED BY <1>2, <1>6, <2>1 DEF QueriesInv, QueriesInOrder, Asked
<1> QED BY <1>9, <1>10, <1>11, <1>12 DEF EndsInv

-----------------------------------------------------------------------------
(* markerLoop emits. *)

(* A query goes out: the ends taken are as before. *)
LEMMA QueryOutKeepsEnds ==
  ASSUME TailInv, EndsInv, QueriesInv, EmitMarker, IsQuery(Head(ending))
  PROVE  EndsInv' /\ QueriesInv'
<1>0. PICK k \in Nat : k = Out
  BY OutIsNat DEF TailInv
<1> DEFINE c == Head(ending)
           n == Len(signalled)
<1>1. /\ TypeOK /\ Out = k /\ c \in MarkerChunks /\ n \in Nat /\ stops \in Nat
      /\ signalled \in Seq(MarkerChunks) /\ ending # << >>
  BY <1>0, TranscriptTailAssumption DEF TailInv, TypeOK, EmitMarker
<1>2. /\ UNCHANGED <<agent, stops, notes, note, markers>>
      /\ signalled' = Append(signalled, c) /\ ending' = Tail(ending)
  BY DEF EmitMarker, agentVars, hookVars
<1>3. /\ Len(signalled') = n + 1 /\ signalled'[n + 1] = c
      /\ \A i \in 1..n : signalled'[i] = signalled[i]
  BY <1>1, <1>2, AppendBehind
<1>4. ~IsTerminator(c) /\ c.query \in Nat /\ c = Query(c.query)
  BY <1>1, ChunkKinds
<1>5. /\ \A i \in 1..n : Terms(signalled', i) = Terms(signalled, i)
      /\ Cardinality(Terms(signalled', n + 1)) = k
  BY <1>1, <1>2, <1>4, TermsCount DEF Out
<1>6. Out' = k /\ QueryAtTurnEnd' = QueryAtTurnEnd
  BY <1>2, <1>3, <1>5 DEF Out, QueryAtTurnEnd
<1>7. \/ /\ QueryAtTurnEnd /\ ending = <<Query(k + 1), Terminator(k + 1)>> /\ k < stops
         /\ c = Query(k + 1) /\ ending' = <<Terminator(k + 1)>> /\ Taken = k + 1
      \/ /\ ~QueryAtTurnEnd /\ ending' = << >> /\ Taken = k
         /\ \E m \in 1..notes : ending = <<Query(m)>> /\ c = Query(m)
  <2>1. CASE QueryAtTurnEnd
    <3>1. ending = <<Query(k + 1), Terminator(k + 1)>> /\ k < stops
      <4>1. ending # <<Terminator(k + 1)>>
        <5> SUFFICES ASSUME ending = <<Terminator(k + 1)>> PROVE FALSE
          OBVIOUS
        <5>1. c = Terminator(k + 1)
          OBVIOUS
        <5> QED BY <5>1, <1>4, ChunkKinds
      <4> QED BY <1>1, <2>1, <4>1 DEF EndsInv, NextEndInHand
    <3>2. c = Query(k + 1) /\ Tail(ending) = <<Terminator(k + 1)>>
      BY <3>1
    <3>3. Taken = k + 1
      BY <1>1, <3>1, EndInHand DEF Taken
    <3> QED BY <1>2, <2>1, <3>1, <3>2, <3>3
  <2>2. CASE ~QueryAtTurnEnd
    <3>1. \E m \in 1..notes : ending = <<Query(m)>>
      <4>1. ending # <<Terminator(k + 1)>>
        <5> SUFFICES ASSUME ending = <<Terminator(k + 1)>> PROVE FALSE
          OBVIOUS
        <5>1. c = Terminator(k + 1)
          OBVIOUS
        <5> QED BY <5>1, <1>4, ChunkKinds
      <4> QED BY <1>1, <2>2, <4>1 DEF EndsInv, NextEndInHand
    <3>2. PICK m \in 1..notes : ending = <<Query(m)>>
      BY <3>1
    <3>3. c = Query(m) /\ Tail(ending) = << >>
      BY <3>2
    <3>4. Taken = k
      BY <1>1, <3>2, EndInHand DEF Taken
    <3> QED BY <1>2, <2>2, <3>2, <3>3, <3>4
  <2> QED BY <2>1, <2>2
<1> HIDE DEF c, n
<1>8. Taken' = Taken
  BY <1>6, <1>7, EndInHand DEF Taken
<1>9. NextEndInHand'
  BY <1>1, <1>2, <1>3, <1>6, <1>7 DEF NextEndInHand, n
<1>10. StopsAwait'
  BY <1>2, <1>6, <1>8 DEF EndsInv, StopsAwait
<1>11. EndsOut'
  <2>1. ASSUME NEW i \in 1..(n + 1), IsTerminator(signalled'[i])
        PROVE  /\ signalled'[i].term = Cardinality(Terms(signalled', i))
               /\ QueryAtTurnEnd => i > 1 /\ signalled'[i - 1] = Query(signalled'[i].term)
    <3>1. i \in 1..n /\ signalled'[i] = signalled[i]
      BY <1>1, <1>3, <1>4, <2>1
    <3>2. i > 1 => i - 1 \in 1..n
      BY <1>1, <3>1
    <3> QED BY <1>3, <1>5, <2>1, <3>1, <3>2 DEF EndsInv, EndsOut, n
  <2>2. ASSUME NEW j \in 1..k
        PROVE  \E i \in 1..(n + 1) : signalled'[i] = Terminator(j)
    <3>1. PICK i \in 1..n : signalled[i] = Terminator(j)
      BY <1>1 DEF EndsInv, EndsOut, n
    <3> QED BY <1>1, <1>3, <3>1
  <2> QED BY <1>3, <1>6, <2>1, <2>2 DEF EndsOut
<1>12. QueriesInv'
  <2>1. Asked(c.query)
    BY <1>1, <1>7, ChunkKinds DEF Asked, TypeOK
  <2>2. ASSUME NEW i \in 1..n, IsQuery(signalled[i])
        PROVE  signalled[i].query <= c.query
    <3>1. 1 \in 1..Len(ending) /\ ending[1] = c
      BY <1>1 DEF c, TypeOK
    <3> QED BY <2>2, <3>1 DEF QueriesInv, c, n
  <2>3. QueriesInOrder'
    <3> SUFFICES ASSUME NEW i \in 1..(n + 1), NEW j \in 1..(n + 1), i < j,
                        IsQuery(signalled'[i]), IsQuery(signalled'[j])
                 PROVE  signalled'[i].query <= signalled'[j].query
      BY <1>3 DEF QueriesInOrder
    <3>1. i \in 1..n /\ signalled'[i] = signalled[i]
      BY <1>1, <1>3
    <3>2. CASE j \in 1..n
      BY <1>3, <3>1, <3>2 DEF QueriesInv, QueriesInOrder, n
    <3>3. CASE j = n + 1
      BY <1>3, <2>2, <3>1, <3>3
    <3> QED BY <1>1, <3>2, <3>3
  <2>4. \A j \in 1..Len(ending') : ~IsQuery(ending'[j])
    <3>1. CASE ending' = << >>
      BY <3>1
    <3>2. CASE ending' = <<Terminator(k + 1)>>
      BY <3>2, ChunkKinds
    <3> QED BY <1>7, <3>1, <3>2
  <2>5. ASSUME NEW i \in 1..(n + 1), IsQuery(signalled'[i])
        PROVE  Asked(signalled'[i].query)
    <3>1. CASE i \in 1..n
      BY <1>3, <2>5, <3>1 DEF QueriesInv, n
    <3>2. CASE i = n + 1
      BY <1>3, <2>1, <3>2
    <3> QED BY <1>1, <3>1, <3>2
  <2> QED BY <1>2, <1>3, <1>6, <1>8, <2>3, <2>4, <2>5 DEF QueriesInv, Asked
<1> QED BY <1>9, <1>10, <1>11, <1>12 DEF EndsInv

(* The Terminator goes out: one more end is out, none is in hand. *)
LEMMA TerminatorOutKeepsEnds ==
  ASSUME TailInv, EndsInv, QueriesInv, EmitMarker, ~IsQuery(Head(ending))
  PROVE  EndsInv' /\ QueriesInv'
<1>0. PICK k \in Nat : k = Out
  BY OutIsNat DEF TailInv
<1> DEFINE c == Head(ending)
           n == Len(signalled)
<1>1. /\ TypeOK /\ Out = k /\ c \in MarkerChunks /\ n \in Nat /\ stops \in Nat
      /\ signalled \in Seq(MarkerChunks) /\ ending # << >>
  BY <1>0, TranscriptTailAssumption DEF TailInv, TypeOK, EmitMarker
<1>2. /\ UNCHANGED <<agent, stops, notes, note, markers>>
      /\ signalled' = Append(signalled, c) /\ ending' = Tail(ending)
  BY DEF EmitMarker, agentVars, hookVars
<1>3. /\ Len(signalled') = n + 1 /\ signalled'[n + 1] = c
      /\ \A i \in 1..n : signalled'[i] = signalled[i]
  BY <1>1, <1>2, AppendBehind
<1>4. /\ ending = <<Terminator(k + 1)>> /\ k < stops
      /\ QueryAtTurnEnd => n > 0 /\ signalled[n] = Query(k + 1)
  <2>1. ASSUME NEW m, ending = <<Query(m)>> PROVE FALSE
    BY <2>1, ChunkKinds
  <2>2. ASSUME ending = <<Query(k + 1), Terminator(k + 1)>> PROVE FALSE
    <3>1. c = Query(k + 1)
      BY <2>2
    <3> QED BY <3>1, ChunkKinds
  <2> QED BY <1>1, <2>1, <2>2 DEF EndsInv, NextEndInHand
<1>5. c = Terminator(k + 1) /\ ending' = << >> /\ Taken = k + 1
  BY <1>1, <1>2, <1>4, EndInHand DEF Taken
<1>6. IsTerminator(c) /\ ~IsQuery(c) /\ c.term = k + 1
  BY <1>5, ChunkKinds
<1> HIDE DEF c, n
<1>7. /\ \A i \in 1..n : Terms(signalled', i) = Terms(signalled, i)
      /\ Cardinality(Terms(signalled', n + 1)) = k + 1
  BY <1>1, <1>2, <1>6, TermsCount DEF Out, n
<1>8. Out' = k + 1 /\ QueryAtTurnEnd' = QueryAtTurnEnd
  BY <1>2, <1>3, <1>7 DEF Out, QueryAtTurnEnd
<1>9. Taken' = k + 1
  BY <1>5, <1>8, EndInHand DEF Taken
<1>10. NextEndInHand'
  BY <1>5 DEF NextEndInHand
<1>11. StopsAwait'
  BY <1>2, <1>5, <1>8, <1>9 DEF EndsInv, StopsAwait
<1>12. EndsOut'
  <2>1. ASSUME NEW i \in 1..(n + 1), IsTerminator(signalled'[i])
        PROVE  /\ signalled'[i].term = Cardinality(Terms(signalled', i))
               /\ QueryAtTurnEnd => i > 1 /\ signalled'[i - 1] = Query(signalled'[i].term)
    <3>1. CASE i \in 1..n
      <4>1. signalled'[i] = signalled[i] /\ (i > 1 => i - 1 \in 1..n)
        BY <1>1, <1>3, <3>1
      <4> QED BY <1>3, <1>7, <2>1, <3>1, <4>1 DEF EndsInv, EndsOut, n
    <3>2. CASE i = n + 1
      <4>1. signalled'[i].term = k + 1
        BY <1>3, <1>6, <3>2
      <4>2. QueryAtTurnEnd => i > 1 /\ n \in 1..n /\ i - 1 = n
        BY <1>1, <1>4, <3>2
      <4> QED BY <1>3, <1>4, <1>7, <3>2, <4>1, <4>2
    <3> QED BY <1>1, <3>1, <3>2
  <2>2. ASSUME NEW j \in 1..(k + 1)
        PROVE  \E i \in 1..(n + 1) : signalled'[i] = Terminator(j)
    <3>1. CASE j = k + 1
      BY <1>1, <1>3, <1>5, <3>1
    <3>2. CASE j \in 1..k
      <4>1. PICK i \in 1..n : signalled[i] = Terminator(j)
        BY <1>1, <3>2 DEF EndsInv, EndsOut, n
      <4> QED BY <1>1, <1>3, <4>1
    <3> QED BY <3>1, <3>2
  <2> QED BY <1>3, <1>8, <2>1, <2>2 DEF EndsOut
<1>13. QueriesInv'
  <2>1. ASSUME NEW i \in 1..(n + 1), IsQuery(signalled'[i])
        PROVE  i \in 1..n /\ signalled'[i] = signalled[i]
    BY <1>1, <1>3, <1>6, <2>1
  <2>2. QueriesInOrder'
    BY <1>3, <2>1 DEF QueriesInv, QueriesInOrder, n
  <2>3. \A i \in 1..(n + 1) : IsQuery(signalled'[i]) => Asked(signalled'[i].query)
    BY <2>1 DEF QueriesInv, n
  <2>4. Len(ending') = 0
    BY <1>5
  <2> QED BY <1>2, <1>3, <1>5, <1>8, <1>9, <2>2, <2>3, <2>4 DEF QueriesInv, Asked
<1> QED BY <1>10, <1>11, <1>12, <1>13 DEF EndsInv

LEMMA EndsStep == TailInv /\ EndsInv /\ QueriesInv /\ [Next]_vars => EndsInv' /\ QueriesInv'
<1> SUFFICES ASSUME TailInv, EndsInv, QueriesInv, [Next]_vars PROVE EndsInv' /\ QueriesInv'
  OBVIOUS
<1>1. CASE WriteStopMarker \/ WriteNotifyMarker
  BY <1>1, StopKeepsEnds, NotifyKeepsEnds
<1>2. CASE MarkerStep
  BY <1>2, StopSeenKeepsEnds, NotifySeenKeepsEnds, QueryOutKeepsEnds,
     TerminatorOutKeepsEnds DEF MarkerStep
<1>3. CASE \/ \E f \in Files : WriteLine(f) \/ WriteLongLine(f) \/ BeginLine(f) \/ CompleteLine(f)
           \/ ChangeSession
  BY <1>3, OthersKeepEnds DEF WriteLine, WriteLongLine, BeginLine, CompleteLine, Write,
     ChangeSession
<1>4. CASE TailStep \/ GoesQuiet \/ UNCHANGED vars
  BY <1>4, OthersKeepEnds DEF TailStep, NothingToOpen, OpenNewest, Tick, ScanLine,
     ScanTornLine, ScanTooLong, ScanRest, ScanEnds, EmitBlock, Rescan, GoesQuiet,
     vars, agentVars, hookVars, markerVars
<1> QED BY <1>1, <1>2, <1>3, <1>4 DEF Next, AgentStep

LEMMA EndsInvCorrect == Spec => [](TailInv /\ EndsInv /\ QueriesInv)
<1>1. TailInv /\ [Next]_vars => TailInv'
  BY AgentKeepsTail, TailKeepsTail, QuietKeepsTail, MarkerKeepsTail DEF Next
<1> QED BY <1>1, InitTail, InitEnds, EndsStep, PTL DEF Spec

(* However markers, polls and emits interleave, the n-th Terminator is that *)
(* of the n-th stop marker, pi's query is right before it, and no marker    *)
(* that was written is forgotten on its way to the channel.                 *)
THEOREM TurnEndsInOrderCorrect == Spec => []TurnEndsInOrder
<1>1. TailInv /\ EndsInv => TurnEndsInOrder
  <2> SUFFICES ASSUME TailInv, EndsInv, NEW n \in 1..stops
               PROVE  \/ \E i \in 1..Len(signalled) : signalled[i] = Terminator(n)
                      \/ \E i \in 1..Len(ending) : ending[i] = Terminator(n)
                      \/ \E i \in 1..Len(markers) : markers[i] = [stop |-> n]
    BY DEF TurnEndsInOrder, EndsInv, EndsOut
  <2>1. Out \in Nat /\ stops \in Nat
    BY OutIsNat, TranscriptTailAssumption DEF TailInv, TypeOK
  <2>2. CASE n \in 1..Out
    BY <2>2 DEF EndsInv, EndsOut
  <2>3. CASE n = Out + 1 /\ EndIn(ending, Out + 1)
    BY <2>3 DEF EndIn
  <2>4. CASE n \in (Taken + 1)..stops
    BY <2>4 DEF EndsInv, StopsAwait
  <2> QED BY <2>1, <2>2, <2>3, <2>4 DEF Taken
<1> QED BY <1>1, EndsInvCorrect, PTL

(* A text that a later notification replaced is not asked after that one,   *)
(* although the marker is read later than its event: queries never go back. *)
THEOREM QueriesInOrderCorrect == Spec => []QueriesInOrder
<1>1. QueriesInv => QueriesInOrder
  BY DEF QueriesInv
<1> QED BY <1>1, EndsInvCorrect, PTL

-----------------------------------------------------------------------------
(* The safety half of LastNotificationIsAsked: the text the notify marker    *)
(* holds has been asked, is in the loop's hand, or an event is still queued  *)
(* at which the marker will be read.  Handling the event of an overwritten   *)
(* notification, or the end of a turn in between, never leaves the newest    *)
(* text with nobody to look at it.                                           *)
LastNotificationIsKept ==
  note # 0 =>
    \/ \E i \in 1..Len(signalled) : signalled[i] = Query(note)
    \/ \E i \in 1..Len(ending) : ending[i] = Query(note)
    \/ \E i \in 1..Len(markers) : ~IsStop(markers[i])

LEMMA AgentKeepsNotification ==
  ASSUME TypeOK, LastNotificationIsKept, WriteStopMarker \/ WriteNotifyMarker
  PROVE  LastNotificationIsKept'
<1>1. PICK e : /\ markers' = Append(markers, e)
               /\ \/ e = [notify |-> notes + 1]
                  \/ note' = note
               /\ UNCHANGED <<ending, signalled>>
  BY DEF WriteStopMarker, WriteNotifyMarker
<1>2. /\ Len(markers) \in Nat /\ Len(markers') = Len(markers) + 1
      /\ \A i \in 1..Len(markers) : markers'[i] = markers[i]
      /\ markers'[Len(markers) + 1] = e
  BY <1>1 DEF TypeOK
<1>3. CASE e = [notify |-> notes + 1]
  <2>1. Len(markers) + 1 \in 1..Len(markers')
    BY <1>2
  <2>2. ~IsStop(e)
    BY <1>3, MarkerKinds
  <2> QED BY <1>2, <2>1, <2>2 DEF LastNotificationIsKept
<1>4. CASE note' = note
  <2>1. \A i \in 1..Len(markers) : i \in 1..Len(markers')
    BY <1>2
  <2> QED BY <1>1, <1>2, <1>4, <2>1 DEF LastNotificationIsKept, Query
<1> QED BY <1>1, <1>3, <1>4

LEMMA LoopKeepsNotification ==
  ASSUME TypeOK, LastNotificationIsKept, MarkerStep
  PROVE  LastNotificationIsKept'
<1>1. note' = note
  BY DEF MarkerStep, StopSeen, NotifySeen, EmitMarker, hookVars
<1> SUFFICES ASSUME note # 0
             PROVE  \/ \E i \in 1..Len(signalled') : signalled'[i] = Query(note)
                    \/ \E i \in 1..Len(ending') : ending'[i] = Query(note)
                    \/ \E i \in 1..Len(markers') : ~IsStop(markers'[i])
  BY <1>1 DEF LastNotificationIsKept, Query
<1>2. CASE StopSeen
  <2>1. /\ ending = << >> /\ markers # << >> /\ IsStop(Head(markers))
        /\ markers' = Tail(markers) /\ signalled' = signalled
    BY <1>2 DEF StopSeen, IsStop
  <2>2. /\ Head(markers) = markers[1] /\ Len(markers) \in Nat
        /\ Len(markers') = Len(markers) - 1
        /\ \A i \in 1..Len(markers') : markers'[i] = markers[i + 1]
    BY <2>1, MarkersMoveUp DEF TypeOK
  <2>3. ASSUME NEW i \in 1..Len(markers), ~IsStop(markers[i])
        PROVE  \E j \in 1..Len(markers') : ~IsStop(markers'[j])
    <3>1. i # 1
      BY <2>1, <2>2, <2>3
    <3>2. i - 1 \in 1..Len(markers') /\ markers'[i - 1] = markers[i]
      BY <2>2, <3>1
    <3> QED BY <2>3, <3>2
  <2> QED BY <2>1, <2>3 DEF LastNotificationIsKept
<1>3. CASE NotifySeen
  <2>1. ending' = <<Query(note)>>
    BY <1>3 DEF NotifySeen
  <2>2. 1 \in 1..Len(ending') /\ ending'[1] = Query(note)
    BY <2>1
  <2> QED BY <2>2
<1>4. CASE EmitMarker
  <2>1. /\ ending # << >> /\ ending' = Tail(ending) /\ markers' = markers
        /\ signalled' = Append(signalled, Head(ending))
    BY <1>4 DEF EmitMarker
  <2>2. /\ Head(ending) = ending[1] /\ Len(ending) \in Nat /\ Len(ending) > 0
        /\ Len(ending') = Len(ending) - 1
        /\ \A i \in 1..Len(ending') : ending'[i] = ending[i + 1]
    BY <2>1, MarkersMoveUp DEF TypeOK
  <2>3. /\ Len(signalled) \in Nat /\ Len(signalled') = Len(signalled) + 1
        /\ \A i \in 1..Len(signalled) : signalled'[i] = signalled[i]
        /\ signalled'[Len(signalled) + 1] = ending[1]
    BY <2>1, <2>2 DEF TypeOK
  <2>4. ASSUME NEW i \in 1..Len(signalled), signalled[i] = Query(note)
        PROVE  \E j \in 1..Len(signalled') : signalled'[j] = Query(note)
    BY <2>3, <2>4
  <2>5. ASSUME NEW i \in 1..Len(ending), ending[i] = Query(note)
        PROVE  \/ \E j \in 1..Len(signalled') : signalled'[j] = Query(note)
               \/ \E j \in 1..Len(ending') : ending'[j] = Query(note)
    <3>1. CASE i = 1
      BY <2>3, <2>5, <3>1
    <3>2. CASE i # 1
      <4>1. i - 1 \in 1..Len(ending') /\ ending'[i - 1] = ending[i]
        BY <2>2, <3>2
      <4> QED BY <2>5, <4>1
    <3> QED BY <3>1, <3>2
  <2> QED BY <2>1, <2>4, <2>5 DEF LastNotificationIsKept
<1> QED BY <1>2, <1>3, <1>4 DEF MarkerStep

(* However the writes of both markers and the loop's reads interleave, the   *)
(* newest notification is asked or will be looked at.                        *)
THEOREM LastNotificationIsKeptCorrect == Spec => []LastNotificationIsKept
<1>1. Init => LastNotificationIsKept
  BY DEF Init, LastNotificationIsKept
<1>2. TailInv /\ LastNotificationIsKept /\ [Next]_vars => LastNotificationIsKept'
  <2> SUFFICES ASSUME TailInv, LastNotificationIsKept, [Next]_vars
               PROVE  LastNotificationIsKept'
    OBVIOUS
  <2>1. CASE WriteStopMarker \/ WriteNotifyMarker
    BY <2>1, AgentKeepsNotification DEF TailInv
  <2>2. CASE MarkerStep
    BY <2>2, LoopKeepsNotification DEF TailInv
  <2>3. CASE UNCHANGED <<note, signalled, ending, markers>>
    BY <2>3 DEF LastNotificationIsKept, Query
  <2> QED
    BY <2>1, <2>2, <2>3 DEF Next, AgentStep, WriteLine, WriteLongLine, BeginLine, CompleteLine,
       Write, ChangeSession, TailStep, NothingToOpen, OpenNewest, Tick, ScanLine, ScanTornLine,
       ScanTooLong, ScanRest, ScanEnds, EmitBlock, Rescan, GoesQuiet, vars, hookVars, markerVars
<1> QED BY <1>1, <1>2, TailInvCorrect, PTL DEF Spec
=============================================================================
