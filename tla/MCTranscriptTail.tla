-------------------------- MODULE MCTranscriptTail --------------------------
(* The instances of TranscriptTail that TLC checks. *)
EXTENDS TranscriptTail

(* A line with two blocks, one above 8 MB (in transcript_tail), and one    *)
(* with a block.                                                           *)
MCBlocksIn == [line \in 1..MaxLines |-> <<2, 0, 1>>[line]]
=============================================================================
