SPECIFICATION Spec
CONSTANTS
  Agents = {"claude-code"}
  Files = {f1}
  NoFile = NoFile
  MaxLines = 2
  BlocksIn <- MCBlocksIn
  MaxStops = 0
  MaxNotes = 0
  MaxEvents = 3
  LongLines = {}
  MaxRotations = 0
INVARIANT TornLinesEmitted
