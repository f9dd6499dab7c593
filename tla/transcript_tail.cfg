SPECIFICATION FairSpec
CONSTANTS
  Agents = {"gemini", "pi"}
  Files = {f1, f2}
  NoFile = NoFile
  MaxLines = 3
  BlocksIn <- MCBlocksIn
  MaxStops = 2
  MaxNotes = 2
  MaxEvents = 4
  LongLines = {2}
  MaxRotations = 2
INVARIANT WholeLinesEmitted
INVARIANT BlocksOnceInOrder
INVARIANT TurnEndsInOrder
PROPERTY CatchesUpWithNewest
PROPERTY EveryStopMarkerTerminates
PROPERTY LastNotificationIsAsked
