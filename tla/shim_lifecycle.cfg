SPECIFICATION FairSpec
CONSTANTS
  Turns = {t1, t2}
  NoTurn = NoTurn
  Configs <- MCConfigs
  TuiWatchers = {tailer}
  EchoRoom = 1
INVARIANT NothingLeftBehind
INVARIANT ServingShimIsWhole
INVARIANT CloseComesLast
PROPERTY OnlyEarlyPromptsBind
PROPERTY Stops
PROPERTY PaneGoneStops
PROPERTY PromptsAreHandled
\* A shim that returned has nothing left to do.
CHECK_DEADLOCK FALSE
