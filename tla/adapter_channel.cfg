SPECIFICATION FairSpec
CONSTANTS
  Watchers = {w1, w2}
  Closers = {c1, c2}
  ChanCap = 2
  MaxChunks = 3
INVARIANT NobodyParkedOnClosed
INVARIANT CloseIsDone
PROPERTY ChannelIsAQueue
PROPERTY CloseEndsWatchers
\* Closed, with every watcher gone, the adapter rests.
CHECK_DEADLOCK FALSE
