SPECIFICATION Spec
CONSTANTS
  Watchers = {w1, w2}
  Closers = {c1}
  ChanCap = 2
  MaxChunks = 3
INVARIANT NeverSendsOnClosed
CHECK_DEADLOCK FALSE
