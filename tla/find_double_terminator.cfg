CONSTANTS
  p1 = p1  p2 = p2  p3 = p3  d1 = d1  d2 = d2
  e1 = e1  e2 = e2  a1 = a1  a2 = a2  a3 = a3  a4 = a4
  Prompts = {p1}  Redirects = {}  Endpoints = {e1}  Sig = sig
  Replies = {a1}  NoReply = noReply  ReplyOf <- OneReply  NoTurn = noTurn
  Malformed = {}
  ChanCap = 1  MaxChunks = 1  MaxInterrupts = 1
  RepeatingAdapter = FALSE  ClosingAdapter = FALSE  MayShutdown = FALSE
  MaxRequests = 1  MaxDisturbances = 2
SPECIFICATION Spec
\* The requests run out and the shim may be shut down: it may stop.
CHECK_DEADLOCK FALSE
INVARIANT PumpOrWatchdogTerminates
