CONSTANTS
  p1 = p1  p2 = p2  p3 = p3  d1 = d1  d2 = d2
  e1 = e1  e2 = e2  a1 = a1  a2 = a2  a3 = a3  a4 = a4
  Prompts = {p1}  Redirects = {d1}  Endpoints = {e1}  Sig = sig
  Replies = {a1,a2}  NoReply = noReply  ReplyOf <- PromptAndRedirect  NoTurn = noTurn
  Malformed = {}
  ChanCap = 1  MaxChunks = 0  MaxInterrupts = 0
  RepeatingAdapter = FALSE  ClosingAdapter = TRUE  MayShutdown = FALSE
  MaxRequests = 2  MaxDisturbances = 1
SPECIFICATION FairSpec
\* The requests run out and the shim may be shut down: it may stop.
CHECK_DEADLOCK FALSE
PROPERTIES SlotSpec EveryTurnEnds EveryStreamTerminated ErrorThenTerminator
