CONSTANTS
  p1 = p1  p2 = p2  p3 = p3  d1 = d1  d2 = d2
  e1 = e1  e2 = e2  a1 = a1  a2 = a2  a3 = a3  a4 = a4
  MaxRequests = 2  MaxDisturbances = 1
  Prompts = {p1,p2,p3}  Redirects = {d1,d2}  Endpoints = {e1,e2}  Sig = sig
  Replies = {a1,a2,a3,a4}  NoReply = noReply  ReplyOf <- MixedReplies  NoTurn = noTurn
  Malformed = {d2}
  ChanCap = 1  MaxChunks = 1  MaxInterrupts = 1
  RepeatingAdapter = TRUE  ClosingAdapter = FALSE  MayShutdown = TRUE
SPECIFICATION Spec
\* The requests run out and the shim may be shut down: it may stop.
CHECK_DEADLOCK FALSE
CONSTRAINT Explored
SYMMETRY Symmetric
INVARIANTS SlotAgrees BusySlotHasOwner ContextFollowsSlot OneTerminatorPerCloser
           RejectedStreamsAreClean AckBeforeOwnWork NoStreamIsForgotten
PROPERTIES NoStaleRelease LiveOutputFindsItsStream
