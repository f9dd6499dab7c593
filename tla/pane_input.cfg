CONSTANTS
  p1 = p1  p2 = p2  d1 = d1  e1 = e1  e2 = e2
  Prompts = {p1,p2}  Redirects = {d1}  Endpoints = {e1,e2}  Sig = sig
  NoTurn = noTurn  Engines = {"tmux","cmux"}
  MaxInterrupts = 2
SPECIFICATION Spec
\* The requests run out: it may stop.
CHECK_DEADLOCK FALSE
SYMMETRY Symmetric
INVARIANTS LinesMixOnlyAfterACut AcceptedIsSubmittedOnce OneCtrlCPerTurn
