SPECIFICATION FairSpec
CONSTANTS
  busy = busy
  ask = ask
  askScrolled = askScrolled
  confirm = confirm
  log = log
  bottom = bottom
  yesNo = yesNo
  NoScreen = NoScreen
  Screens <- MCScreens
  TailOf <- MCTailOf
  HasPrompt <- MCHasPrompt
  Threshold = 2
  MaxChanges = 4
INVARIANT OneQueryPerWindow
INVARIANT QueriesFollowStableCaptures
PROPERTY RestingPromptIsReported
