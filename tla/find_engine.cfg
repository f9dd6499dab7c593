SPECIFICATION Spec
CONSTANTS
  Shims = {s1}
  Commands <- AllCommands
  Agents <- MCAgents
  Values <- MCValues
  Names <- MCNames
  LegalSlugs <- MCLegalSlugs
  NoValue = NoValue
  NoName = NoName
\* A shim that failed or runs takes no further step here.
CHECK_DEADLOCK FALSE
INVARIANT PromptsReachTheSurface
