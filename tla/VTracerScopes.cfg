\* Two helpers that use the same names for other things.
CONSTANTS
  Sources <- MCSources
  Locals <- MCLocals
  Helpers <- MCCapturing
  Imports <- MCDescribe
  Quiet = {}
  Language = {}
  MaxDepth = 8
  MaxStatements = 2
SPECIFICATION Spec
INVARIANT
  LimitsSuppress
\* A scenario is finished.
CHECK_DEADLOCK FALSE
