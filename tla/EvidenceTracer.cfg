\* Scenarios of three statements, with loops, branches and both ways to record.
CONSTANTS
  Sources <- MCSources
  Locals <- MCLocals
  Helpers <- MCHelpers
  Imports <- MCImports
  Quiet = {"_rows_ok"}
  Language = {"branch", "append", "sum", "check"}
  MaxDepth = 8
  MaxStatements = 3
SPECIFICATION Spec
INVARIANT
  TracerCorrect
\* A scenario is finished.
CHECK_DEADLOCK FALSE
