\* A participant of four steps; two attempts and two changes of the machine.
CONSTANTS
  text = text
  other = other
  list = list
  crlf = crlf
  blob = blob
  altered = altered
  Plain <- PlainContents
  Odd <- OddContents
  Blob <- BlobContents
  Altered = altered
  Listing = list
  FileNames = {"src", "out"}
  Ignorable = {"out"}
  MaxSteps = 4
  lock = lock
  built = built
  before = before
  after = after
  Images <- ImagesMC
  Locked = lock
  Contents <- ContentsMC
  Files = {"task.yaml", "output/log"}
  Skipped = {"output/log"}
  Checkouts = {"src/tasks", "output/tasks"}
  Hidden = {"output/tasks"}
  MaxAttempts = 2
  MaxChanges = 2
SYMMETRY SymmetryMC
SPECIFICATION MCSpec
INVARIANTS
  WorkspaceCorrect
  ProvenanceCorrect
PROPERTY
  MissingIsMissing
\* A graded patch is the end, and after the last attempt the machine is left alone.
CHECK_DEADLOCK FALSE
