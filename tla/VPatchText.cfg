\* The repository has a file with CRLF line ends or of no text.
CONSTANTS
  text = text
  other = other
  list = list
  crlf = crlf
  blob = blob
  altered = altered
  Plain <- PlainContents
  Odd <- OddContents
  Blob <- BlobContents
  Altered = altered
  Listing = list
  FileNames = {"src", "out"}
  Ignorable = {"out"}
  MaxSteps = 3
  lock = lock
  built = built
  before = before
  after = after
  Images <- ImagesMC
  Locked = lock
  Contents <- ContentsMC
  Files = {"task.yaml", "output/log"}
  Skipped = {"output/log"}
  Checkouts = {"src/tasks", "output/tasks"}
  Hidden = {"output/tasks"}
  MaxAttempts = 2
  MaxChanges = 2
SPECIFICATION MCSpec
INVARIANT
  ExtractedPatchApplies
\* A graded patch is the end.
CHECK_DEADLOCK FALSE
