\* An attempt in every lane: its safety, the outcome it implements, and its end; and
\* a standalone grade, with and without --keep.
CONSTANTS
  Scores <- MCScores
  NoScore = NoScore
  Lanes <- MCLanes
  MaxTurns = 2
SPECIFICATION MCSpec
INVARIANTS
  TypeOK
  GradingCorrect
  LeakNeverCredited
  ResultIsOnDisk
  ProviderFailureUnpaid
  GradeIsIsolated
  EvidenceHasNoCredentials
  SettledManifestCurrent
  BudgetIsNoResult
PROPERTIES
  CreditOnlyShrinks
  ImplementsOutcome
  FollowsTurns
  AttemptEnds
\* An attempt ends, returned or aborted, and so does a grade.
CHECK_DEADLOCK FALSE
