\* Every run of at most three checks, in every bucket, under four gold manifests; the
\* gauntlet, twice, with probes that flake, fail and cannot be graded.
CONSTANTS
  Names <- MCNames
  Manifests <- MCManifests
  Recordable <- MCRecordable
  MaxChecks = 3
  Outcomes <- MCOutcomes
  InitialSidecars <- MCSidecars
  Policies <- MCPolicies
  Runs <- MCRuns
  MaxAttempts <- MCMaxAttempts
  MaxRounds <- MCMaxRounds
SPECIFICATION MCSpec
INVARIANTS
  TypeOK
  LabelsDoNotScore
  MandatoryFailureBlocks
  GauntletCorrect
PROPERTIES
  SilenceIsFailure
  RepeatsScoreOnce
  ImplementsBoard
  WrittenIsReproduced
\* A run ends when it is scored, and a validation ends.
CHECK_DEADLOCK FALSE
