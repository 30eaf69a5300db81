\* A task that has no sidecar yet.
CONSTANTS
  Names <- MCNames
  Manifests <- MCManifests
  Recordable <- MCRecordable
  MaxChecks = 3
  Outcomes <- MCOutcomes
  InitialSidecars <- MCSidecars
  Policies <- MCPolicies
  Runs <- MCRuns
  MaxAttempts <- MCMaxAttempts
  MaxRounds <- MCMaxRounds
SPECIFICATION MCSpec
INVARIANT
  AbortMeansInfrastructure
\* A validation ends.
CHECK_DEADLOCK FALSE
