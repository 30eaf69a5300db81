\* A host fault during the grade of a cut-off rollout becomes a candidate score.
CONSTANTS
  Scores <- MCScores
  NoScore = NoScore
  Lanes <- MCLanes
  MaxTurns = 2
SPECIFICATION MCSpec
INVARIANT
  InfrastructureFaultUnpaid

\* An attempt ends: returned or aborted.
CHECK_DEADLOCK FALSE
