\* A CLI killed at the end of its budget is not recorded as truncated.
CONSTANTS
  Scores <- MCScores
  NoScore = NoScore
  Lanes <- MCLanes
  MaxTurns = 2
SPECIFICATION MCSpec
INVARIANT
  CutByBudgetIsTruncated

\* An attempt ends: returned or aborted.
CHECK_DEADLOCK FALSE
