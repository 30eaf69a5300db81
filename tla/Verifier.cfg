\* Up to four requests in five instants, in bursts and with pauses, under a limited
\* rate, and of every kind in one; six ticks of a token that lives for five or for
\* one, and five starts; three gradings, services that cannot be stopped.
CONSTANTS
  Window = 2
  K = 2
  Limit = 2
  Span = 2
  BodyParam = TRUE
  VersionHeader = FALSE
  Shapes <- MCShapes
  MaxLog = 4
  MaxTime = 4
  TTL = 5
  Short <- MCShort
  Margin = 3
  MaxTicks = 6
  MaxRuns = 5
  t1 = t1
  t2 = t2
  Tasks <- TasksMC
  Script <- ScriptMC
  Helpers = {"_util", "_family"}
  Knobs <- KnobsMC
  MaxGradings = 3
  MaxTries = 2
SPECIFICATION MCSpec
INVARIANTS
  ConductCorrect
  PacingCorrect
  ScenariosApart
PROPERTY
  GradingEnds
\* The logs, the clock and the starts are bounded, and so are the gradings.
CHECK_DEADLOCK FALSE
