\* A streamed exec with both deadlines, the transcript of the direct lane, an
\* external run with every exception, three commands of a batch, and two rollouts
\* that prepare their homes, with one token issued besides the two there are.
CONSTANTS
  MaxLines <- MCMaxLines
  MaxTurns <- MCMaxTurns
  MaxAttempts <- MCMaxAttempts
  MaxCalls <- MCMaxCalls
  Scores <- MCScores
  NoScore = NoScore
  MaxEdits <- MCMaxEdits
  NTasks <- MCNTasks
  NameEnds <- MCNameEnds
  MaxCommands <- MCMaxCommands
  r1 = r1
  r2 = r2
  Rollouts <- MCRollouts
  Nobody = Nobody
  Platforms <- MCPlatforms
  Life = 2
  Skew = 1
  MaxTime = 1
  MaxTokens = 3
SPECIFICATION MCSpec
INVARIANTS
  StreamCorrect
  LoopCorrect
  RunCorrect
  BatchCorrect
  HomeCorrect
PROPERTIES
  ImplementsCall
  ImplementsTurns
  AgentsEnd
\* A call, a rollout and a run end; commands are bounded, and so are tokens and time.
CHECK_DEADLOCK FALSE
