CONSTANTS
  NumReadings = 2
  Nominal = 2
  MaxMembers = 3
  MaxTime = 3
  MaxLines = 1
  MaxJumps = 1
  MaxCrashes = 1
  Noise = TRUE
SPECIFICATION Spec
INVARIANT NewestSecondServed
PROPERTY AnswersConverge
