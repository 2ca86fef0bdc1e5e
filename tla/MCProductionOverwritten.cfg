SPECIFICATION Spec
CONSTANTS
  Pr = 7
  MaxCombinations = 3
  Amortize = 2
  BatchSize = 3
  Receiver = 2
  Coin = 3
  Macs = 2
  Structures <- MCOverwritten
  Jobs <- MCOverwrittenJobs
  Draws <- MCDraws
INVARIANT ValidShareForAll
