SPECIFICATION Spec
CONSTANTS
  Pr = 7
  LimbBits = 4
  Threads = {0, 1}
  Tapes <- MCTapes
  Inputs = {0, 3}
  Digest <- MCDigest
  Random = 5
INVARIANT TablesAgree
PROPERTIES VectorIsElementwise OpensWhatStarted
CHECK_DEADLOCK FALSE
