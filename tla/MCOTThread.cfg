SPECIFICATION Spec
CONSTANTS
  N = 3
  K = 3
  Reduction = 3
  Sizes <- MCSizes
  Buckets = 3
  Circuits <- MCCircuits
  Draws <- MCDraws
INVARIANTS BitsAuthentic AndsRight RunsThrough WiresRight
