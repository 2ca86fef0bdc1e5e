SPECIFICATION Spec
CONSTANTS
  N = 2
  a = a
  b = b
  Clients = {a, b}
  Id <- MCId
  Dataset <- MCDataset
  Alloc = 4
INVARIANT TuplesAgree
CHECK_DEADLOCK FALSE
