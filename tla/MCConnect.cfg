SPECIFICATION Spec
CONSTANTS
  N = 3
  Waiting = 3
  Systems <- MCSystems
INVARIANT ThreadsMeet
PROPERTY AllUp
