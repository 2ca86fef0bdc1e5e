\* Two factories and one thread that takes.
CONSTANTS
    triples = triples
    squares = squares
    NPlayers = 2
    NFactories = 2
    Takers <- MCOneTaker
    Items <- MCTwoItems
    Steps <- MCOneStep
    U = 2
    LimitSize = 10
    Stages <- FullRound
    BatchBound = 1
SPECIFICATION Spec
INVARIANT MacsBeforeUse
PROPERTY AllClose
