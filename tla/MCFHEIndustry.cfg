\* Three players, one factory, two threads that take, batches of two.
CONSTANTS
    triples = triples
    squares = squares
    NPlayers = 3
    NFactories = 1
    Takers <- MCTakers
    Items <- MCItems
    Steps <- MCSteps
    U = 2
    LimitSize = 10
    Stages <- ShortRound
    BatchBound = 2
SPECIFICATION Spec
INVARIANTS TypeOK TakesWhatItWasTold BatchNotPassed ClosesWhenServed
