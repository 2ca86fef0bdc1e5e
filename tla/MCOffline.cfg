\* Two players and one online thread that uses triples and inputs; offline
\* phases that stop when their maxima are exceeded.
CONSTANTS
    Kinds <- MCTriples
    NPlayers = 2
    NOnline = 1
    rep = 1
    fake_sacrifice = FALSE
    sz_offline_batch <- MCBatch
    sz_IO_batch = 1
    sz_sacrifice <- MCSacrificeSize
    bit_gap = 1
    max_offline <- MCMaxOffline
    max_sacrifice <- MCMaxSacrifice
    max_IO_sacrifice = 1
    min <- MCNone
    max <- MCOne
    maxI = 1
    Code <- MCCodeTriples
    SocketBuffer = 1
SPECIFICATION Spec
INVARIANTS TypeOK PlayersAgree AgreedIsReady ExitForCause NoneLeftBehind QueuesBounded
PROPERTIES AllEnd
