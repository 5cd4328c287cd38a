CONSTANTS
    ldn = ldn
    game = game
    NoProc = NoProc
    Proc = {ldn, game}
    Ldn = {ldn}
    Sock = {1, 2}
    NoSock = 0
    MaxBound = 2
    Exits = {ldn, game}
    WatchdogOn = TRUE
    MaxCount = 2
    MaxGen = 2
SPECIFICATION Spec
INVARIANTS
    TypeOK
    PumpHasItsSocket
    OffMeansOff
