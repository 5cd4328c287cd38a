CONSTANTS
    ldn = ldn
    game = game
    NoProc = NoProc
    Proc = {ldn, game}
    Ldn = {ldn}
    Sock = {1, 2}
    NoSock = 0
    MaxBound = 1
    Exits = {}
    WatchdogOn = FALSE
    MaxCount = 2
    MaxGen = 2
SPECIFICATION Spec
INVARIANTS
    SendsUseOpenSocket
