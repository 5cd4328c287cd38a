CONSTANTS
    NoPeer = NoPeer
    station = station
    host = host
    Console = {station, host}
    Host = {host}
    Joiner = {station}
    MaxVTcpConns = 1
    MaxPendingAccepts = 1
    VTcpInboxCap = 2
    MaxAttempts = 1
    MaxDataRetransmits = 1
    RealFd = {1}
    SynthBase = 1000
    SeqMod = 16
    ISN = {14, 2}
    MaxStream = 1
    Writer = {station}
    SendSizes = {1}
    ReadSizes = {1}
    Lossy = FALSE
    Aborter = {}
    ControlLast = TRUE
    Exits = {}
SPECIFICATION Spec
INVARIANTS
    EofIsComplete
