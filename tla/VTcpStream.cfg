CONSTANTS
    NoPeer = NoPeer
    station = station
    host = host
    Console = {station, host}
    Host = {host}
    Joiner = {station}
    MaxVTcpConns = 2
    MaxPendingAccepts = 1
    VTcpInboxCap = 2
    MaxAttempts = 1
    MaxDataRetransmits = 1
    RealFd = {1}
    SynthBase = 1000
    SeqMod = 20
    ISN = {16, 2, 8}
    MaxStream = 3
    Writer = {station}
    SendSizes = {1, 2}
    ReadSizes = {1, 2}
    Lossy = FALSE
    Aborter = {host}
    ControlLast = FALSE
    Exits = {station, host}
SPECIFICATION Spec
INVARIANTS
    TypeOK
    StreamIntegrity
    AckedWasDelivered
    InboxBounded
    IInv
