CONSTANTS
    NoPeer = NoPeer
    station = station
    visitor = visitor
    host = host
    Console = {station, visitor, host}
    Host = {host}
    Joiner = {station, visitor}
    MaxVTcpConns = 2
    MaxPendingAccepts = 1
    VTcpInboxCap = 2
    MaxAttempts = 1
    MaxDataRetransmits = 1
    RealFd = {1}
    SynthBase = 1000
    SeqMod = 16
    ISN = {14, 2, 6, 10}
    MaxStream = 0
    Writer = {}
    SendSizes = {1}
    ReadSizes = {1}
    Lossy = FALSE
    Aborter = {}
    ControlLast = TRUE
    Exits = {}
SPECIFICATION Spec
INVARIANTS
    HandshakeAgreement
    OneConnPerPeer
    SyntheticNeverForwarded
SYMMETRY JoinerSymmetry
