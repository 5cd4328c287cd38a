CONSTANTS
    ldn = ldn
    racer = racer
    l1 = l1
    r1 = r1
    r2 = r2
    NoPid = NoPid
    NoPort = NoPort
    Idle = Idle
    Game = {racer}
    LdnMitm = {ldn}
    System = {}
    Session = {l1, r1, r2}
    Owner <- OwnerOf
    MaxEntries = 1
    Hasty = {}
    Ports <- PortsOf
    LdnControlPort = 11452
    RealEvents = {"err"}
    ControlQueueSize = 2
    MaxPackets = 3
    Exits = {racer}
SPECIFICATION Spec
INVARIANTS
    TypeOK
    TableIsExact
    DummyNeverIntercepted
    WorkIsIntercepted
    PollInIsHonest
    DataIsReported
PROPERTIES
    IsPortChannels
