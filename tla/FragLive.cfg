CONSTANTS
    Nothing = Nothing
    a = a
    b = b
    dispatch = dispatch
    Source = {a, b}
    Thread = {dispatch}
    RelayMtu = 1400
    Chunk = 1384
    OutBytes = 1428
    PopBytes = 2088
    SlotBytes = 5600
    NumSlots = 4
    MaxDist = 10
    QueueSize = 4
    IdMod = 65536
    FirstId <- FarApart
    Lens = {1428}
    MaxSends = 2
    Lossy = FALSE
    Dup = FALSE
    Closes = FALSE
    Restarts = {}
SPECIFICATION FairSpec
PROPERTIES
    EveryPacketArrives
CHECK_DEADLOCK FALSE
