CONSTANTS
    Nothing = Nothing
    a = a
    dispatch = dispatch
    drain = drain
    Source = {a}
    Thread = {dispatch, drain}
    RelayMtu = 1400
    Chunk = 1384
    OutBytes = 1428
    PopBytes = 2088
    SlotBytes = 5600
    NumSlots = 2
    MaxDist = 10
    QueueSize = 2
    IdMod = 65536
    FirstId <- AtWrap
    Lens = {1400, 1428, 2076, 5700}
    MaxSends = 2
    Lossy = TRUE
    Dup = FALSE
    Closes = TRUE
    Restarts = {a}
SPECIFICATION Spec
INVARIANTS
    OneSlotPerGroup
    TypeOK
PROPERTIES
    IsDatagramService
