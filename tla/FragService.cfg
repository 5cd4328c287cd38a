CONSTANTS
    Nothing = Nothing
    a = a
    b = b
    e = e
    dispatch = dispatch
    Source = {a, b, e}
    Thread = {dispatch}
    RelayMtu = 1400
    Chunk = 1384
    OutBytes = 1428
    PopBytes = 2088
    SlotBytes = 5600
    NumSlots = 2
    MaxDist = 10
    QueueSize = 2
    IdMod = 65536
    FirstId <- AtWrap
    Lens = {1428}
    MaxSends = 1
    Lossy = FALSE
    Dup = TRUE
    Closes = TRUE
    Restarts = {}
SPECIFICATION Spec
PROPERTIES
    IsDatagramService
SYMMETRY SourceSymmetry
