CONSTANTS
    Absent = Absent
    Blank = Blank
    NoRelay = NoRelay
    north = north
    south = south
    west = west
    Host = {north, south, west}
    Confs <- SomeConfs
    MaxServers = 2
    SysBytes = 60
    OverlayBytes = 45
    DefaultPort = 11451
    Default <- TheDefault
    FsFails = TRUE
    MaxEdits = 2
    MaxBoots = 1
SPECIFICATION Spec
INVARIANTS
    TypeOK
    SelectedInRange
    SelectionSurvives
    RelayIsTheChosenOne
    OverlayShowsTheTruth
