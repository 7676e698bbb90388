CONSTANTS
    p1 = p1
    p2 = p2
    fiscal1 = fiscal1
    Pumps = {p1, p2}
    FiscalLines = {fiscal1}
    Orders = {7}
    Waiting = 0
    MaxSwitches = 2
SYMMETRY Symmetry
SPECIFICATION Spec
INVARIANTS
    TypeOK
    PlayedAsOrdered
    JournalKnowsPlayed
    DoneIsTotalled
    PlayingIsAwake
PROPERTIES
    StagesInOrder
CHECK_DEADLOCK FALSE
