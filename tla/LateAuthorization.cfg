CONSTANTS
    p1 = p1
    p2 = p2
    fiscal1 = fiscal1
    Pumps = {p1}
    FiscalLines = {fiscal1}
    Orders = {0, 7}
    Waiting = 1
    MaxSwitches = 2
SPECIFICATION Spec
INVARIANT TimedOutIsIdle
CHECK_DEADLOCK FALSE
