SPECIFICATION Spec
CONSTANTS
    Columns <- MCColumns
    Addr <- OtherAddr
    Users = {"pos"}
    Validity = 0
    MaxReports = 2
    MaxCmds = 2
    MaxWire = 2
INVARIANT OwnStatus
CHECK_DEADLOCK FALSE
