SPECIFICATION Spec
CONSTANTS
    Columns <- MCColumns
    Addr <- SameAddr
    Users = {"pos"}
    Validity = 0
    MaxReports = 2
    MaxCmds = 2
    MaxWire = 2
INVARIANT OwnTotals
CHECK_DEADLOCK FALSE
