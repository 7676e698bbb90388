SPECIFICATION FairSpec
CONSTANTS
    Columns <- MCColumns
    Addr <- SameAddr
    Users = {"pos"}
    Validity = 0
    MaxReports = 1
    MaxCmds = 2
    MaxWire = 1
PROPERTIES CmdsTaken ColumnsPolled
CHECK_DEADLOCK FALSE
