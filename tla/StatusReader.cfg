SPECIFICATION Spec
CONSTANTS
    Pumps <- MCPumps
    Users = {"pos1", "pos2"}
    Validity = 1
    MaxReports = 3
INVARIANTS TypeOK FreshReply OfflineExplained TotalsOnce
PROPERTY TotalsWait
CHECK_DEADLOCK FALSE
