SPECIFICATION Spec
CONSTANTS
    Pumps <- MCPumps
    NozzlesOf <- MCNozzles
    Users <- MCUsers
    Requests <- MCRequests
    Headers <- MCHeaders
    Amounts <- MCAmounts
    LateTypes <- MCLateTypes
    MaxRows = 2
    MaxCmds = 1
INVARIANTS
    TypeOK
    OwnVolume
    ToldAsBooked
    ClosedInJournal
