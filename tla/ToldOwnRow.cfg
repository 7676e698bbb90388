SPECIFICATION Spec
CONSTANTS
    Pumps = {p1, p2}
    FiscalLines = {f1}
    Volumes <- MCVolumes
    RequestedVolumes <- MCRequestedVolumes
    MaxRows = 2
    MaxTotals = 1
INVARIANT ToldOwnRow
CHECK_DEADLOCK FALSE
