CONSTANTS
    Crc16 <- UnipumpCrc
    CrcAdast <- AdastCrc
    CrcShelf <- ShelfCrc
    Protocols = {"Unipump", "Adast", "Shelf"}
    Pumps = {1, 2}
    Addr <- MCAddr
    Orders <- MCOrders
    Portion = 6170
    FirstTxn <- MCFirstTxn
    MaxPortions = 1
    MaxSales <- MCMaxSales
    MaxWire = 1
    MaxNumbered = 3
    SpoiltBytes <- MCSpoilt
SPECIFICATION Spec
INVARIANTS
    TypeOK
    OrderUnderstood
    ReportsTrue
    ShelfEndsCompared
    ClosesWhatWasRead
PROPERTIES
    EndReadBeforeClosed
CHECK_DEADLOCK FALSE
