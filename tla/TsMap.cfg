SPECIFICATION Spec
CONSTANTS
    Threads <- MCThreads
    Keys <- MCKeys
    Calls <- MCCalls
INVARIANTS
    TypeOK
    NoLostUpdate
PROPERTIES
    LocksGranted
    WriterEnters
