\* Storage statements compiled and run against the key-value store: the
\* tables t and u, two inserts, sequential or nested scans.
CONSTANTS
    Attrs <- MC_Attrs
    Programs <- PassPrograms
    Sites <- MC_Sites
    MaxOutputs = 8
SPECIFICATION Spec
INVARIANTS
    TypeOK
    ScanSound
    ScanExact
    KeyFitsBuffer
    TxnBracket
PROPERTIES
    Termination
    TableSpec
\* The generated function returns and the run stops.
CHECK_DEADLOCK FALSE
