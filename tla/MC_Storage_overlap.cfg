\* A scan of t while table ta holds a row.
CONSTANTS
    Attrs <- MC_Attrs
    Programs <- OverlapPrograms
    Sites <- MC_Sites
    MaxOutputs = 8
SPECIFICATION Spec
INVARIANT ScanSound
\* The generated function returns and the run stops.
CHECK_DEADLOCK FALSE
