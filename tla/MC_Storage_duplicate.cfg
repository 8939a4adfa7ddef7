\* The same row inserted twice in one transaction.
CONSTANTS
    Attrs <- MC_Attrs
    Programs <- DuplicatePrograms
    Sites <- MC_Sites
    MaxOutputs = 8
SPECIFICATION Spec
INVARIANT NoSilentFailure
\* The generated function returns and the run stops.
CHECK_DEADLOCK FALSE
