CONSTANT Programs <- BreakPrograms
CONSTANT MaxSteps <- MC_MaxSteps
SPECIFICATION Spec
INVARIANT WellFormedCFG
CHECK_DEADLOCK FALSE
