CONSTANT Programs <- PassPrograms
CONSTANT MaxSteps <- MC_MaxSteps
SPECIFICATION Spec
INVARIANTS TypeOK WellFormedCFG RunsAsSpecified TypedAsSpecified NoUndefinedBehaviour
PROPERTY Returns
CHECK_DEADLOCK FALSE
