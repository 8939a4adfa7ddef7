CONSTANT Programs <- AndPrograms
CONSTANT MaxSteps <- MC_MaxSteps
SPECIFICATION Spec
INVARIANT TypedAsSpecified
CHECK_DEADLOCK FALSE
