CONSTANT Inputs <- PassInputs
INIT Init
NEXT Next
INVARIANTS TypeOK TokensAsSpecified
CHECK_DEADLOCK FALSE
