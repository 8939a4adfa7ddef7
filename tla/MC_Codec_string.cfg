CONSTANT Inputs <- StringInputs
INIT Init
NEXT Next
INVARIANT EncodeWithinBuffer
CHECK_DEADLOCK FALSE
