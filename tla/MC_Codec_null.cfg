CONSTANT Inputs <- NullInputs
INIT Init
NEXT Next
INVARIANT AttrRoundTrip
CHECK_DEADLOCK FALSE
