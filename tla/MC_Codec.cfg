CONSTANT Inputs <- PassInputs
INIT Init
NEXT Next
INVARIANTS TypeOK EncodeWithinBuffer WireFormat AttrRoundTrip CatalogRoundTrip
CHECK_DEADLOCK FALSE
