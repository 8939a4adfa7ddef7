\* Every statement form and operator, and texts the grammar rejects.
CONSTANTS
    Programs <- PassPrograms
    Texts <- Rejected
SPECIFICATION Spec
INVARIANTS TypeOK ParsesAsSpecified
\* parse() stops at the end of the tokens or at a throw.
CHECK_DEADLOCK FALSE
