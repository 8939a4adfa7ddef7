\* A statement followed by a stray '}'.
CONSTANTS
    Programs <- NoPrograms
    Texts <- StrayBrace
SPECIFICATION Spec
PROPERTY Terminates
CHECK_DEADLOCK FALSE
