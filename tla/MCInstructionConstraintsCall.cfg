SPECIFICATION Spec
CONSTANTS
    b1 = b1
    b2 = b2
    b3 = b3
    b4 = b4
    b5 = b5
    Entry = b1
    Block <- MCBlock
    Variable <- Names
    Functions <- MCFunctions
    Parameters = {1}
    CalleeParameters = {0, 1}
    Numbers = {1}
    MaxRegisters = 3
INVARIANTS
    CallsCaptured
CHECK_DEADLOCK FALSE
