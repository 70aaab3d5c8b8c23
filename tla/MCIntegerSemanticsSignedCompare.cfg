SPECIFICATION Spec
CONSTANTS
    Widths = {3}
    BinaryOperators <- MCNone
    Comparisons <- MCSignedComparisons
    MaxRegisters = 3
INVARIANTS
    RunAdmitted
CHECK_DEADLOCK FALSE
