SPECIFICATION Spec
CONSTANTS
    Widths = {1, 2, 3}
    BinaryOperators <- MCUnsignedOperators
    Comparisons <- MCUnsignedComparisons
    MaxRegisters = 4
INVARIANTS
    RunAdmitted
    RunDetermined
CHECK_DEADLOCK FALSE
