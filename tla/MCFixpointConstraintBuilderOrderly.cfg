SPECIFICATION OrderlySpec
CONSTANTS
    x = x
    y = y
    z = z
    c = c
    d = d
    f = f
    Name <- MCThreeNames
    ConstraintName = {c}
    Formula <- MCFormula
    Type = {"int"}
    MaxPromises = 3
SYMMETRY MCSymmetry
INVARIANTS
    EnvironmentsLive
    QueryClosed
PROPERTY
    ImplementsRegistry
CHECK_DEADLOCK FALSE
