SPECIFICATION Spec
CONSTANTS
    x = x
    y = y
    z = z
    c = c
    d = d
    f = f
    Name <- MCTwoNames
    ConstraintName = {c, d}
    Formula <- MCFormula
    Type = {"int", "bool"}
    MaxPromises = 3
SYMMETRY MCSymmetry
INVARIANTS
    TypeOK
    BinderIdsDistinct
    KvarsWellFormed
    WellFoundedEnvironments
PROPERTIES
    NothingRewritten
    UnsettledForEver
CHECK_DEADLOCK FALSE
