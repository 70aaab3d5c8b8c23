SPECIFICATION Spec
CONSTANTS
    f = f
    g = g
    h = h
    Function <- MCFunction
    NoFunction = NoFunction
INVARIANTS
    TypeOK
    SignaturesComplete
    SignaturesOnce
    AcceptedMeansProved
PROPERTIES
    ImplementsVerdict
    Decides
CHECK_DEADLOCK FALSE
