SPECIFICATION Spec
CONSTANTS
    b1 = b1
    b2 = b2
    b3 = b3
    b4 = b4
    Entry = b1
    Block <- MCBlock
    Graphs <- MCGraphs
    StackLimit = 5
INVARIANTS
    TypeOK
    NoReentrance
    GuardsExact
    GuardsInScope
PROPERTY
    Completes
CHECK_DEADLOCK FALSE
