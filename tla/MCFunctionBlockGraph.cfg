SPECIFICATION Spec
CONSTANTS
    b1 = b1
    b2 = b2
    b3 = b3
    Entry = b1
    Block <- MCBlock
    Graphs <- MCGraphs
INVARIANTS
    PreviousBlocksExact
    AllSuccessorsExact
    IInv
PROPERTY
    CallsReturn
