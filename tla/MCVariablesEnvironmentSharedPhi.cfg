SPECIFICATION Spec
CONSTANTS
    b1 = b1
    b2 = b2
    b3 = b3
    b4 = b4
    i = i
    m = m
    x = x
    q = q
    r = r
    Entry = b1
    Block <- MCBlock
    Programs <- MCLoop
    Variable = {q, x, m}
    Inputs = {}
    Outputs = {}
    Mutables = {}
    Immutables = {q}
    Phis = {x, m}
    Refined = {}
    TypeOf <- MCIntegers
    MaxWriters = 3
INVARIANTS
    QueryClosed
CHECK_DEADLOCK FALSE
