SPECIFICATION OrderlySpec
CONSTANTS
    b1 = b1
    b2 = b2
    b3 = b3
    b4 = b4
    i = i
    m = m
    x = x
    q = q
    r = r
    Entry = b1
    Block <- MCBlock
    Programs <- MCPrograms
    Variable = {i, m, r, q, x}
    Inputs = {i}
    Outputs = {r}
    Mutables = {m}
    Immutables = {q}
    Phis = {x}
    Refined = {m, r}
    TypeOf <- MCTypeOf
    MaxWriters = 3
INVARIANTS
    TypeOK
    ScopeIsDefiniteAssignment
    InputsVisibleEverywhere
    EveryPathFlows
    NothingSkipped
    RefinementsChecked
    QueryClosed
PROPERTY
    FinishedBlocksFrozen
CHECK_DEADLOCK FALSE
