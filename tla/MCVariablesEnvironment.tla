------------------------ MODULE MCVariablesEnvironment ------------------------
\* Four blocks, b1 the entry: a join of two branches, a join of a branch with
\* its head, and a one-block loop.
EXTENDS VariablesEnvironment

CONSTANTS b1, b2, b3, b4, i, m, x, q, r

MCBlock == {b1, b2, b3, b4}

Graph(s1, s2, s3, s4) ==
    [b \in MCBlock |-> CASE b = b1 -> s1 [] b = b2 -> s2 [] b = b3 -> s3 [] b = b4 -> s4]

Diamond == Graph(<<b2, b3>>, <<b4>>, <<b4>>, << >>)

Triangle == Graph(<<b2, b3>>, <<b3>>, << >>, << >>)

Loop == Graph(<<b2>>, <<b2, b3>>, << >>, << >>)

\* A loop through two blocks.
LongLoop == Graph(<<b2>>, <<b3, b4>>, <<b2>>, << >>)

\* Joins and the loop with a mutable variable, then with phi nodes; returns.
MCPrograms ==
    ({Diamond, Triangle, Loop} \X {{i, m}})
        \cup ({Triangle, Loop} \X {{i, q, x}})
        \cup ({Loop, LongLoop} \X {{i, r}})

MCLoop == {<<Loop, Variable>>}

MCTypeOf == [v \in Variable |-> IF v = i THEN "bool" ELSE "int"]

MCIntegers == [v \in Variable |-> "int"]
================================================================================
