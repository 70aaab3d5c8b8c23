----------------------- MODULE MCInstructionConstraints -----------------------
\* Functions of up to five blocks: a triangle, a one-block loop, two returns, a
\* branch with one target, and two in which a join may come before a block that
\* another dominates.
EXTENDS InstructionConstraints

CONSTANTS b1, b2, b3, b4, b5

MCBlock == {b1, b2, b3, b4, b5}

Graph(s1, s2, s3, s4) ==
    [b \in MCBlock |->
        CASE b = b1 -> s1 [] b = b2 -> s2 [] b = b3 -> s3 [] b = b4 -> s4 [] b = b5 -> << >>]

Triangle == Graph(<<b2, b3>>, <<b3>>, << >>, << >>)

Loop == Graph(<<b2>>, <<b2, b3>>, << >>, << >>)

Fork == Graph(<<b2, b3>>, << >>, << >>, << >>)

Twice == Graph(<<b2, b2>>, << >>, << >>, << >>)

\* b4 joins the entry and b3, which b2 dominates.
Late == Graph(<<b2, b4>>, <<b3>>, <<b4>>, << >>)

\* And b5 joins b2 and b3.
LateTwice == Graph(<<b2, b4>>, <<b3, b5>>, <<b4, b5>>, << >>)

MCFunctions ==
    {<<Triangle, 3>>, <<Loop, 3>>, <<Fork, 2>>, <<Twice, 0>>, <<Late, 2>>, <<LateTwice, 1>>}
================================================================================
