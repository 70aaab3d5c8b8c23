----------------------------- MODULE MCBlockGuards -----------------------------
\* Control flow graphs of four blocks whose only cycles are one-block loops,
\* numbered so that jumps lead to blocks with a higher number or stay: the
\* part of such a graph that the entry reaches can always be numbered so.  The
\* order of a terminator's targets and their repetition play no part in the
\* guards.
EXTENDS BlockGuards

CONSTANTS b1, b2, b3, b4

MCBlock == {b1, b2, b3, b4}

MCTargets == {<< >>, <<b2>>, <<b3>>, <<b4>>, <<b2, b3>>, <<b2, b4>>, <<b3, b4>>}

MCGraphs ==
    {g \in [MCBlock -> MCTargets] :
        /\ b2 \notin Successors(g, b3) \cup Successors(g, b4)
        /\ b3 \notin Successors(g, b4)}

--------------------------------------------------------------------------------
\* The graph of the loop in VariableEnvLib_LoopExample.cpp: b1 is "entry",
\* b2 "if.condition", b3 "for.body" and b4 "if.end".
LoopExample ==
    {[b \in MCBlock |-> CASE b = b1 -> <<b2>>
                          [] b = b2 -> <<b3, b4>>
                          [] b = b3 -> <<b2>>
                          [] b = b4 -> << >>]}
================================================================================
