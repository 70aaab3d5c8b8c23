-------------------------- MODULE MCFunctionBlockGraph --------------------------
\* Every control flow graph of three blocks whose terminators have at most two
\* targets, repeated targets and unreachable blocks included.
EXTENDS FunctionBlockGraph

CONSTANTS b1, b2, b3

MCBlock == {b1, b2, b3}

MCGraphs == [MCBlock -> Terminators]
================================================================================
