---------------------- MODULE MCFixpointConstraintBuilder ----------------------
\* Two or three names of binders and one or two of constraints, one formula: a
\* promise, a binder and a constraint that mentions both, in every order.
EXTENDS FixpointConstraintBuilder, TLC

CONSTANTS x, y, z, c, d, f

MCTwoNames == {x, y}

MCThreeNames == {x, y, z}

MCFormula == {f}

\* The names differ only in what is done with them.
MCSymmetry == Permutations(Name) \cup Permutations(ConstraintName)
================================================================================
