--------------------------- MODULE MCIntegerSemantics ---------------------------
\* Registers of one to three bits, two arguments and up to two instructions.
EXTENDS IntegerSemantics

\* Additions that wrap or may not, operations whose unsigned overflow is ruled
\* out, and all comparisons of unsigned numbers.
MCUnsignedOperators == {<<"add", {}>>} \cup {"add", "sub", "mul"} \X {{"nuw"}}
MCUnsignedComparisons == {"unsigned"} \X Predicates

MCSignedComparisons == {<<"signed", "lt">>}
MCNone == {}
================================================================================
