--------------------------- MODULE MCCheckerPipeline ---------------------------
\* Modules of three functions, each defined or declared, with or without
\* refinements, well or badly formed; they may call each other and themselves.
EXTENDS CheckerPipeline

CONSTANTS f, g, h

MCFunction == {f, g, h}
================================================================================
