--------------------------- MODULE MCMcpdListener ---------------------------
EXTENDS McpdListener

CONSTANTS c1, c2
=============================================================================
