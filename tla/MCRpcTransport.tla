--------------------------- MODULE MCRpcTransport ---------------------------
EXTENDS RpcTransport

CONSTANTS r1, r2
=============================================================================
