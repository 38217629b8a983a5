--------------------------- MODULE MCChainWatch ---------------------------
\* A small instance of ChainWatch.
EXTENDS ChainWatch

CONSTANTS alert

OneAlert == {alert}
=============================================================================
