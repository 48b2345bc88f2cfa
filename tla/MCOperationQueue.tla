--------------------------- MODULE MCOperationQueue ---------------------------
EXTENDS OperationQueue, TLC
=============================================================================
