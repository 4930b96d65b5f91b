------------------------ MODULE MCFullDuplexBarrier -------------------------
\* TLC instances of FullDuplexBarrier, on the client side and the server side.
EXTENDS FullDuplexBarrier
=============================================================================
