-------------------------- MODULE MCTransferReport --------------------------
\* TLC instances of TransferReport: enough packets to go round the ring more
\* than twice, so that the final packet meets it empty, full and overrun.
EXTENDS TransferReport
=============================================================================
