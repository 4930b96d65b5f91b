-------------------------- MODULE MCUdpAccounting ---------------------------
\* UdpAccounting for model checking: the cfg files give the bounds.
EXTENDS UdpAccounting
=============================================================================
