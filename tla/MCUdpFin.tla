------------------------------ MODULE MCUdpFin ------------------------------
\* UdpFin for model checking: the cfg files give the bounds.
EXTENDS UdpFin
=============================================================================
