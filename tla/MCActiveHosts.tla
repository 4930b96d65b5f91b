---------------------------- MODULE MCActiveHosts ---------------------------
\* TLC instances of ActiveHosts.
EXTENDS ActiveHosts
=============================================================================
