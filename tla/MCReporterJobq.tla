--------------------------- MODULE MCReporterJobq ---------------------------
\* TLC instances of ReporterJobq: two traffic threads started together, the
\* first of which starts a third one when it is finished (-r).
EXTENDS ReporterJobq

CONSTANTS t1, t2, t3, none

Chain == [t \in Thread |-> IF t = t1 THEN t3 ELSE none]
=============================================================================
