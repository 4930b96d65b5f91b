--------------------------- MODULE MCIntervalSum ----------------------------
(***************************************************************************)
(* Two threads, an interval of two ticks.                                  *)
(***************************************************************************)
EXTENDS IntervalSum

CONSTANTS t1, t2

AllSame(m) == [t \in Threads |-> m]
Basic == [mode |-> AllSame("client"), udp |-> FALSE, csv |-> FALSE, sumOnly |-> FALSE,
          enhanced |-> TRUE, fullDuplex |-> FALSE, modeTime |-> TRUE, group |-> TRUE]

\* TCP and UDP, clients and servers, CSV, sum only, -n, and a full duplex
\* pair with and without a group.
MCSetups ==
    {Basic,
     [Basic EXCEPT !.udp = TRUE, !.csv = TRUE],
     [Basic EXCEPT !.mode = AllSame("server")],
     [Basic EXCEPT !.mode = AllSame("server"), !.udp = TRUE],
     [Basic EXCEPT !.sumOnly = TRUE, !.modeTime = FALSE],
     [Basic EXCEPT !.mode = [t \in Threads |-> IF t = t1 THEN "client" ELSE "server"],
                   !.fullDuplex = TRUE, !.group = FALSE],
     [Basic EXCEPT !.mode = [t \in Threads |-> IF t = t1 THEN "client" ELSE "server"],
                   !.fullDuplex = TRUE, !.enhanced = FALSE]}
====
