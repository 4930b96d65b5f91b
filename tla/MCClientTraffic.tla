-------------------------- MODULE MCClientTraffic ---------------------------
(***************************************************************************)
(* ClientTraffic for TLC.  A header is two bytes, so that it can be cut; a *)
(* write has three, a burst four, and the connection holds four, so that   *)
(* writes and reads get cut everywhere; two things go wrong in every test, *)
(* three in two of UDP.                                                    *)
(***************************************************************************)
EXTENDS ClientTraffic

Base == [loop |-> "tcp", burst |-> "none", amount |-> -1, duplex |-> FALSE,
         oneReport |-> FALSE, reverse |-> FALSE, events |-> 2]

Tcp == {[Base EXCEPT !.oneReport = TRUE],
        [Base EXCEPT !.amount = 5, !.duplex = TRUE],
        [Base EXCEPT !.amount = 7, !.reverse = TRUE, !.burst = "trip"],
        [Base EXCEPT !.burst = "trip"],
        [Base EXCEPT !.burst = "periodic"],
        [Base EXCEPT !.burst = "periodic", !.reverse = TRUE],
        [Base EXCEPT !.burst = "isoch", !.amount = 5]}

Near == {[Base EXCEPT !.loop = "near", !.burst = "trip"],
         [Base EXCEPT !.loop = "near", !.amount = 4]}

Rate == {[Base EXCEPT !.loop = "rate", !.burst = "trip"],
         [Base EXCEPT !.loop = "rate", !.amount = 4, !.oneReport = TRUE],
         [Base EXCEPT !.loop = "rate", !.amount = 4, !.burst = "trip"]}

Udp == {[Base EXCEPT !.loop = "udp", !.events = 3],
        [Base EXCEPT !.loop = "udp", !.amount = 7],
        [Base EXCEPT !.loop = "udpisoch", !.events = 3],
        [Base EXCEPT !.loop = "udpisoch", !.amount = 7]}

MCSetups == Tcp \cup Near \cup Rate \cup Udp

\* A client whose report does not add up: near congestion with one report.
NearOneReport == {[Base EXCEPT !.loop = "near", !.oneReport = TRUE, !.events = 0]}
=============================================================================
