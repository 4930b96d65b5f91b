----------------------------- MODULE PacketFifo -----------------------------
(***************************************************************************)
(* What a traffic thread and the reporter thread may expect of the packet  *)
(* ring that joins them (include/packet_ring.h): packets, numbered 1, 2,   *)
(* 3, ... in the order the traffic thread records them, reach the reporter *)
(* in that order, each exactly once, and at most Capacity of them are in   *)
(* transit.  The one escape the code has is explicit: when the fifo is     *)
(* full it may break, and once broken it promises nothing.                 *)
(***************************************************************************)
EXTENDS Integers

CONSTANT Capacity   \* packets recorded and not yet read by the reporter

VARIABLES put,      \* number of the last packet recorded
          got,      \* number of the last packet the reporter read
          broken    \* the fifo was overrun

fifoVars == <<put, got, broken>>

Init == put = 0 /\ got = 0 /\ broken = FALSE

Put ==
    /\ ~broken
    /\ put - got < Capacity
    /\ put' = put + 1
    /\ UNCHANGED <<got, broken>>

Get ==
    /\ ~broken
    /\ got < put
    /\ got' = got + 1
    /\ UNCHANGED <<put, broken>>

\* Breaking takes a full fifo: all of it in transit, or all but the packet
\* the reporter is looking at.
Break ==
    /\ ~broken
    /\ put - got >= Capacity - 1
    /\ broken' = TRUE
    /\ UNCHANGED <<put, got>>

Chaos == broken /\ broken' = TRUE

Next == Put \/ Get \/ Break \/ Chaos

Spec == Init /\ [][Next]_fifoVars
=============================================================================
