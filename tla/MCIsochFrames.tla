---------------------------- MODULE MCIsochFrames ----------------------------
(***************************************************************************)
(* IsochFrames for TLC: frames of one and two datagrams, a histogram of    *)
(* two bins, and latencies below it, in it and right behind it.            *)
(***************************************************************************)
EXTENDS IsochFrames

MCSizes == {1, 2}
MCLatencies == {-1, 1, 2}
=============================================================================
