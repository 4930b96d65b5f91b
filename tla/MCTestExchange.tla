--------------------------- MODULE MCTestExchange ---------------------------
(***************************************************************************)
(* TestExchange for TLC: command lines of up to four options, -c among     *)
(* them, in every order.  The sizes are the real ones, but for mAmount,    *)
(* which has 12 bits in the header.                                        *)
(***************************************************************************)
EXTENDS TestExchange

Opt(name, arg) == [name |-> name, arg |-> arg]

MCOptions ==
    {Opt("client", 0), Opt("udp", 0), Opt("dualtest", 0), Opt("tradeoff", 0),
     Opt("reverse", 0), Opt("full_duplex", 0), Opt("trip_times", 0), Opt("isochronous", 0),
     Opt("burst_period", 2), Opt("peer_detect", 0), Opt("bandwidth", 2000000),
     Opt("num", 300), Opt("time", 1500), Opt("compat", 0), Opt("txstart_time", 10),
     Opt("client", 1), Opt("no_udp_fin", 0), Opt("len", 100), Opt("packetrate", 10),
     Opt("connect_only", 0), Opt("near_congestion", 0), Opt("permit_key", 51),
     Opt("num", 3000), Opt("time", 0), Opt("burst_size", 200000)}

MCListenerCmds == {<<Opt("server", 0)>>, <<Opt("server", 0), Opt("compat", 0)>>,
                   <<Opt("server", 0), Opt("permit_key", 51)>>,
                   <<Opt("server", 0), Opt("burst_size", 150000)>>}

\* A server with a key, and clients with its key, another one and none.
KeyOptions == {Opt("client", 0), Opt("permit_key", 51), Opt("permit_key", 52), Opt("nodelay", 0)}
KeyListener == {<<Opt("server", 0), Opt("permit_key", 51)>>}
=============================================================================
