--------------------------- MODULE MCThreadControl --------------------------
\* TLC instances of ThreadControl: an endless server, one with two ports, -P 1
\* and -t, one with -1, clients with -P 2 --reverse, full duplex and with
\* the Listener of -d.
EXTENDS ThreadControl

Server(ls, ts, p, one) ==
    [role |-> "server", listeners |-> ls, clients |-> {}, tests |-> ts,
     mThreads |-> p, sync |-> FALSE, dir |-> "basic", single |-> one,
     timer |-> Cardinality(ls) > 1, maxEvents |-> IF one \/ Cardinality(ls) > 1 THEN 1 ELSE 2]
Client(ls, p, d) ==
    [role |-> "client", listeners |-> ls, clients |-> 1 .. p,
     tests |-> Tests \ (1 .. p), mThreads |-> p, sync |-> p > 1, dir |-> d, single |-> FALSE,
     timer |-> FALSE, maxEvents |-> 2]

CommandLines ==
    {Server({1}, {1}, 0, FALSE), Server({1, 2}, {1}, 1, FALSE),
     Server({1}, {1, 2}, 0, TRUE),
     Client({}, 2, "reverse"),
     Client({}, 1, "fullduplex"), Client({1}, 1, "basic")}
=============================================================================
