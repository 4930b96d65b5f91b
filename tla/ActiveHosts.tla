---------------------------- MODULE ActiveHosts -----------------------------
(***************************************************************************)
(* The table of active hosts (src/active_hosts.cpp) and the sum reports it *)
(* hands to server threads: the Listener enters a connection on accept,    *)
(* the server thread takes a reference when it initialises its data report *)
(* (src/Reports.c), the reporter drops it with the final packet and frees  *)
(* the sum report at zero (src/Reporter.c), and the server thread leaves   *)
(* the table at the very end (src/Server.cpp).  Every table operation runs *)
(* under the table's mutex and every count change under the sum report's   *)
(* own, so each is one step; a free runs under none, and is a step by      *)
(* itself after the count that decided on it.                              *)
(***************************************************************************)
EXTENDS Integers, FiniteSets

CONSTANTS
    Host, Port,      \* client addresses
    MaxConn,         \* bound: connections the Listener accepts
    UDP              \* isUDP: accept by datagram, keyed by host and port

ASSUME ActiveHostsAssumption ==
    /\ MaxConn \in Nat
    /\ UDP \in BOOLEAN

Conn == 1 .. MaxConn
Sum == 1 .. MaxConn          \* sum reports, numbered as they are allocated
None == 0

VARIABLES
    table,      \* entries by host: the port of the first flow, the thread
                \* count and the sum report; a host not in DOMAIN has none
    state,      \* of each connection
    host, port, \* its peer
    sum,        \* its mSumReport
    listener,   \* the connection between my_accept and thread_start, or None
    clients,    \* the clients the Listener started, on the socket of a server
    sums,       \* number of sum reports allocated so far
    ref,        \* reference.count of each sum report
    freed,      \* sum reports freed
    late        \* history: connections that took a reference to a sum report
                \* after the decision to free it

vars == <<table, state, host, port, sum, listener, clients, sums, ref, freed, late>>
peers == <<host, port, sum, clients, sums>>

Init ==
    /\ table = [h \in {} |-> None]
    /\ state = [c \in Conn |-> "none"]
    /\ host = [c \in Conn |-> None]
    /\ port = [c \in Conn |-> None]
    /\ sum = [c \in Conn |-> None]
    /\ listener = None
    /\ clients = {}
    /\ sums = 0
    /\ ref = [s \in Sum |-> 0]
    /\ freed = {}
    /\ late = {}

Without(h) == [g \in DOMAIN table \ {h} |-> table[g]]
With(h, e) == [g \in DOMAIN table \cup {h} |-> IF g = h THEN e ELSE table[g]]

Set(c, s) == state' = [state EXCEPT ![c] = s]

-----------------------------------------------------------------------------
(* The Listener.                                                           *)

\* Fault: a known host gets a sum report of its own.
ActiveTableUpdateFresh(c, h, p) ==
    /\ sums' = sums + 1
    /\ sum' = [sum EXCEPT ![c] = sums']
    /\ table' = With(h, [port |-> p, sum |-> sums',
                         count |-> IF h \in DOMAIN table THEN table[h].count + 1 ELSE 1])

\* active_table_update: a new host gets an entry with a new sum report, a known
\* one counts one thread more; the connection gets the entry's sum report.
ActiveTableUpdate(c, h, p) ==
    IF h \in DOMAIN table
    THEN /\ table' = [table EXCEPT ![h].count = @ + 1]
         /\ sum' = [sum EXCEPT ![c] = table[h].sum]
         /\ UNCHANGED sums
    ELSE /\ sums' = sums + 1
         /\ table' = With(h, [port |-> p, count |-> 1, sum |-> sums'])
         /\ sum' = [sum EXCEPT ![c] = sums']

\* Fault: the table is not asked.
HostPortUnknown(h, p) == FALSE

\* Iperf_host_port_present: the entry's address, port included, is the flow's.
HostPortPresent(h, p) == h \in DOMAIN table /\ table[h].port = p

\* Connections whose socket takes the flow's packets, so that they do not come
\* to the Listener.  A socket that client and server share stays open: with the
\* barrier as the server side sets it up neither of the two closes it.
SocketOpen ==
    {c \in Conn : state[c] \in {"accepted", "refused", "returned", "started", "reporting",
                                "final", "dropped", "ended"}}
    \cup {c \in clients : state[c] # "none"}

\* The next connection of the model.
Unused(c) == state[c] = "none" /\ \A d \in Conn : d < c => state[d] # "none"

\* A connection from port p of h enters the table.
Enter(c, h, p) ==
    /\ Unused(c)
    /\ ActiveTableUpdate(c, h, p)
    /\ host' = [host EXCEPT ![c] = h]
    /\ port' = [port EXCEPT ![c] = p]

\* my_accept: a TCP connection (Iperf_push_host), or the first datagram of a
\* UDP flow (udp_accept, Iperf_push_host_port_conditional).
Accept(c, h, p) ==
    /\ listener = None
    /\ \A d \in SocketOpen : <<host[d], port[d]>> # <<h, p>>
    /\ UDP => ~HostPortPresent(h, p)
    /\ Enter(c, h, p)
    /\ listener' = c
    /\ Set(c, "accepted")
    /\ UNCHANGED <<clients, ref, freed, late>>

\* Fault: the last thread of a host does not remove the entry.
RemoveHostKeep(c) ==
    table' = [table EXCEPT ![host[c]].count = @ - 1]

\* Fault: the first thread that ends takes the entry of its host along.
RemoveHostFirst(c) ==
    table' = Without(host[c])

\* Iperf_remove_host.
RemoveHost(c) ==
    LET h == host[c]
    IN  IF h \notin DOMAIN table THEN UNCHANGED table
        ELSE IF table[h].count = 1 THEN table' = Without(h)
        ELSE table' = [table EXCEPT ![h].count = @ - 1]

\* The three paths of Listener::Run that turn an accepted connection away: a
\* wrong peer, settings that cannot be read, an L2 setup that failed.  It leaves
\* the table,
Refuse(c) ==
    /\ state[c] = "accepted"
    /\ RemoveHost(c)
    /\ Set(c, "refused")
    /\ UNCHANGED <<peers, listener, ref, freed, late>>

\* gives back a reference (DecrSumReportRefCounter),
ReturnReference(c) ==
    /\ state[c] = "refused"
    /\ ref' = [ref EXCEPT ![sum[c]] = @ - 1]
    /\ IF ref'[sum[c]] <= 0
       THEN Set(c, "returned") /\ UNCHANGED listener
       ELSE Set(c, "rejected") /\ listener' = None
    /\ UNCHANGED <<peers, table, freed, late>>

\* and frees the sum report if that was the last one (FreeSumReport).
FreeRefused(c) ==
    /\ state[c] = "returned"
    /\ freed' = freed \cup {sum[c]}
    /\ listener' = None
    /\ Set(c, "rejected")
    /\ UNCHANGED <<peers, table, ref, late>>

\* thread_start_all(server).
StartServer(c) ==
    /\ state[c] = "accepted"
    /\ listener' = None
    /\ Set(c, "started")
    /\ UNCHANGED <<peers, table, ref, freed, late>>

\* The same for a full duplex test: the Listener enters the host once more, for
\* the client that sends back on the server's socket (server->runNow).
StartFullDuplex(c, d) ==
    /\ state[c] = "accepted"
    /\ Enter(d, host[c], port[c])
    /\ clients' = clients \cup {d}
    /\ listener' = None
    /\ state' = [state EXCEPT ![c] = "started", ![d] = "started"]
    /\ UNCHANGED <<ref, freed, late>>

-----------------------------------------------------------------------------
(* The traffic thread and the reporter on its behalf.                      *)

\* A sum report somebody has decided to free and not freed yet.
Doomed(s) == \E c \in Conn : sum[c] = s /\ state[c] \in {"dropped", "returned"}

\* InitIndividualReport: IncrSumReportRefCounter.
InitReport(c) ==
    /\ state[c] = "started"
    /\ ref' = [ref EXCEPT ![sum[c]] = @ + 1]
    /\ Set(c, "reporting")
    /\ late' = IF Doomed(sum[c]) THEN late \cup {c} ELSE late
    /\ UNCHANGED <<peers, table, listener, freed>>

\* EndJob: the final packet is in the ring.
EndJob(c) ==
    /\ state[c] = "reporting"
    /\ Set(c, "final")
    /\ UNCHANGED <<peers, table, listener, ref, freed, late>>

\* Fault: the sum report goes with the first thread that ends.
ReporterFinalFirst(c) ==
    /\ state[c] = "final"
    /\ ref' = [ref EXCEPT ![sum[c]] = @ - 1]
    /\ Set(c, "dropped")
    /\ UNCHANGED <<peers, table, listener, freed, late>>

\* Fault: a thread that ends while others run does not give its reference back.
ReporterFinalKeep(c) ==
    /\ state[c] = "final"
    /\ ref' = IF ref[sum[c]] = 1 THEN [ref EXCEPT ![sum[c]] = 0] ELSE ref
    /\ Set(c, IF ref'[sum[c]] = 0 THEN "dropped" ELSE "ended")
    /\ UNCHANGED <<peers, table, listener, freed, late>>

\* The reporter, which does one thing at a time, handles the final packet:
\* DecrSumReportRefCounter,
ReporterFinal(c) ==
    /\ state[c] = "final"
    /\ \A d \in Conn : state[d] # "dropped"
    /\ ref' = [ref EXCEPT ![sum[c]] = @ - 1]
    /\ Set(c, IF ref'[sum[c]] = 0 THEN "dropped" ELSE "ended")
    /\ UNCHANGED <<peers, table, listener, freed, late>>

\* then, at zero, the final sum and FreeSumReport, without a lock.
ReporterFree(c) ==
    /\ state[c] = "dropped"
    /\ freed' = freed \cup {sum[c]}
    /\ Set(c, "ended")
    /\ UNCHANGED <<peers, table, listener, ref, late>>

\* After EndJob (and, for UDP, the final handshake) the socket is closed ...
CloseSocket(c) ==
    /\ state[c] = "ended"
    /\ Set(c, "closed")
    /\ UNCHANGED <<peers, table, listener, ref, freed, late>>

\* ... and the thread leaves the table.
LeaveTable(c) ==
    /\ state[c] = "closed"
    /\ RemoveHost(c)
    /\ Set(c, "gone")
    /\ UNCHANGED <<peers, listener, ref, freed, late>>

AllGone == (\A c \in Conn : state[c] \in {"gone", "rejected"}) /\ UNCHANGED vars

ConnNext(c) ==
    \/ \E h \in Host, p \in Port : Accept(c, h, p)
    \/ Refuse(c)
    \/ ReturnReference(c)
    \/ FreeRefused(c)
    \/ StartServer(c)
    \/ \E d \in Conn : StartFullDuplex(c, d)
    \/ InitReport(c)
    \/ EndJob(c)
    \/ ReporterFinal(c)
    \/ ReporterFree(c)
    \/ CloseSocket(c)
    \/ LeaveTable(c)

Next == (\E c \in Conn : ConnNext(c)) \/ AllGone

Spec == Init /\ [][Next]_vars

-----------------------------------------------------------------------------
(* Properties.                                                             *)

\* Connections that are in the table: entered and not yet removed.
Entered == {c \in Conn : state[c] \notin {"none", "gone", "refused", "returned", "rejected"}}
OfHost(h) == {c \in Entered : host[c] = h}
Returned(s) == {c \in Conn : sum[c] = s /\ state[c] \in {"returned", "rejected"}}
Attached(s) == {c \in Conn : sum[c] = s /\ state[c] \in {"reporting", "final"}}

TypeOK ==
    /\ DOMAIN table \subseteq Host
    /\ \A h \in DOMAIN table :
          table[h] \in [port : Port, count : Conn, sum : Sum]
    /\ state \in [Conn -> {"none", "accepted", "refused", "returned", "rejected", "started",
                           "reporting", "final", "dropped", "ended", "closed", "gone"}]
    /\ host \in [Conn -> Host \cup {None}]
    /\ port \in [Conn -> Port \cup {None}]
    /\ sum \in [Conn -> Sum \cup {None}]
    /\ listener \in Conn \cup {None}
    /\ clients \subseteq Conn
    /\ sums \in 0 .. MaxConn
    /\ ref \in [Sum -> Int]
    /\ freed \subseteq Sum
    /\ late \subseteq Conn

\* The thread count of a host's entry is the number of connections entered for
\* it and not removed, on every path, a rejected connection and the client of a
\* full duplex test included; no entry outlives its threads and none is removed
\* under one.
TableCounts ==
    \A h \in Host :
        Cardinality(OfHost(h)) = IF h \in DOMAIN table THEN table[h].count ELSE 0

\* All connections of a host that are in the table sum into one report.
OneSumPerHost == \A h \in DOMAIN table : \A c \in OfHost(h) : sum[c] = table[h].sum

\* The reference count of a live sum report is the number of data reports that
\* sum into it, less one for every connection that was turned away: those give
\* back a reference they never took.
RefCounts ==
    \A s \in Sum \ freed : ref[s] = Cardinality(Attached(s)) - Cardinality(Returned(s))

\* A sum report is not freed under its data reports (FreeSumReport at reference
\* zero), but for as many as connections were turned away, and those that came
\* after the decision: the count is not looked at again before the free.
FreedWhenUnused ==
    [][\A s \in freed' \ freed :
          Cardinality(Attached(s) \ late) <= Cardinality(Returned(s))]_vars

\* "returns negative value if the host/port is already present": the flow whose
\* port the table has for the host, the first one, has one server thread, also
\* while that thread has closed its socket and is still in the table.  (Further
\* flows of the host are not told apart.)
OneServerPerEntry ==
    UDP => \A c, d \in Entered \ clients :
        /\ c # d
        /\ host[c] = host[d]
        /\ port[c] = port[d]
        => port[c] # table[host[c]].port

\* The table is right: the three parts above that speak of its entries.
TableRight == TypeOK /\ TableCounts /\ OneSumPerHost /\ OneServerPerEntry
=============================================================================
