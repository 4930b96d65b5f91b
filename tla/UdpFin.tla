------------------------------- MODULE UdpFin -------------------------------
(***************************************************************************)
(* The end of a UDP test over a network that loses, delays, repeats and    *)
(* reorders datagrams.  The client (FinishTrafficActions and               *)
(* AwaitServerFinPacket, src/Client.cpp) sends a datagram with a negative  *)
(* number, resends with the next number when nothing comes back, and gives *)
(* up after a while.  The server thread (RunUDP, src/Server.cpp) leaves    *)
(* its loop on a negative number, or by itself: on its own -t timer, a     *)
(* fatal read or an interrupt.  Either way it sends an AckFIN with its     *)
(* statistics until the client is silent (write_UDP_AckFIN,                *)
(* src/Reports.c).  A datagram that finds no server thread goes to the     *)
(* Listener, which starts one (udp_accept, src/Listener.cpp).              *)
(***************************************************************************)
EXTENDS Integers

CONSTANTS
    NumData,     \* bound: datagrams of traffic
    Retries,     \* RETRYCOUNT of the client
    Tries,       \* TRYCOUNT - 1, the AckFINs write_UDP_AckFIN may send
    MaxThreads   \* bound: server threads started for the flow

ASSUME FinAssumption ==
    /\ NumData \in Nat
    /\ Retries \in Nat \ {0}
    /\ Tries \in Nat \ {0}
    /\ MaxThreads \in Nat \ {0}

\* What may come back to the client: the acknowledgement a 2.0.13 server sent
\* at the start, or an AckFIN, whose buffer holds the statistics or something
\* else.  `ended' is history: what ended the loop of the thread that sent it.
HdrAck == [holds |-> "hdrack", ended |-> "none"]
AckFin == [holds : {"stats", "datagram"}, ended : {"fin", "stop"}]
Ack == {HdrAck} \cup AckFin
NoRelay == [holds |-> "none", ended |-> "none"]

VARIABLES
    toServer,   \* numbers of the datagrams on their way to the server's port
    toClient,   \* what is on its way to the client
    cpc,        \* the client: "send", "await", "done"
    clientID,   \* reportstruct->packetID of the client
    count,      \* rounds left in AwaitServerFinPacket
    relay,      \* the payload the client took for the server's report
    spc,        \* the server thread: "none", "loop", "endjob", "send",
                \* "select", "close"
    tries,      \* rounds left in write_UDP_AckFIN
    buffer,     \* what ackPacket holds
    ended,      \* history: the thread's loop was ended by a datagram with a negative
                \* number ("fin"), by itself ("stop"), or not yet ("none")
    threads     \* history: server threads started

clientVars == <<cpc, clientID, count, relay>>
serverVars == <<spc, tries, buffer, ended, threads>>
finVars == <<toServer, toClient, clientVars, serverVars>>

FinInit ==
    /\ toServer = {}
    /\ toClient \in {{}, {HdrAck}}
    /\ cpc = "send"
    /\ clientID = 1
    /\ count = 0
    /\ relay = NoRelay
    /\ spc = "none"
    /\ tries = 0
    /\ buffer = "stats"
    /\ ended = "none"
    /\ threads = 0

-----------------------------------------------------------------------------
(* The client.                                                             *)

\* One datagram of RunUDP.
SendData ==
    /\ cpc = "send"
    /\ clientID <= NumData
    /\ toServer' = toServer \cup {clientID}
    /\ clientID' = clientID + 1
    /\ UNCHANGED <<toClient, cpc, count, relay, serverVars>>

\* The test is over: FinishTrafficActions, with EndJob, up to the wait.
SendFin ==
    /\ cpc = "send"
    /\ toServer' = toServer \cup {-clientID}
    /\ count' = Retries
    /\ cpc' = "await"
    /\ UNCHANGED <<toClient, clientID, relay, serverVars>>

\* Fault: a resent datagram starts the rounds anew.
ResendFinRenew ==
    /\ cpc = "await" /\ count > 0
    /\ count' = Retries
    /\ toServer' = toServer \cup {-clientID}
    /\ UNCHANGED <<toClient, cpc, clientID, relay, serverVars>>

\* Fault: one round too many.
ResendFinOnce ==
    /\ cpc = "await" /\ count >= 0
    /\ count' = count - 1
    /\ clientID' = clientID + 1
    /\ toServer' = toServer \cup {-clientID'}
    /\ UNCHANGED <<toClient, cpc, relay, serverVars>>

\* select timed out: resend with the next number.
ResendFin ==
    /\ cpc = "await" /\ count > 0
    /\ count' = count - 1
    /\ clientID' = clientID + 1
    /\ toServer' = toServer \cup {-clientID'}
    /\ UNCHANGED <<toClient, cpc, relay, serverVars>>

\* The socket is readable.  A stale acknowledgement is dropped; a read that
\* fails counts as a round.
ClientDump ==
    /\ cpc = "await" /\ count > 0
    /\ \/ HdrAck \in toClient /\ toClient' = toClient \ {HdrAck}
       \/ UNCHANGED toClient
    /\ count' = count - 1
    /\ UNCHANGED <<toServer, cpc, clientID, relay, serverVars>>

\* Anything else is the server's report (InitServerRelayUDPReport).
ClientRead(m) ==
    /\ cpc = "await" /\ count > 0
    /\ m \in toClient
    /\ relay' = m
    /\ cpc' = "done"
    /\ toClient' \in {toClient, toClient \ {m}}
    /\ UNCHANGED <<toServer, clientID, count, serverVars>>

\* warn_no_ack.
ClientGiveUp ==
    /\ cpc = "await" /\ count = 0
    /\ cpc' = "done"
    /\ UNCHANGED <<toServer, toClient, clientID, count, relay, serverVars>>

Client ==
    \/ SendData
    \/ SendFin
    \/ ResendFin
    \/ ClientDump
    \/ \E m \in AckFin : ClientRead(m)
    \/ ClientGiveUp

-----------------------------------------------------------------------------
(* The server.                                                             *)

\* A datagram arrives; the network may keep a copy of it.
Arrives(m) == m \in toServer /\ toServer' \in {toServer, toServer \ {m}}

\* udp_accept: no thread has this flow, so a new one gets the datagram.  In
\* InitTrafficLoop it counts it and leaves the result of ReadPacketID aside.
Accept(m) ==
    /\ spc = "none"
    /\ threads < MaxThreads
    /\ Arrives(m)
    /\ threads' = threads + 1
    /\ spc' = "loop"
    /\ ended' = "none"
    /\ UNCHANGED <<toClient, clientVars, tries, buffer>>

\* Fault: any datagram ends the loop.
ReadDatagramAny(m) ==
    /\ spc = "loop"
    /\ Arrives(m)
    /\ spc' = "endjob"
    /\ ended' = "fin"
    /\ UNCHANGED <<toClient, clientVars, tries, buffer, threads>>

\* The loop of RunUDP: ReadPacketID says whether this was the last one.
ReadDatagram(m) ==
    /\ spc = "loop"
    /\ Arrives(m)
    /\ IF m < 0 THEN spc' = "endjob" /\ ended' = "fin" ELSE UNCHANGED <<spc, ended>>
    /\ UNCHANGED <<toClient, clientVars, tries, buffer, threads>>

\* The loop ends by itself: the -t timer of the server, a fatal read (peerclose)
\* or an interrupt (InProgress).
StopLoop ==
    /\ spc = "loop"
    /\ spc' = "endjob"
    /\ ended' = "stop"
    /\ UNCHANGED <<toServer, toClient, clientVars, tries, buffer, threads>>

\* EndJob is through; write_UDP_AckFIN fills its packet.
PrepareAck ==
    /\ spc = "endjob"
    /\ buffer' = "stats"
    /\ tries' = Tries
    /\ spc' = "send"
    /\ UNCHANGED <<toServer, toClient, clientVars, ended, threads>>

SendAck ==
    /\ spc = "send" /\ tries > 0
    /\ toClient' = toClient \cup {[holds |-> buffer, ended |-> ended]}
    /\ spc' = "select"
    /\ UNCHANGED <<toServer, clientVars, tries, buffer, ended, threads>>

\* No datagram for 250 ms.
Silence ==
    /\ spc = "select"
    /\ spc' = "close"
    /\ UNCHANGED <<toServer, toClient, clientVars, tries, buffer, ended, threads>>

\* Fault: as many AckFINs as the client asks for.
ReadAgainEver(m) ==
    /\ spc = "select"
    /\ Arrives(m)
    /\ buffer' = "datagram"
    /\ spc' = "send"
    /\ UNCHANGED <<toClient, clientVars, tries, ended, threads>>

\* A datagram comes in and is read into the packet that holds the statistics.
ReadAgain(m) ==
    /\ spc = "select"
    /\ Arrives(m)
    /\ buffer' = "datagram"
    /\ tries' = tries - 1
    /\ spc' = "send"
    /\ UNCHANGED <<toClient, clientVars, ended, threads>>

\* The read fails: fatally, or (ECONNREFUSED) with one more try.
ReadFails ==
    /\ spc = "select"
    /\ tries' = tries - 1
    /\ spc' \in {"send", "close"}
    /\ UNCHANGED <<toServer, toClient, clientVars, buffer, ended, threads>>

\* warn_ack_failed.
AckGiveUp ==
    /\ spc = "send" /\ tries = 0
    /\ spc' = "close"
    /\ UNCHANGED <<toServer, toClient, clientVars, tries, buffer, ended, threads>>

\* Close the socket and leave the table of active hosts.
Close ==
    /\ spc = "close"
    /\ spc' = "none"
    /\ UNCHANGED <<toServer, toClient, clientVars, tries, buffer, ended, threads>>

\* The steps the thread takes by itself, and those a datagram makes it take.
ServerAlone == PrepareAck \/ SendAck \/ Silence \/ ReadFails \/ AckGiveUp \/ Close
ServerReads(m) == Accept(m) \/ ReadDatagram(m) \/ ReadAgain(m)

Datagram == -(NumData + 1 + Retries) .. NumData

FinOver == cpc = "done" /\ UNCHANGED finVars

FinNext == Client \/ ServerAlone \/ StopLoop \/ (\E m \in Datagram : ServerReads(m)) \/ FinOver

\* Both sides run and their selects time out; nothing is said about delivery, nor
\* that a server's loop ends by itself.
FinSpec ==
    /\ FinInit
    /\ [][FinNext]_finVars
    /\ WF_finVars(Client)
    /\ WF_finVars(ServerAlone \/ \E m \in Datagram : ReadAgain(m))

-----------------------------------------------------------------------------
(* Properties.                                                             *)

FinTypeOK ==
    /\ toServer \subseteq Datagram
    /\ toClient \subseteq Ack
    /\ cpc \in {"send", "await", "done"}
    /\ clientID \in 1 .. NumData + 1 + Retries
    /\ count \in 0 .. Retries
    /\ relay \in {NoRelay} \cup AckFin
    /\ spc \in {"none", "loop", "endjob", "send", "select", "close"}
    /\ tries \in 0 .. Tries
    /\ buffer \in {"stats", "datagram"}
    /\ ended \in {"none", "fin", "stop"}
    /\ threads \in 0 .. MaxThreads

\* No datagram ends a flow that is still sending, whatever old datagrams the
\* network still delivers: while the client sends traffic, only a thread that left
\* its loop by itself, on its timer, a fatal read or an interrupt, is past it, and
\* only such threads have sent an AckFIN.  (Their AckFINs wait in the client's
\* socket, and the client later takes one for the report of the whole test.)
AckAfterFin ==
    cpc = "send" =>
        /\ \A m \in toClient : m.ended # "fin"
        /\ ended # "fin"

\* The final handshake only ends what is over.
HandshakeRight == FinTypeOK /\ AckAfterFin

\* The client gets through the final handshake, acknowledged or not.
ClientStops == <>(cpc = "done")

\* A server thread that ended its traffic gets through write_UDP_AckFIN, however
\* many datagrams keep coming in.
ServerStops == (spc = "endjob") ~> (spc = "none")

\* The final handshake ends on both sides, whatever the network loses or repeats.
HandshakeEnds == ClientStops /\ ServerStops

\* "so re-transmit our AckFIN": what the client takes for the server's report
\* is the server's report.
RelayIsReport == relay.holds # "datagram"
=============================================================================
