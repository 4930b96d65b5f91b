---------------------------- MODULE ClientTraffic ---------------------------
(***************************************************************************)
(* The loops in which a client thread writes its traffic, RunTCP,          *)
(* RunNearCongestionTCP, RunRateLimitedTCP, RunUDP and RunUDPIsochronous   *)
(* (src/Client.cpp), with the end they share, FinishTrafficActions, and    *)
(* the loop in which a server thread reads a TCP stream, Server::RunTCP    *)
(* (src/Server.cpp).  The TCP stream is the number of bytes put in and     *)
(* taken out; the bursts in it are known by their place.  With trip times, *)
(* isochronous traffic and periodic bursts every burst begins with a       *)
(* header (TCP_burst_payload) and the reader has nothing but the sizes in  *)
(* these headers to find the next one.                                     *)
(*                                                                         *)
(* What the reporter makes of the packets is in UdpAccounting and          *)
(* IntervalSum; here `reported' adds up the bytes it is told of.  Tokens,  *)
(* delays and frame ticks only say when a write happens, which is any      *)
(* time here.                                                              *)
(***************************************************************************)
EXTENDS Integers, Sequences

CONSTANTS
    Hdr,        \* bytes of a burst header, sizeof(struct TCP_burst_payload)
    BufLen,     \* mBufLen, bytes of a write
    Burst,      \* mBurstSize, and the largest frame of an isochronous test
    UdpMin,     \* udp_payload_minimum
    SockBuf,    \* bytes the connection holds between the two sockets
    MaxBytes,   \* bound: with -t no write begins after so many bytes
    Setups      \* the tests, records of type Setup

\* The loop; what makes it write bursts; mAmount of -n (-1 for -t); full
\* duplex; one_report; the reader is the client host's (--reverse); a bound
\* for the errors, time-outs and signals.
Setup == [loop : {"tcp", "near", "rate", "udp", "udpisoch"},
          burst : {"none", "trip", "periodic", "isoch"}, amount : Nat \cup {-1},
          duplex : BOOLEAN, oneReport : BOOLEAN, reverse : BOOLEAN, events : Nat]

\* What the choice of the loop and of one_report leaves: datagrams carry no burst
\* headers, a rate limit writes them with trip times only, and one report is
\* enough for a TCP test without bursts.
Possible(s) ==
    /\ s.loop \in {"udp", "udpisoch"} => s.burst = "none"
    /\ s.loop = "rate" => s.burst \in {"none", "trip"}
    /\ s.oneReport => s.burst = "none" /\ s.loop \notin {"udp", "udpisoch"}

ASSUME TrafficAssumption ==
    /\ Hdr \in Nat \ {0} /\ UdpMin \in Nat \ {0} /\ SockBuf \in Nat \ {0}
    /\ BufLen \in Nat /\ Hdr <= BufLen /\ UdpMin <= BufLen
    /\ Burst \in Nat /\ BufLen <= Burst
    /\ MaxBytes \in Nat
    /\ Setups \subseteq Setup
    /\ \A s \in Setups : Possible(s)

VARIABLES
    setup,
    cpc,         \* the client: "start", "loop", "frame", "header", "body",
                 \* "finish", "await", "ended", "stopped"
    burstLeft,   \* burst_remaining, or bytecnt of a UDP frame
    part,        \* bytes written of the call of writen under way
    amount,      \* mAmount
    totLen,      \* totLen
    packetLen,   \* reportstruct->packetLen where a loop is left
    packetID,    \* reportstruct->packetID of the UDP loops
    fatalErr,    \* fatalwrite_err, or the loop was left for a fatal error
    over,        \* mEndTime has passed
    interrupted, \* sInterupted
    broken,      \* the connection or the network is gone for good
    written,     \* bytes put into the socket
    starts,      \* [at, size] of every burst: its first byte, what its header says
    torn,        \* a header was written in pieces that do not fit
    fin,         \* the client's side of the connection is closed
    sent,        \* the numbers of the datagrams written
    reported,    \* history: bytes the reporter was told of by the client
    spc,         \* the server: "loop", "recv", "closed"
    taken,       \* bytes read from the socket
    nleft,       \* burst_nleft
    currLen,     \* currLen
    serverTot,   \* totLen of the server
    counted,     \* history: bytes the reporter was told of by the server
    unread,      \* history: bytes of a header cut short at the end
    minus,       \* history: -1 was added to the bytes of a header
    misread,     \* history: a header was read where none was written
    events       \* history: errors, time-outs and signals so far

tcpVars == <<written, starts, torn, fin>>
loopVars == <<burstLeft, part, amount, totLen, packetLen, packetID, fatalErr>>
serverVars == <<spc, taken, nleft, currLen, serverTot, counted, unread, minus, misread>>
envVars == <<over, interrupted, broken>>
vars == <<setup, cpc, loopVars, envVars, tcpVars, sent, reported,
          serverVars, events>>

IsUdp == setup.loop \in {"udp", "udpisoch"}
IsBurst == setup.burst # "none"
ModeAmount == setup.amount # -1
Smaller(a, b) == IF a < b THEN a ELSE b

Room == SockBuf - (written - taken)
Avail == written - taken

\* One more error, time-out or signal.
Event == events < setup.events /\ events' = events + 1

Init ==
    /\ setup \in Setups
    /\ cpc = "start" /\ burstLeft = 0 /\ part = 0
    /\ amount = setup.amount
    /\ totLen = 0 /\ packetLen = 0 /\ packetID = 1
    /\ fatalErr = FALSE
    /\ over = FALSE /\ interrupted = FALSE /\ broken = FALSE
    /\ written = 0 /\ starts = {} /\ torn = FALSE /\ fin = FALSE
    /\ sent = <<>> /\ reported = 0
    /\ spc = "loop" /\ taken = 0 /\ nleft = 0 /\ currLen = 0 /\ serverTot = 0
    /\ counted = 0 /\ unread = 0 /\ minus = 0 /\ misread = FALSE
    /\ events = 0

-----------------------------------------------------------------------------
\* What the loops have in common.

\* InProgress: no signal, time or amount not used up (peerclose stays false
\* here: a write of some bytes never returns 0).
InProgress ==
    ~(interrupted \/ (~ModeAmount /\ over) \/ amount = 0)

\* The bound on the bytes of a timed test.
MayWrite == ModeAmount \/ written < MaxBytes

\* mAmount may be unsigned, so don't let it underflow
LessAmount(n) == IF ModeAmount THEN (IF amount >= n THEN amount - n ELSE 0) ELSE amount

\* Fault: the last write is not cut to the amount.
AmountLenBuf == BufLen

\* min(mAmount, mBufLen)
AmountLen == IF ModeAmount THEN Smaller(amount, BufLen) ELSE BufLen

\* A write that puts n bytes into the stream; a burst of which nothing was
\* written yet begins with it, for every write starts at mBuf's first byte.
Put(n, fresh, size) ==
    /\ written' = written + n
    /\ starts' = IF fresh /\ n > 0 THEN starts \cup {[at |-> written, size |-> size]}
                                   ELSE starts
    /\ UNCHANGED fin

\* So much is left of a burst of mBufLen that its header was not complete: the
\* next write starts anew at mBuf's first byte.
HeaderCut(left) == left < BufLen /\ left > BufLen - Hdr

\* The network can fail a write: once, or for good.
WriteFails == IF broken THEN UNCHANGED events ELSE Event

\* Fault: the packets are reported although one report tells of them all.
ReportAlways(n) == reported' = reported + n

\* myReportPacket of n bytes, unless one report is enough.
Report(n) == reported' = IF setup.oneReport /\ setup.loop # "near"
                         THEN reported ELSE reported + n

\* StartSynch and InitTrafficLoop: the first payload of a UDP test is a
\* datagram of its own, which the loop continues the numbers of; it is left
\* out, or send fails, in the second case.  The first payload of a TCP test is
\* the test header the Listener reads.
StartSynch ==
    /\ cpc = "start"
    /\ cpc' = "loop"
    /\ \/ /\ IsUdp
          /\ sent' = <<packetID>>
          /\ packetID' = packetID + 1
          /\ written' = written + BufLen
          /\ reported' = reported + BufLen
       \/ UNCHANGED <<sent, packetID, written, reported>>
    /\ UNCHANGED <<setup, burstLeft, part, amount, totLen, packetLen, fatalErr,
                   envVars, starts, torn, fin, serverVars, events>>

\* The loop test fails.
LoopEnds ==
    /\ cpc \in {"loop", "frame"}
    /\ \/ ~InProgress
       \/ fatalErr /\ cpc = "loop"
    /\ cpc' = IF cpc = "loop" THEN "finish" ELSE "loop"
    /\ UNCHANGED <<setup, loopVars, envVars, tcpVars, sent,
                   reported, serverVars, events>>

-----------------------------------------------------------------------------
\* RunTCP.

\* After a write of n > 0 bytes: the amounts, the burst, the report.
Account(n) ==
    /\ totLen' = totLen + n
    /\ burstLeft' = IF IsBurst THEN burstLeft - n ELSE burstLeft
    /\ amount' = LessAmount(n)
    /\ Report(n)

\* The sizes a burst may have: at least a header.  The header of a --reverse
\* test does not bring mBurstSize to the writer, which has the server's, mostly 0
\* (TestExchange!ReversedAsAsked): its periodic bursts are bare headers then.
BurstSizes ==
    IF setup.burst = "periodic" /\ ~setup.reverse THEN {Burst}
    ELSE IF setup.burst \in {"periodic", "isoch"} THEN {Hdr, Burst}
    ELSE {BufLen}

\* A new burst, here and in RunRateLimitedTCP: its header is prepared.
NewBurst ==
    /\ cpc = "loop" /\ setup.loop \in {"tcp", "rate"} /\ IsBurst
    /\ InProgress /\ MayWrite
    /\ burstLeft <= 0
    /\ burstLeft' \in BurstSizes
    /\ part' = 0
    /\ cpc' = "header"
    /\ UNCHANGED <<setup, amount, totLen, packetLen, packetID, fatalErr,
                   envVars, tcpVars, sent, reported, serverVars,
                   events>>

\* The wait for a periodic burst has crossed the end of the test; otherwise it
\* posts a null event.
TcpBurstEnds ==
    /\ cpc = "header" /\ setup.loop = "tcp" /\ setup.burst = "periodic"
    /\ part = 0
    /\ ~InProgress
    /\ packetLen' = 0
    /\ cpc' = "finish"
    /\ UNCHANGED <<setup, burstLeft, part, amount, totLen, packetID, fatalErr,
                   envVars, tcpVars, sent, reported, serverVars,
                   events>>

\* writen of the first bytes of a burst: part by part, until all is written.
TcpWriten(n) ==
    /\ cpc = "header" /\ setup.loop = "tcp"
    /\ ~broken
    /\ n \in 1 .. Smaller(Room, Smaller(BufLen, burstLeft) - part)
    /\ Put(n, part = 0, burstLeft)
    /\ IF part + n = Smaller(BufLen, burstLeft)
       THEN Account(part + n) /\ cpc' = "loop" /\ part' = 0
       ELSE /\ part' = part + n
            /\ UNCHANGED <<totLen, burstLeft, amount, reported, cpc>>
    /\ UNCHANGED <<setup, packetLen, packetID, fatalErr, envVars,
                   torn, sent, serverVars, events>>

\* Any error but EINTR ends writen with what it wrote; a header that is not
\* complete stops the thread (FAIL_errno).  thread_stop and Settings_Destroy
\* close no socket: the server sees no end of the stream.
TcpWritenFails ==
    /\ cpc = "header" /\ setup.loop = "tcp"
    /\ WriteFails
    /\ IF part < Hdr
       THEN /\ cpc' = "stopped"
            /\ UNCHANGED <<totLen, burstLeft, amount, reported, part>>
       ELSE Account(part) /\ cpc' = "loop" /\ part' = 0
    /\ UNCHANGED <<setup, packetLen, packetID, fatalErr, envVars,
                   tcpVars, sent, serverVars>>

\* How much RunTCP asks write for: with bursts the amount is not looked at.
WriteLen == IF IsBurst THEN Smaller(BufLen, burstLeft) ELSE AmountLen

TcpWrite(n) ==
    /\ cpc = "loop" /\ setup.loop = "tcp"
    /\ InProgress /\ MayWrite /\ ~broken
    /\ IsBurst => burstLeft > 0
    /\ n \in 1 .. Smaller(Room, WriteLen)
    /\ Put(n, FALSE, 0)
    /\ Account(n)
    /\ UNCHANGED <<setup, cpc, part, packetLen, packetID, fatalErr, envVars,
                   torn, sent, serverVars, events>>

\* Fault: a fatal error is taken for one that passes.
TcpWriteFailsGoesOn ==
    /\ cpc = "loop" /\ setup.loop = "tcp"
    /\ InProgress
    /\ IsBurst => burstLeft > 0
    /\ WriteFails
    /\ UNCHANGED <<cpc, packetLen, fatalErr>>
    /\ UNCHANGED <<setup, burstLeft, part, amount, totLen, packetID,
                   envVars, tcpVars, sent, reported, serverVars>>

\* A write fails: with EAGAIN an empty report and the loop goes on, otherwise
\* the loop is left with packetLen -1.
TcpWriteFails ==
    /\ cpc = "loop" /\ setup.loop = "tcp"
    /\ InProgress
    /\ IsBurst => burstLeft > 0
    /\ WriteFails
    /\ \/ ~broken /\ UNCHANGED <<cpc, packetLen, fatalErr>>
       \/ cpc' = "finish" /\ packetLen' = -1 /\ fatalErr' = TRUE
    /\ UNCHANGED <<setup, burstLeft, part, amount, totLen, packetID,
                   envVars, tcpVars, sent, reported, serverVars>>

-----------------------------------------------------------------------------
\* RunNearCongestionTCP: bursts of mBufLen with a pause after each.

NearLen == IF burstLeft = 0 THEN BufLen ELSE Smaller(AmountLen, burstLeft)

\* burst_remaining is set before the write and stays when the write fails.
NearLeft == IF burstLeft = 0 THEN BufLen ELSE burstLeft

NearWrite(n) ==
    /\ cpc = "loop" /\ setup.loop = "near"
    /\ InProgress /\ MayWrite /\ ~broken
    /\ n \in 1 .. Smaller(Room, NearLen)
    /\ Put(n, NearLeft = BufLen, BufLen)
    /\ torn' = (torn \/ HeaderCut(NearLeft))
    /\ totLen' = totLen + n
    /\ burstLeft' = NearLeft - n
    /\ amount' = LessAmount(n)
    /\ Report(n)
    /\ UNCHANGED <<setup, cpc, part, packetLen, packetID, fatalErr, envVars,
                   sent, serverVars, events>>

NearWriteFails ==
    /\ cpc = "loop" /\ setup.loop = "near"
    /\ InProgress
    /\ WriteFails
    /\ burstLeft' = NearLeft
    /\ \/ ~broken /\ UNCHANGED <<cpc, packetLen, fatalErr>>
       \/ cpc' = "finish" /\ packetLen' = -1 /\ fatalErr' = TRUE
    /\ UNCHANGED <<setup, part, amount, totLen, packetID, envVars,
                   tcpVars, sent, reported, serverVars>>

-----------------------------------------------------------------------------
\* RunRateLimitedTCP, when the token bucket allows a write.

\* With trip times a header is written first, by a call of its own.
RateHeader(n) ==
    /\ cpc = "header" /\ setup.loop = "rate"
    /\ \/ /\ ~broken
          /\ n \in 1 .. Smaller(Room, Hdr - part)
          /\ Put(n, part = 0, BufLen)
          /\ part' = part + n
          /\ IF part + n = Hdr THEN burstLeft' = burstLeft - Hdr /\ cpc' = "body"
                               ELSE UNCHANGED <<burstLeft, cpc>>
          /\ UNCHANGED events
       \/ /\ n = 0
          /\ WriteFails
          /\ burstLeft' = burstLeft - part
          /\ cpc' = "body"
          /\ UNCHANGED <<written, starts, fin, part>>
    /\ UNCHANGED <<setup, amount, totLen, packetLen, packetID, fatalErr,
                   envVars, torn, sent, reported, serverVars>>

\* The length of the second write: what the header took is taken off, also
\* when the amount left was smaller than a header.
RateLen ==
    IF cpc = "body" THEN AmountLen - part
    ELSE IF setup.burst = "trip" THEN Smaller(AmountLen, burstLeft) ELSE AmountLen

RateReady == /\ setup.loop = "rate"
             /\ \/ cpc = "body"
                \/ cpc = "loop" /\ InProgress /\ (setup.burst = "trip" => burstLeft > 0)

\* n bytes and the header before them; a write of nothing is no error.
RateWrite(n) ==
    /\ RateReady
    /\ MayWrite \/ cpc = "body"
    /\ ~broken
    /\ IF RateLen = 0 THEN n = 0 ELSE n \in 1 .. Smaller(Room, RateLen)
    /\ Put(n, setup.burst = "trip" /\ burstLeft = BufLen, BufLen)
    /\ burstLeft' = IF setup.burst = "trip" THEN burstLeft - n ELSE burstLeft
    /\ totLen' = totLen + n + part
    /\ amount' = LessAmount(n + part)
    /\ Report(n + part)
    /\ part' = 0
    /\ cpc' = "loop"
    /\ torn' = (torn \/ (setup.burst = "trip" /\ n > 0 /\ HeaderCut(burstLeft)))
    /\ UNCHANGED <<setup, packetLen, packetID, fatalErr, envVars,
                   sent, serverVars, events>>

\* After EAGAIN the header is reported alone; another error, that of a
\* negative length too, leaves the loop with packetLen as it was asked for.
RateWriteFails ==
    /\ RateReady
    /\ IF RateLen < 0 THEN UNCHANGED events ELSE WriteFails
    /\ \/ /\ ~broken /\ RateLen >= 0
          /\ amount' = LessAmount(part)
          /\ Report(part)
          /\ part' = 0
          /\ cpc' = "loop"
          /\ UNCHANGED <<packetLen, fatalErr>>
       \/ /\ cpc' = "finish" /\ packetLen' = RateLen /\ fatalErr' = TRUE
          /\ UNCHANGED <<amount, reported, part>>
    /\ UNCHANGED <<setup, burstLeft, totLen, packetID, envVars,
                   tcpVars, sent, serverVars>>

-----------------------------------------------------------------------------
\* RunUDP.

UdpWrite ==
    /\ cpc = "loop" /\ setup.loop = "udp"
    /\ InProgress /\ MayWrite /\ ~broken
    /\ sent' = Append(sent, packetID)
    /\ written' = written + AmountLen
    /\ reported' = reported + AmountLen
    /\ amount' = LessAmount(AmountLen)
    /\ packetID' = packetID + 1
    /\ UNCHANGED <<setup, cpc, burstLeft, part, totLen, packetLen, fatalErr,
                   envVars, starts, torn, fin, serverVars, events>>

\* Fault: the number of a datagram that was not sent is not used again.
UdpWriteFailsSkips ==
    /\ cpc = "loop" /\ setup.loop = "udp"
    /\ InProgress
    /\ WriteFails
    /\ \/ ~broken /\ packetID' = packetID + 1 /\ UNCHANGED <<cpc, fatalErr>>
       \/ packetID' = packetID - 1 /\ cpc' = "finish" /\ fatalErr' = TRUE
    /\ UNCHANGED <<setup, burstLeft, part, amount, totLen, packetLen,
                   envVars, tcpVars, sent, reported, serverVars>>

\* A write fails: the number is taken back, and given again at the end of the
\* round; a fatal error leaves the loop in between.
UdpWriteFails ==
    /\ cpc = "loop" /\ setup.loop = "udp"
    /\ InProgress
    /\ WriteFails
    /\ \/ ~broken /\ UNCHANGED <<packetID, cpc, fatalErr>>
       \/ packetID' = packetID - 1 /\ cpc' = "finish" /\ fatalErr' = TRUE
    /\ UNCHANGED <<setup, burstLeft, part, amount, totLen, packetLen,
                   envVars, tcpVars, sent, reported, serverVars>>

\* RunUDPIsochronous: a frame, of a size that can carry the payload's header.
UdpFrame ==
    /\ cpc = "loop" /\ setup.loop = "udpisoch"
    /\ InProgress /\ MayWrite /\ ~fatalErr
    /\ burstLeft' \in {UdpMin, Burst}
    /\ cpc' = "frame"
    /\ UNCHANGED <<setup, part, amount, totLen, packetLen, packetID, fatalErr,
                   envVars, tcpVars, sent, reported, serverVars,
                   events>>

FrameLen == IF ModeAmount /\ amount < BufLen THEN amount ELSE Smaller(burstLeft, BufLen)

\* What is left of the frame, never so little that it fits no datagram.
FrameLeft(n) == LET r == burstLeft - n IN IF r > 0 /\ r < UdpMin THEN UdpMin ELSE r

UdpFrameWrite ==
    /\ cpc = "frame" /\ InProgress /\ ~broken
    /\ MayWrite
    /\ sent' = Append(sent, packetID)
    /\ written' = written + FrameLen
    /\ reported' = reported + FrameLen
    /\ amount' = LessAmount(FrameLen)
    /\ packetID' = packetID + 1
    /\ burstLeft' = FrameLeft(FrameLen)
    /\ cpc' = IF FrameLeft(FrameLen) > 0 THEN "frame" ELSE "loop"
    /\ UNCHANGED <<setup, part, totLen, packetLen, fatalErr, envVars, starts,
                   torn, fin, serverVars, events>>

\* A fatal error is seen by the outer loop only.
UdpFrameWriteFails ==
    /\ cpc = "frame" /\ InProgress
    /\ WriteFails
    /\ \/ ~broken /\ UNCHANGED fatalErr
       \/ fatalErr' = TRUE
    /\ UNCHANGED <<setup, cpc, burstLeft, part, amount, totLen, packetLen,
                   packetID, envVars, tcpVars, sent, reported,
                   serverVars>>

-----------------------------------------------------------------------------
\* FinishTrafficActions.

\* The bytes of the final packet EndJob puts into the ring, in place of the
\* packetLen a loop left behind.
FinalLen(len) == IF setup.oneReport THEN totLen ELSE len

\* TCP: shutdown; unless it fails or the test is full duplex, a null event,
\* which clears the report struct, and the wait for the server's close.
FinishTcp ==
    /\ cpc = "finish" /\ ~IsUdp
    /\ fin' = TRUE
    /\ \/ /\ ~setup.duplex
          /\ cpc' = "await" /\ packetLen' = 0 /\ UNCHANGED reported
       \/ /\ setup.duplex \/ broken \/ fatalErr
          /\ cpc' = "ended" /\ UNCHANGED packetLen
          /\ reported' = reported + FinalLen(packetLen)
    /\ UNCHANGED <<setup, burstLeft, part, amount, totLen, packetID, fatalErr,
                   envVars, written, starts, torn, sent,
                   serverVars, events>>

\* AwaitServerCloseEvent ends with the server's close or a time-out.
AwaitServerClose ==
    /\ cpc = "await"
    /\ cpc' = "ended"
    /\ reported' = reported + FinalLen(packetLen)
    /\ UNCHANGED <<setup, loopVars, envVars, tcpVars, sent,
                   serverVars, events>>

\* UDP: the final datagram with the negative number; the reporter is told of
\* it when the write succeeds, and the final packet has no bytes.
FinishUdp ==
    /\ cpc = "finish" /\ IsUdp
    /\ cpc' = "ended"
    /\ \/ /\ ~broken
          /\ sent' = Append(sent, -packetID)
          /\ written' = written + BufLen
          /\ reported' = reported + BufLen
          /\ UNCHANGED events
       \/ WriteFails /\ UNCHANGED <<sent, written, reported>>
    /\ UNCHANGED <<setup, loopVars, envVars, starts, torn, fin,
                   serverVars>>

-----------------------------------------------------------------------------
\* Server::RunTCP.

\* The header at the reader's place, garbage when none was written there.
HeaderAt(p) ==
    IF ~torn /\ \E s \in starts : s.at = p
    THEN {s.size : s \in {t \in starts : t.at = p}}
    ELSE {Hdr, Burst}

\* A --reverse test with -n is over when the reader has seen the amount.
ReadEnough(tot) == setup.reverse /\ ModeAmount /\ tot >= setup.amount

\* Fault: the bytes of the header are not taken off the burst.
ReadHeaderWhole ==
    /\ spc = "loop" /\ IsBurst /\ nleft = 0
    /\ Avail >= Hdr
    /\ taken' = taken + Hdr
    /\ nleft' \in HeaderAt(taken)
    /\ misread' = (misread \/ ~\E s \in starts : s.at = taken)
    /\ currLen' = Hdr
    /\ spc' = "recv"
    /\ UNCHANGED <<setup, cpc, loopVars, envVars, tcpVars, sent,
                   reported, serverTot, counted, unread, minus, events>>

\* recvn of a burst header; a burst that is only a header is reported at once.
ReadHeader ==
    /\ spc = "loop" /\ IsBurst /\ nleft = 0
    /\ Avail >= Hdr
    /\ taken' = taken + Hdr
    /\ nleft' \in {b - Hdr : b \in HeaderAt(taken)}
    /\ misread' = (misread \/ ~\E s \in starts : s.at = taken)
    /\ IF nleft' = 0
       THEN /\ serverTot' = serverTot + Hdr /\ counted' = counted + Hdr
            /\ currLen' = 0
            /\ spc' = IF ReadEnough(serverTot + Hdr) THEN "closed" ELSE "loop"
       ELSE currLen' = Hdr /\ spc' = "recv" /\ UNCHANGED <<serverTot, counted>>
    /\ UNCHANGED <<setup, cpc, loopVars, envVars, tcpVars, sent,
                   reported, unread, minus, events>>

\* The end of the stream where a header should come: what was read of it is
\* dropped.
ReadHeaderEnds ==
    /\ spc = "loop" /\ IsBurst /\ nleft = 0
    /\ fin /\ Avail < Hdr
    /\ taken' = written
    /\ unread' = Avail
    /\ spc' = "closed"
    /\ UNCHANGED <<setup, cpc, loopVars, envVars, tcpVars, sent,
                   reported, nleft, currLen, serverTot, counted, minus, misread,
                   events>>

ReadReady == spc = "recv" \/ (spc = "loop" /\ (IsBurst => nleft > 0))

\* Fault: the bytes of the header are overwritten, not added to.
RecvOverwrites(n) ==
    /\ ReadReady /\ ~IsUdp
    /\ n \in 1 .. Smaller(Avail, IF nleft > 0 THEN Smaller(BufLen, nleft) ELSE BufLen)
    /\ taken' = taken + n
    /\ nleft' = IF IsBurst THEN nleft - n ELSE nleft
    /\ serverTot' = serverTot + n
    /\ counted' = counted + n
    /\ currLen' = 0
    /\ spc' = IF ReadEnough(serverTot + n) THEN "closed" ELSE "loop"
    /\ UNCHANGED <<setup, cpc, loopVars, envVars, tcpVars, sent,
                   reported, unread, minus, misread, events>>

\* recv of n bytes, which never goes past the end of the burst.
Recv(n) ==
    /\ ReadReady /\ ~IsUdp
    /\ n \in 1 .. Smaller(Avail, IF nleft > 0 THEN Smaller(BufLen, nleft) ELSE BufLen)
    /\ taken' = taken + n
    /\ nleft' = IF IsBurst THEN nleft - n ELSE nleft
    /\ serverTot' = serverTot + currLen + n
    /\ counted' = counted + currLen + n
    /\ currLen' = 0
    /\ spc' = IF ReadEnough(serverTot + currLen + n) THEN "closed" ELSE "loop"
    /\ UNCHANGED <<setup, cpc, loopVars, envVars, tcpVars, sent,
                   reported, unread, minus, misread, events>>

\* recv returns 0 (or fails for good): the peer has closed.
RecvCloses ==
    /\ ReadReady /\ ~IsUdp
    /\ fin /\ Avail = 0
    /\ serverTot' = serverTot + currLen
    /\ counted' = counted + currLen
    /\ currLen' = 0
    /\ spc' = "closed"
    /\ UNCHANGED <<setup, cpc, loopVars, envVars, tcpVars, sent,
                   reported, taken, nleft, unread, minus, misread, events>>

\* recv times out: -1 is added to the bytes; the reporter leaves a packet of
\* -1 bytes out, but not one of a header less one byte.
RecvTimeout ==
    /\ ReadReady /\ ~IsUdp
    /\ Event
    /\ serverTot' = serverTot + currLen - 1
    /\ counted' = IF currLen - 1 > 0 THEN counted + currLen - 1 ELSE counted
    /\ minus' = IF currLen > 0 THEN minus + 1 ELSE minus
    /\ currLen' = 0
    /\ spc' = IF ReadEnough(serverTot + currLen - 1) THEN "closed" ELSE "loop"
    /\ UNCHANGED <<setup, cpc, loopVars, envVars, tcpVars, sent,
                   reported, taken, nleft, unread, misread>>

\* The server's own time is over, or it is interrupted.
ServerStops ==
    /\ spc = "loop" /\ ~IsUdp
    /\ Event
    /\ spc' = "closed"
    /\ UNCHANGED <<setup, cpc, loopVars, envVars, tcpVars, sent,
                   reported, taken, nleft, currLen, serverTot, counted, unread,
                   minus, misread>>

-----------------------------------------------------------------------------
\* The rest of the world.

EndTime == /\ ~over /\ ~ModeAmount
           /\ over' = TRUE
           /\ UNCHANGED <<setup, cpc, loopVars, interrupted, broken,
                          tcpVars, sent, reported, serverVars, events>>

Interrupt == /\ ~interrupted
             /\ Event
             /\ interrupted' = TRUE
             /\ UNCHANGED <<setup, cpc, loopVars, over, broken,
                            tcpVars, sent, reported, serverVars>>

\* The connection breaks, because the reader closed its socket or otherwise.
Break == /\ ~broken
         /\ IF spc = "closed" THEN UNCHANGED events ELSE Event
         /\ broken' = TRUE
         /\ UNCHANGED <<setup, cpc, loopVars, over, interrupted,
                        tcpVars, sent, reported, serverVars>>

ClientStep ==
    \/ StartSynch \/ LoopEnds
    \/ NewBurst \/ TcpBurstEnds
    \/ \E n \in 1 .. BufLen : TcpWriten(n) \/ TcpWrite(n) \/ NearWrite(n)
    \/ \E n \in 0 .. BufLen : RateHeader(n) \/ RateWrite(n)
    \/ UdpWrite \/ UdpFrame \/ UdpFrameWrite
    \/ FinishTcp \/ AwaitServerClose \/ FinishUdp
    \/ TcpWritenFails \/ TcpWriteFails \/ NearWriteFails \/ RateWriteFails
    \/ UdpWriteFails \/ UdpFrameWriteFails

ServerStep ==
    \/ ReadHeader \/ ReadHeaderEnds \/ RecvCloses
    \/ \E n \in 1 .. BufLen : Recv(n)

Over == /\ cpc \in {"ended", "stopped"}
        /\ UNCHANGED vars

Next == ClientStep \/ ServerStep \/ RecvTimeout \/ ServerStops
        \/ EndTime \/ Interrupt \/ Break \/ Over

\* The client and the server go on; time passes; a closed socket is noticed.
Spec == /\ Init /\ [][Next]_vars
        /\ WF_vars(ClientStep) /\ WF_vars(ServerStep) /\ WF_vars(EndTime)
        /\ WF_vars(Break /\ spc = "closed")

-----------------------------------------------------------------------------
\* The loop was left for an error and nothing cleared its packetLen.
LeftOver == fatalErr /\ packetLen # 0

\* At the end of the client the bytes the reporter was told of are the bytes
\* that were written, whatever was written in parts, failed or was reported at
\* once: except that a fatal error on a connection that cannot be shut down
\* (or is full duplex) leaves the length asked for, or -1, in the final packet,
\* and that RunRateLimitedTCP forgets the header before a fatal error.
ClientTotal ==
    cpc = "ended" /\ ~LeftOver /\ ~(setup.loop = "near" /\ setup.oneReport)
        => reported = written - IF fatalErr THEN part ELSE 0

\* "report the entire transfer as one big packet": with one_report a TCP client
\* has told of every byte once, whichever its loop is.
OneBigPacket ==
    cpc = "ended" /\ setup.oneReport /\ ~LeftOver => reported = written

\* At its end the server has told of every byte it took out of the stream but
\* those of a header cut short, and less one for every time-out after a header.
ServerTotal ==
    spc = "closed" => counted + currLen = taken - unread - minus

\* However the stream is cut into writes and reads, and wherever writes fail,
\* the server reads a header only where the client began a burst, unless a
\* header was written in pieces that do not fit.
BurstsAligned == misread => torn

\* What the last write may have more than is left of the amount.
Beyond ==
    IF IsUdp THEN 2 * BufLen
    ELSE IF setup.loop = "rate" /\ IsBurst THEN Hdr - 1
    ELSE IF setup.loop = "near" \/ IsBurst THEN BufLen - 1
    ELSE 0

\* With -n no more than the amount is written, although writes end in parts
\* and fail; bursts and near congestion, which do not cut a burst's first write
\* to the amount, write less than one buffer more, a rate limit with trip times
\* less than a header more.  UDP has two datagrams beside its amount, the first
\* and the final one.
AmountKept == ModeAmount => written <= setup.amount + Beyond

\* Both ends tell the reporter of the bytes that went through their socket, and
\* -n is kept.
BytesRight == ClientTotal /\ ServerTotal /\ AmountKept

\* The datagrams written have the numbers 1, 2, ... and the final one the next
\* number, negative; a fatal error in RunUDP makes it repeat the last number.
UdpNumbers ==
    \A i \in 1 .. Len(sent) :
        \/ sent[i] = i
        \/ i = Len(sent) /\ sent[i] = -i
        \/ i = Len(sent) /\ fatalErr /\ setup.loop = "udp" /\ sent[i] = -(i - 1)

\* Every test ends, on both sides: its time passes, its amount is written, or
\* the broken connection is noticed.  Two are excepted.  A burst header that
\* cannot be written whole stops the client's thread with its socket open, and
\* the server waits on unless its own timer ends it.  And an isochronous UDP
\* test with -n whose writes fail for good does not end, for the inner loop does
\* not look at fatalwrite_err.
TestEnds ==
    <>(\/ cpc = "ended" /\ (IsUdp \/ spc = "closed")
       \/ cpc = "stopped"
       \/ cpc = "frame" /\ broken /\ ModeAmount)
=============================================================================
