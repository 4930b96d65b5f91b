------------------------ MODULE ClientTrafficProofs -------------------------
(***************************************************************************)
(* Proofs about the traffic loops for every buffer, burst and header size, *)
(* every amount and every way in which writes and reads are cut or fail.   *)
(* The invariant has a part for each thing said: where a loop is with its  *)
(* burst (Places), which bytes were reported (ClientBytes, ServerBytes),   *)
(* what is left of the amount (AmountLeft), where the next burst begins    *)
(* (BurstChain) and which number the next datagram has (Numbers).          *)
(***************************************************************************)
EXTENDS ClientTraffic, TLAPS

\* The variables have their types; the bytes of a burst left may be negative
\* for a UDP frame.
TypeInv ==
    /\ setup \in Setups
    /\ cpc \in {"start", "loop", "frame", "header", "body", "finish", "await",
                "ended", "stopped"}
    /\ burstLeft \in Int /\ part \in Nat /\ totLen \in Int
    /\ amount \in Int /\ (ModeAmount => amount \in Nat)
    /\ packetLen \in Int /\ packetID \in Int
    /\ written \in Nat /\ reported \in Int
    /\ spc \in {"loop", "recv", "closed"}
    /\ taken \in Int /\ currLen \in Int /\ counted \in Int
    /\ unread \in Int /\ minus \in Int

\* The client is in its loop, or about to enter it: more may be written.
Writing == cpc \in {"start", "loop", "frame", "header", "body"}

\* How far the burst at hand is written, by the place in the loop.
Places ==
    /\ cpc \in {"start", "loop", "frame"} \/ IsUdp => part = 0
    /\ cpc = "frame" => setup.loop = "udpisoch" /\ burstLeft > 0
    /\ cpc = "await" => ~IsUdp
    /\ cpc = "header" =>
         /\ setup.loop \in {"tcp", "rate"} /\ IsBurst
         /\ setup.loop = "tcp" =>
              part < BufLen /\ part < burstLeft /\ Hdr <= burstLeft
         /\ setup.loop = "rate" => part < Hdr /\ burstLeft = BufLen
    /\ cpc = "body" =>
         setup.loop = "rate" /\ IsBurst /\ part <= Hdr /\ burstLeft = BufLen - part
    /\ cpc \in {"header", "body"} => amount # 0
    /\ ~IsUdp => burstLeft >= 0
    /\ ~IsUdp /\ setup.loop # "tcp" => burstLeft <= BufLen
    /\ setup.loop = "rate" /\ setup.burst = "none" => burstLeft = 0
    /\ ~IsUdp /\ Writing => ~fatalErr
    /\ cpc \in {"finish", "await", "ended"} /\ ~fatalErr => part = 0
    /\ packetLen # 0 => fatalErr

\* The bytes the client told of are those written but for the call of writen
\* under way; with one report it tells nothing before its end.
ClientBytes ==
    /\ IsUdp => reported = written
    /\ ~IsUdp /\ cpc # "ended" /\ ~(setup.loop = "near" /\ setup.oneReport) =>
         reported = IF setup.oneReport THEN 0 ELSE written - part
    /\ setup.oneReport => totLen = written - part
    /\ ClientTotal

\* The same for the server: what it took is told of or waits in currLen.  It
\* reads headers only where bursts are written.
ServerBytes ==
    /\ counted + currLen = taken - unread - minus
    /\ currLen >= 0
    /\ spc = "loop" => currLen = 0
    /\ spc # "closed" => unread = 0
    /\ ~IsBurst => ~misread

\* Written and left of the amount add up to it until it is used up.
AmountLeft ==
    ModeAmount =>
      /\ IsUdp =>
           written + amount <= setup.amount + IF cpc = "start" THEN 0
                                              ELSE IF cpc = "ended" THEN 2 * BufLen
                                              ELSE BufLen
      /\ ~IsUdp /\ amount > 0 =>
           written + amount = setup.amount + part /\ part <= Beyond + 1
      /\ ~IsUdp /\ amount = 0 => part = 0 /\ written <= setup.amount + Beyond

\* Where the next burst begins: behind the one at hand, if any of it is written.
Frontier ==
    IF cpc = "header" THEN IF part = 0 THEN written ELSE written - part + burstLeft
    ELSE IF setup.loop # "tcp" /\ burstLeft = BufLen THEN written
    ELSE written + burstLeft

\* A burst begins at p, or will unless no more is written.
Begins(p) ==
    \/ \E s \in starts : s.at = p
    \/ IF Writing THEN p = Frontier ELSE p >= written

\* Behind every burst, by the size in its header, the next one begins, and the
\* reader is where its count of the burst says.
BurstChain ==
    ~torn /\ IsBurst =>
        /\ \A s \in starts :
             /\ s.at \in Nat /\ s.size \in Nat /\ Hdr <= s.size
             /\ Begins(s.at + s.size)
        /\ spc # "closed" => nleft \in Nat /\ Begins(taken + nleft)
        /\ spc = "recv" => nleft > 0
        /\ ~misread

\* The datagrams have their numbers, and the next one has the next.
Numbers ==
    /\ ~IsUdp => sent = <<>>
    /\ IF cpc = "ended" THEN UdpNumbers
       ELSE /\ \A i \in 1 .. Len(sent) : sent[i] = i
            /\ packetID = IF fatalErr /\ setup.loop = "udp"
                          THEN Len(sent) ELSE Len(sent) + 1
    /\ Writing /\ setup.loop = "udp" => ~fatalErr
    /\ cpc = "start" => sent = <<>>
    /\ sent \in Seq(Int)

-----------------------------------------------------------------------------
\* What a setup says.
LEMMA SetupFacts ==
    ASSUME setup \in Setups
    PROVE  /\ setup.loop \in {"tcp", "near", "rate", "udp", "udpisoch"}
           /\ setup.burst \in {"none", "trip", "periodic", "isoch"}
           /\ setup.amount \in Int /\ (ModeAmount => setup.amount \in Nat)
           /\ setup.oneReport \in BOOLEAN /\ setup.duplex \in BOOLEAN
           /\ IsUdp => setup.burst = "none" /\ ~setup.oneReport
           /\ setup.loop = "rate" => setup.burst \in {"none", "trip"}
           /\ setup.oneReport => setup.burst = "none"
<1>1. setup \in Setup /\ Possible(setup) BY TrafficAssumption
<1> QED BY <1>1 DEF Setup, Possible, IsUdp, ModeAmount

\* The steps of the server and of the world leave the client alone.
LEMMA OthersStep ==
    ASSUME \/ ServerStep \/ RecvTimeout \/ ServerStops \/ EndTime \/ Interrupt
           \/ Break \/ Over \/ UNCHANGED vars
    PROVE  UNCHANGED <<setup, cpc, burstLeft, part, amount, totLen, packetLen,
                       packetID, fatalErr, written, starts, torn, fin, sent,
                       reported>>
BY DEF ServerStep, ReadHeader, ReadHeaderEnds, RecvCloses, Recv, RecvTimeout,
       ServerStops, EndTime, Interrupt, Break, Over, vars, loopVars, tcpVars

\* The steps of the client and of the world leave the server alone.
LEMMA ClientLeavesServer ==
    ASSUME \/ ClientStep \/ EndTime \/ Interrupt \/ Break \/ Over \/ UNCHANGED vars
    PROVE  UNCHANGED <<setup, spc, taken, nleft, currLen, counted, unread, minus,
                       misread>>
<1>1. CASE ClientStep
  BY <1>1 DEF ClientStep, StartSynch, LoopEnds, NewBurst, TcpBurstEnds, TcpWriten,
     TcpWrite, NearWrite, RateHeader, RateWrite, UdpWrite, UdpFrame, UdpFrameWrite,
     FinishTcp, AwaitServerClose, FinishUdp, TcpWritenFails, TcpWriteFails,
     NearWriteFails, RateWriteFails, UdpWriteFails, UdpFrameWriteFails, serverVars
<1> QED BY <1>1 DEF EndTime, Interrupt, Break, Over, vars, serverVars

\* Lengths are numbers, and what they are cut to.
LEMMA Lengths ==
    ASSUME TypeInv
    PROVE  /\ AmountLen \in Nat /\ AmountLen <= BufLen
           /\ ModeAmount => AmountLen <= amount
           /\ ModeAmount /\ amount > 0 => AmountLen > 0
           /\ ~ModeAmount => AmountLen = BufLen
           /\ \A n \in Int : /\ LessAmount(n) \in Int
                             /\ ModeAmount /\ n >= 0 => LessAmount(n) \in Nat
<1> USE TrafficAssumption DEF TypeInv
<1> QED BY DEF AmountLen, Smaller, LessAmount

-----------------------------------------------------------------------------
\* Every step of the client keeps the types.
LEMMA ClientType == ASSUME TypeInv, Places, ClientStep PROVE TypeInv'
<1> USE TrafficAssumption, SetupFacts, Lengths
    DEF TypeInv, loopVars, envVars, tcpVars, serverVars, ModeAmount
<1>1. CASE StartSynch BY <1>1 DEF StartSynch
<1>2. CASE LoopEnds BY <1>2 DEF LoopEnds
<1>3. CASE NewBurst BY <1>3 DEF NewBurst, BurstSizes, Places
<1>4. CASE TcpBurstEnds BY <1>4 DEF TcpBurstEnds
<1>5. CASE \E n \in 1 .. BufLen : TcpWriten(n)
  BY <1>5 DEF TcpWriten, Put, Account, Report, Smaller
<1>6. CASE \E n \in 1 .. BufLen : TcpWrite(n)
  BY <1>6 DEF TcpWrite, Put, Account, Report, Smaller
<1>7. CASE \E n \in 1 .. BufLen : NearWrite(n)
  BY <1>7 DEF NearWrite, Put, NearLeft, Report, Smaller
<1>8. CASE \E n \in 0 .. BufLen : RateHeader(n) BY <1>8 DEF RateHeader, Put
<1>9. ASSUME NEW n \in 0 .. BufLen, RateWrite(n) PROVE TypeInv'
  <2>1. n + part \in Nat OBVIOUS
  <2>2. amount' \in Int /\ (ModeAmount => amount' \in Nat)
    BY <1>9, <2>1 DEF RateWrite
  <2> QED BY <1>9, <2>1, <2>2 DEF RateWrite, Put, Report
<1>10. CASE UdpWrite
  <2>1. /\ written' = written + AmountLen /\ reported' = reported + AmountLen
        /\ amount' = LessAmount(AmountLen) /\ packetID' = packetID + 1
        /\ UNCHANGED <<setup, cpc, burstLeft, part, totLen, packetLen, serverVars>>
    BY <1>10 DEF UdpWrite
  <2> QED BY <2>1
<1>11. CASE UdpFrame BY <1>11 DEF UdpFrame
<1>12. CASE UdpFrameWrite
  <2>1. FrameLen \in Nat BY <1>12 DEF UdpFrameWrite, FrameLen, Smaller, Places
  <2>2. FrameLeft(FrameLen) \in Int BY <2>1 DEF FrameLeft
  <2>3. /\ written' = written + FrameLen /\ reported' = reported + FrameLen
        /\ amount' = LessAmount(FrameLen) /\ packetID' = packetID + 1
        /\ burstLeft' = FrameLeft(FrameLen) /\ cpc' \in {"frame", "loop"}
        /\ UNCHANGED <<setup, part, totLen, packetLen, serverVars>>
    BY <1>12 DEF UdpFrameWrite
  <2> QED BY <2>1, <2>2, <2>3
<1>13. CASE FinishTcp BY <1>13 DEF FinishTcp, FinalLen
<1>14. CASE AwaitServerClose BY <1>14 DEF AwaitServerClose, FinalLen
<1>15. CASE FinishUdp
  <2>1. /\ cpc' = "ended"
        /\ \/ written' = written + BufLen /\ reported' = reported + BufLen
           \/ UNCHANGED <<written, reported>>
        /\ UNCHANGED <<setup, loopVars, serverVars>>
    BY <1>15 DEF FinishUdp
  <2> QED BY <2>1
<1>16. CASE TcpWritenFails BY <1>16 DEF TcpWritenFails, Account, Report
<1>17. CASE TcpWriteFails BY <1>17 DEF TcpWriteFails
<1>18. CASE NearWriteFails BY <1>18 DEF NearWriteFails, NearLeft
<1>19. CASE RateWriteFails BY <1>19 DEF RateWriteFails, RateLen, Report, Smaller
<1>20. CASE UdpWriteFails BY <1>20 DEF UdpWriteFails
<1>21. CASE UdpFrameWriteFails BY <1>21 DEF UdpFrameWriteFails
<1> QED
  BY <1>1, <1>2, <1>3, <1>4, <1>5, <1>6, <1>7, <1>8, <1>9, <1>10, <1>11,
     <1>12, <1>13, <1>14, <1>15, <1>16, <1>17, <1>18, <1>19, <1>20, <1>21 DEF ClientStep

\* The server's reads and the world's steps keep the types.
LEMMA OthersType ==
    ASSUME TypeInv,
           \/ ServerStep \/ RecvTimeout \/ ServerStops \/ EndTime \/ Interrupt
           \/ Break \/ Over \/ UNCHANGED vars
    PROVE  TypeInv'
<1>0. UNCHANGED <<setup, cpc, burstLeft, part, amount, totLen, packetLen,
                  packetID, written, reported>>
  BY OthersStep
<1> USE TrafficAssumption, <1>0 DEF TypeInv, ModeAmount
<1>1. CASE ReadHeader BY <1>1 DEF ReadHeader
<1>2. CASE ReadHeaderEnds BY <1>2 DEF ReadHeaderEnds, Avail
<1>3. CASE RecvCloses BY <1>3 DEF RecvCloses
<1>4. CASE \E n \in 1 .. BufLen : Recv(n) BY <1>4 DEF Recv
<1>5. CASE RecvTimeout BY <1>5 DEF RecvTimeout
<1>6. CASE ServerStops BY <1>6 DEF ServerStops
<1>7. CASE EndTime \/ Interrupt \/ Break \/ Over \/ UNCHANGED vars
  BY <1>7, ClientLeavesServer
<1> QED BY <1>1, <1>2, <1>3, <1>4, <1>5, <1>6, <1>7 DEF ServerStep

\* Every step of the client keeps track of the burst at hand.
LEMMA ClientPlaces == ASSUME TypeInv, Places, ClientStep PROVE Places'
<1> USE TrafficAssumption, SetupFacts, Lengths
    DEF TypeInv, Places, Writing, loopVars, IsUdp, IsBurst
<1>1. CASE StartSynch BY <1>1 DEF StartSynch
<1>2. CASE LoopEnds BY <1>2 DEF LoopEnds
<1>3. CASE NewBurst BY <1>3 DEF NewBurst, InProgress, BurstSizes
<1>4. CASE TcpBurstEnds BY <1>4 DEF TcpBurstEnds
<1>5. ASSUME NEW n \in 1 .. BufLen, TcpWriten(n) PROVE Places'
  <2>1. /\ cpc = "header" /\ setup.loop = "tcp" /\ part + n <= BufLen
        /\ part + n <= burstLeft
        /\ \/ cpc' = "loop" /\ part' = 0 /\ burstLeft' = burstLeft - (part + n)
           \/ /\ part + n < BufLen /\ part + n < burstLeft
              /\ part' = part + n /\ UNCHANGED <<cpc, burstLeft, amount>>
        /\ UNCHANGED <<setup, packetLen, fatalErr>>
    BY <1>5 DEF TcpWriten, Account, Smaller, Room
  <2> QED BY <2>1
<1>6. ASSUME NEW n \in 1 .. BufLen, TcpWrite(n) PROVE Places'
  <2>1. /\ cpc = "loop" /\ setup.loop = "tcp"
        /\ UNCHANGED <<setup, cpc, part, packetLen, fatalErr>>
    BY <1>6 DEF TcpWrite
  <2>2. IsBurst => n <= burstLeft /\ burstLeft' = burstLeft - n
    BY <1>6 DEF TcpWrite, Account, Smaller, Room, WriteLen
  <2>3. ~IsBurst => burstLeft' = burstLeft BY <1>6 DEF TcpWrite, Account
  <2> QED BY <2>1, <2>2, <2>3
<1>7. ASSUME NEW n \in 1 .. BufLen, NearWrite(n) PROVE Places'
  <2>1. /\ cpc = "loop" /\ setup.loop = "near" /\ burstLeft' = NearLeft - n
        /\ UNCHANGED <<setup, cpc, part, packetLen, fatalErr>>
    BY <1>7 DEF NearWrite
  <2>2. /\ NearLeft \in Int /\ NearLen \in Int
        /\ NearLen <= NearLeft /\ NearLeft <= BufLen
    BY <2>1 DEF NearLeft, NearLen, Smaller
  <2>3. n <= NearLen BY <1>7, <2>2 DEF NearWrite, Smaller, Room
  <2> QED BY <2>1, <2>2, <2>3
<1>8. ASSUME NEW n \in 0 .. BufLen, RateHeader(n) PROVE Places'
  <2>1. /\ cpc = "header" /\ setup.loop = "rate"
        /\ \/ /\ part + n < Hdr /\ part' = part + n
              /\ UNCHANGED <<cpc, burstLeft>>
           \/ /\ part' \in Nat /\ part' <= Hdr /\ cpc' = "body"
              /\ burstLeft' = burstLeft - part'
        /\ UNCHANGED <<setup, amount, packetLen, fatalErr>>
    BY <1>8 DEF RateHeader, Smaller, Room
  <2> QED BY <2>1
<1>9. ASSUME NEW n \in 0 .. BufLen, RateWrite(n) PROVE Places'
  <2>1. /\ cpc \in {"loop", "body"} /\ setup.loop = "rate" /\ cpc' = "loop"
        /\ part' = 0 /\ UNCHANGED <<setup, packetLen, fatalErr>>
    BY <1>9 DEF RateWrite, RateReady
  <2>2. setup.burst = "trip" => n <= burstLeft /\ burstLeft' = burstLeft - n
    BY <1>9 DEF RateWrite, RateReady, RateLen, Smaller, Room
  <2>3. setup.burst # "trip" => burstLeft' = burstLeft BY <1>9 DEF RateWrite
  <2> QED BY <2>1, <2>2, <2>3
<1>10. CASE UdpWrite BY <1>10 DEF UdpWrite
<1>11. CASE UdpFrame BY <1>11 DEF UdpFrame, InProgress
<1>12. CASE UdpFrameWrite BY <1>12 DEF UdpFrameWrite
<1>13. CASE FinishTcp BY <1>13 DEF FinishTcp
<1>14. CASE AwaitServerClose BY <1>14 DEF AwaitServerClose
<1>15. CASE FinishUdp BY <1>15 DEF FinishUdp
<1>16. CASE TcpWritenFails BY <1>16 DEF TcpWritenFails, Account
<1>17. CASE TcpWriteFails BY <1>17 DEF TcpWriteFails
<1>18. CASE NearWriteFails BY <1>18 DEF NearWriteFails, NearLeft
<1>19. CASE RateWriteFails BY <1>19 DEF RateWriteFails, RateReady
<1>20. CASE UdpWriteFails BY <1>20 DEF UdpWriteFails
<1>21. CASE UdpFrameWriteFails BY <1>21 DEF UdpFrameWriteFails
<1> QED
  BY <1>1, <1>2, <1>3, <1>4, <1>5, <1>6, <1>7, <1>8, <1>9, <1>10, <1>11,
     <1>12, <1>13, <1>14, <1>15, <1>16, <1>17, <1>18, <1>19, <1>20, <1>21 DEF ClientStep

-----------------------------------------------------------------------------
\* Every step of the client tells the reporter of what it wrote.
LEMMA ClientBytesStep ==
    ASSUME TypeInv, Places, ClientBytes, ClientStep PROVE ClientBytes'
<1> USE TrafficAssumption, SetupFacts, Lengths
    DEF TypeInv, Places, ClientBytes, ClientTotal, Writing, loopVars, tcpVars, IsUdp,
        IsBurst
<1>1. CASE StartSynch BY <1>1 DEF StartSynch
<1>2. CASE LoopEnds BY <1>2 DEF LoopEnds
<1>3. CASE NewBurst BY <1>3 DEF NewBurst
<1>4. CASE TcpBurstEnds BY <1>4 DEF TcpBurstEnds
<1>5. CASE \E n \in 1 .. BufLen : TcpWriten(n)
  BY <1>5 DEF TcpWriten, Put, Account, Report
<1>6. CASE \E n \in 1 .. BufLen : TcpWrite(n) BY <1>6 DEF TcpWrite, Put, Account, Report
<1>7. CASE \E n \in 1 .. BufLen : NearWrite(n) BY <1>7 DEF NearWrite, Put, Report
<1>8. CASE \E n \in 0 .. BufLen : RateHeader(n) BY <1>8 DEF RateHeader, Put
<1>9. CASE \E n \in 0 .. BufLen : RateWrite(n)
  BY <1>9 DEF RateWrite, RateReady, Put, Report
<1>10. CASE UdpWrite BY <1>10 DEF UdpWrite
<1>11. CASE UdpFrame BY <1>11 DEF UdpFrame
<1>12. CASE UdpFrameWrite BY <1>12 DEF UdpFrameWrite
<1>13. CASE FinishTcp BY <1>13 DEF FinishTcp, FinalLen, LeftOver
<1>14. CASE AwaitServerClose BY <1>14 DEF AwaitServerClose, FinalLen, LeftOver
<1>15. CASE FinishUdp
  <2>1. /\ IsUdp /\ cpc' = "ended" /\ UNCHANGED <<setup, loopVars>>
        /\ \/ written' = written + BufLen /\ reported' = reported + BufLen
           \/ UNCHANGED <<written, reported>>
    BY <1>15 DEF FinishUdp
  <2> QED BY <2>1
<1>16. CASE TcpWritenFails BY <1>16 DEF TcpWritenFails, Account, Report
<1>17. CASE TcpWriteFails BY <1>17 DEF TcpWriteFails
<1>18. CASE NearWriteFails BY <1>18 DEF NearWriteFails
<1>19. CASE RateWriteFails BY <1>19 DEF RateWriteFails, RateReady, Report
<1>20. CASE UdpWriteFails BY <1>20 DEF UdpWriteFails
<1>21. CASE UdpFrameWriteFails BY <1>21 DEF UdpFrameWriteFails
<1> QED
  BY <1>1, <1>2, <1>3, <1>4, <1>5, <1>6, <1>7, <1>8, <1>9, <1>10, <1>11,
     <1>12, <1>13, <1>14, <1>15, <1>16, <1>17, <1>18, <1>19, <1>20, <1>21 DEF ClientStep

\* Every read tells the reporter of what it took.
LEMMA ServerBytesStep ==
    ASSUME TypeInv, ServerBytes, [Next]_vars PROVE ServerBytes'
<1> USE TrafficAssumption DEF TypeInv, ServerBytes, IsBurst
<1>1. CASE ReadHeader BY <1>1 DEF ReadHeader
<1>2. CASE ReadHeaderEnds BY <1>2 DEF ReadHeaderEnds, Avail
<1>3. CASE RecvCloses BY <1>3 DEF RecvCloses
<1>4. CASE \E n \in 1 .. BufLen : Recv(n) BY <1>4 DEF Recv, ReadReady
<1>5. CASE RecvTimeout BY <1>5 DEF RecvTimeout, ReadReady
<1>6. CASE ServerStops BY <1>6 DEF ServerStops
<1>7. CASE ClientStep \/ EndTime \/ Interrupt \/ Break \/ Over \/ UNCHANGED vars
  BY <1>7, ClientLeavesServer
<1> QED BY <1>1, <1>2, <1>3, <1>4, <1>5, <1>6, <1>7 DEF Next, ServerStep

-----------------------------------------------------------------------------
\* Every step of the client takes what it wrote off the amount.
LEMMA AmountStep ==
    ASSUME TypeInv, Places, AmountLeft, ClientStep PROVE AmountLeft'
<1>0. UNCHANGED setup BY ClientLeavesServer
<1> USE TrafficAssumption, SetupFacts, Lengths, <1>0
    DEF TypeInv, Places, AmountLeft, Beyond, ModeAmount, loopVars, tcpVars, IsUdp, IsBurst
<1>1. CASE StartSynch BY <1>1 DEF StartSynch
<1>2. CASE LoopEnds BY <1>2 DEF LoopEnds
<1>3. CASE NewBurst BY <1>3 DEF NewBurst
<1>4. CASE TcpBurstEnds BY <1>4 DEF TcpBurstEnds
<1>5. CASE \E n \in 1 .. BufLen : TcpWriten(n)
  BY <1>5 DEF TcpWriten, Put, Account, LessAmount, Smaller, Room
<1>6. ASSUME NEW n \in 1 .. BufLen, TcpWrite(n) PROVE AmountLeft'
  <2>1. /\ setup.loop = "tcp" /\ cpc = "loop" /\ UNCHANGED <<cpc, part>>
        /\ written' = written + n /\ amount' = LessAmount(n) /\ amount # 0
    BY <1>6 DEF TcpWrite, Put, Account, InProgress
  <2>2. WriteLen \in Int /\ WriteLen <= IF IsBurst THEN BufLen ELSE AmountLen
    BY DEF WriteLen, Smaller
  <2>3. n <= WriteLen BY <1>6, <2>2 DEF TcpWrite, Smaller, Room
  <2> QED BY <2>1, <2>2, <2>3 DEF LessAmount
<1>7. CASE \E n \in 1 .. BufLen : NearWrite(n)
  BY <1>7 DEF NearWrite, Put, LessAmount, NearLen, Smaller, Room, InProgress
<1>8. CASE \E n \in 0 .. BufLen : RateHeader(n)
  BY <1>8 DEF RateHeader, Put, Smaller, Room
<1>9. CASE \E n \in 0 .. BufLen : RateWrite(n)
  BY <1>9 DEF RateWrite, RateReady, RateLen, Put, LessAmount, Smaller, Room, InProgress
<1>10. CASE UdpWrite
  <2>1. /\ IsUdp /\ cpc = "loop" /\ UNCHANGED cpc
        /\ written' = written + AmountLen /\ amount' = LessAmount(AmountLen)
    BY <1>10 DEF UdpWrite
  <2> QED BY <2>1 DEF LessAmount
<1>11. CASE UdpFrame BY <1>11 DEF UdpFrame
<1>12. CASE UdpFrameWrite
  <2>1. /\ IsUdp /\ cpc = "frame" /\ cpc' \in {"frame", "loop"}
        /\ written' = written + FrameLen /\ amount' = LessAmount(FrameLen)
    BY <1>12 DEF UdpFrameWrite
  <2>2. FrameLen \in Nat /\ (ModeAmount => FrameLen <= amount)
    BY <2>1 DEF FrameLen, Smaller
  <2> QED BY <2>1, <2>2 DEF LessAmount
<1>13. CASE FinishTcp BY <1>13 DEF FinishTcp
<1>14. CASE AwaitServerClose BY <1>14 DEF AwaitServerClose
<1>15. CASE FinishUdp
  <2>1. /\ IsUdp /\ cpc = "finish" /\ cpc' = "ended" /\ UNCHANGED amount
        /\ written' \in {written, written + BufLen}
    BY <1>15 DEF FinishUdp
  <2> QED BY <2>1
<1>16. CASE TcpWritenFails BY <1>16 DEF TcpWritenFails, Account, LessAmount
<1>17. CASE TcpWriteFails BY <1>17 DEF TcpWriteFails
<1>18. CASE NearWriteFails BY <1>18 DEF NearWriteFails
<1>19. CASE RateWriteFails BY <1>19 DEF RateWriteFails, RateReady, RateLen, LessAmount
<1>20. CASE UdpWriteFails BY <1>20 DEF UdpWriteFails
<1>21. CASE UdpFrameWriteFails BY <1>21 DEF UdpFrameWriteFails
<1> QED
  BY <1>1, <1>2, <1>3, <1>4, <1>5, <1>6, <1>7, <1>8, <1>9, <1>10, <1>11,
     <1>12, <1>13, <1>14, <1>15, <1>16, <1>17, <1>18, <1>19, <1>20, <1>21 DEF ClientStep

-----------------------------------------------------------------------------
\* A datagram with the next number continues the numbers.
LEMMA NextNumber ==
    ASSUME NEW q, q \in Seq(Int), NEW k \in Int,
           \A i \in 1 .. Len(q) : q[i] = i
    PROVE  /\ Append(q, k) \in Seq(Int) /\ Len(Append(q, k)) = Len(q) + 1
           /\ \A i \in 1 .. Len(q) : Append(q, k)[i] = i
           /\ Append(q, k)[Len(q) + 1] = k
OBVIOUS

\* Every step of the client numbers its datagrams.
LEMMA NumbersStep ==
    ASSUME TypeInv, Places, Numbers, ClientStep PROVE Numbers'
<1>0. UNCHANGED setup BY ClientLeavesServer
<1>1. CASE StartSynch
  <2>1. cpc = "start" /\ cpc' = "loop" /\ UNCHANGED fatalErr BY <1>1 DEF StartSynch
  <2>2. packetID = 1 /\ (setup.loop = "udp" => ~fatalErr)
    BY <2>1 DEF Numbers, Writing
  <2>3. CASE IsUdp /\ sent' = <<packetID>> /\ packetID' = packetID + 1
    <3>1. /\ sent' = <<1>> /\ sent' \in Seq(Int) /\ Len(sent') = 1 /\ sent'[1] = 1
          /\ packetID' = 2
      BY <2>2, <2>3
    <3> QED BY <1>0, <2>1, <2>2, <2>3, <3>1 DEF Numbers, IsUdp
  <2>4. CASE UNCHANGED <<sent, packetID>>
    BY <1>0, <2>1, <2>2, <2>4 DEF Numbers, IsUdp
  <2> QED BY <1>1, <2>3, <2>4 DEF StartSynch
<1>2. CASE UdpWrite \/ UdpFrameWrite
  <2>1. /\ IsUdp /\ Writing /\ cpc' \in {"loop", "frame"} /\ cpc # "ended"
        /\ sent' = Append(sent, packetID)
        /\ packetID' = packetID + 1 /\ UNCHANGED fatalErr
    BY <1>2, SetupFacts DEF UdpWrite, UdpFrameWrite, IsUdp, Places, TypeInv, Writing
  <2>2. /\ sent \in Seq(Int) /\ packetID = Len(sent) + 1
        /\ \A i \in 1 .. Len(sent) : sent[i] = i
        /\ setup.loop = "udp" => ~fatalErr
    BY <2>1 DEF Numbers
  <2>3. /\ sent' \in Seq(Int) /\ Len(sent') = Len(sent) + 1 /\ Len(sent) \in Nat
        /\ \A i \in 1 .. Len(sent) : sent'[i] = i
        /\ sent'[Len(sent) + 1] = Len(sent) + 1
    BY <2>1, <2>2, NextNumber
  <2>4. \A i \in 1 .. Len(sent') : sent'[i] = i BY <2>3
  <2> QED BY <1>0, <2>1, <2>2, <2>3, <2>4 DEF Numbers, IsUdp
<1>3. CASE FinishUdp
  <2>1. /\ IsUdp /\ cpc = "finish" /\ cpc' = "ended" /\ UNCHANGED <<packetID, fatalErr>>
        /\ sent' = Append(sent, -packetID) \/ sent' = sent
    BY <1>3 DEF FinishUdp, loopVars
  <2>2. /\ sent \in Seq(Int) /\ Len(sent) \in Nat
        /\ \A i \in 1 .. Len(sent) : sent[i] = i
        /\ \/ packetID = Len(sent) + 1
           \/ fatalErr /\ setup.loop = "udp" /\ packetID = Len(sent)
    BY <2>1 DEF Numbers
  <2>3. CASE sent' = sent
    BY <1>0, <2>1, <2>2, <2>3 DEF Numbers, UdpNumbers, IsUdp, Writing
  <2>4. CASE sent' = Append(sent, -packetID)
    <3>1. /\ sent' \in Seq(Int) /\ Len(sent') = Len(sent) + 1
          /\ \A i \in 1 .. Len(sent) : sent'[i] = i
          /\ sent'[Len(sent) + 1] = -packetID
      BY <2>2, <2>4, NextNumber DEF TypeInv
    <3>2. UdpNumbers' BY <1>0, <2>1, <2>2, <3>1 DEF UdpNumbers
    <3> QED BY <1>0, <2>1, <3>1, <3>2 DEF Numbers, IsUdp, Writing
  <2> QED BY <2>1, <2>3, <2>4
<1>4. CASE FinishTcp \/ AwaitServerClose
  <2>1. /\ cpc \in {"finish", "await"} /\ cpc' \in {"await", "ended"}
        /\ ~IsUdp /\ UNCHANGED <<sent, packetID, fatalErr>>
    BY <1>4 DEF FinishTcp, AwaitServerClose, loopVars, Places
  <2>2. sent = <<>> BY <2>1 DEF Numbers
  <2> QED BY <1>0, <2>1, <2>2 DEF Numbers, UdpNumbers, IsUdp, Writing
<1>5. CASE UdpWriteFails
  <2>1. /\ cpc = "loop" /\ UNCHANGED sent /\ setup.loop = "udp"
        /\ \/ UNCHANGED <<packetID, cpc, fatalErr>>
           \/ packetID' = packetID - 1 /\ cpc' = "finish" /\ fatalErr' = TRUE
    BY <1>5 DEF UdpWriteFails
  <2>2. ~fatalErr /\ packetID = Len(sent) + 1 /\ Len(sent) \in Nat
    BY <2>1 DEF Numbers, Writing
  <2> QED BY <1>0, <2>1, <2>2 DEF Numbers, IsUdp, Writing
<1>6. CASE UdpFrameWriteFails \/ TcpWriteFails \/ NearWriteFails \/ RateWriteFails
  <2>1. /\ setup.loop # "udp" /\ UNCHANGED <<sent, packetID>>
        /\ cpc \in {"loop", "frame", "body"} /\ cpc' \in {"loop", "frame", "finish", "body"}
    BY <1>6 DEF UdpFrameWriteFails, TcpWriteFails, NearWriteFails, RateWriteFails,
       RateReady, Places
  <2> QED BY <1>0, <2>1 DEF Numbers, IsUdp, Writing
<1>7. CASE \/ LoopEnds \/ NewBurst \/ TcpBurstEnds \/ UdpFrame \/ TcpWritenFails
           \/ \E n \in 1 .. BufLen : TcpWriten(n) \/ TcpWrite(n) \/ NearWrite(n)
           \/ \E n \in 0 .. BufLen : RateHeader(n) \/ RateWrite(n)
  <2>1. /\ UNCHANGED <<sent, packetID, fatalErr>> /\ cpc # "ended" /\ Writing
        /\ cpc' \notin {"ended", "start"}
    BY <1>7 DEF LoopEnds, NewBurst, TcpBurstEnds, UdpFrame, TcpWritenFails, TcpWriten,
       TcpWrite, NearWrite, RateHeader, RateWrite, RateReady, Writing, loopVars, Account
  <2> QED BY <1>0, <2>1 DEF Numbers, IsUdp, Writing
<1> QED BY <1>1, <1>2, <1>3, <1>4, <1>5, <1>6, <1>7 DEF ClientStep

-----------------------------------------------------------------------------
\* A burst at hand ends where or behind the place that is written next.
LEMMA FrontierAhead ==
    ASSUME TypeInv, Places, IsBurst, Writing
    PROVE  Frontier \in Int /\ Frontier >= written
BY TrafficAssumption, SetupFacts
   DEF TypeInv, Places, Frontier, IsBurst, Writing, IsUdp

\* A step that begins no burst, and leaves the place of the next one where it
\* was or writes no more, keeps the chain.
LEMMA ChainKept ==
    ASSUME TypeInv, Places, BurstChain, IsBurst, ~torn,
           UNCHANGED <<setup, spc, taken, nleft, misread, starts>>,
           written' \in Int,
           IF Writing' THEN Writing /\ Frontier' = Frontier
           ELSE written' = written
    PROVE  BurstChain'
<1>1. ASSUME NEW p \in Int, Begins(p) PROVE Begins(p)'
  <2>1. CASE \E s \in starts : s.at = p BY <2>1 DEF Begins
  <2>2. CASE Writing' /\ ~\E s \in starts : s.at = p BY <1>1, <2>2 DEF Begins
  <2>3. CASE ~Writing' /\ ~\E s \in starts : s.at = p
    <3>1. p >= written BY <1>1, <2>3, FrontierAhead DEF Begins, TypeInv
    <3> QED BY <2>3, <3>1 DEF Begins
  <2> QED BY <2>1, <2>2, <2>3
<1>2. ASSUME NEW s \in starts
      PROVE  /\ s.at \in Nat /\ s.size \in Nat /\ Hdr <= s.size
             /\ Begins(s.at + s.size)'
  <2>1. s.at \in Nat /\ s.size \in Nat /\ Hdr <= s.size /\ Begins(s.at + s.size)
    BY DEF BurstChain
  <2> QED BY <1>1, <2>1
<1>3. ASSUME spc # "closed" PROVE nleft \in Nat /\ Begins(taken + nleft)'
  <2>1. nleft \in Nat /\ Begins(taken + nleft) BY <1>3 DEF BurstChain
  <2> QED BY <1>1, <2>1 DEF TypeInv
<1> QED BY <1>2, <1>3 DEF BurstChain, IsBurst

\* A step that begins a burst at the place of the next one keeps the chain.
LEMMA ChainGrows ==
    ASSUME TypeInv, Places, BurstChain, IsBurst, ~torn,
           UNCHANGED <<setup, spc, taken, nleft, misread>>,
           Writing, Writing', Frontier = written,
           NEW k \in Nat, Hdr <= k, Frontier' = written + k,
           starts' = starts \cup {[at |-> written, size |-> k]}
    PROVE  BurstChain'
<1>1. ASSUME NEW p \in Int, Begins(p) PROVE Begins(p)'
  <2>1. CASE \E s \in starts : s.at = p BY <2>1 DEF Begins
  <2>2. CASE p = written
    <3>1. [at |-> written, size |-> k] \in starts' /\ [at |-> written, size |-> k].at = p
      BY <2>2
    <3> QED BY <3>1 DEF Begins
  <2> QED BY <1>1, <2>1, <2>2 DEF Begins
<1>2. ASSUME NEW s \in starts
      PROVE  /\ s.at \in Nat /\ s.size \in Nat /\ Hdr <= s.size
             /\ Begins(s.at + s.size)'
  <2>1. s.at \in Nat /\ s.size \in Nat /\ Hdr <= s.size /\ Begins(s.at + s.size)
    BY DEF BurstChain
  <2> QED BY <1>1, <2>1
<1>3. ASSUME NEW s \in starts', s \notin starts
      PROVE  /\ s.at \in Nat /\ s.size \in Nat /\ Hdr <= s.size
             /\ Begins(s.at + s.size)'
  <2>1. s.at = written /\ s.size = k BY <1>3
  <2> QED BY <2>1 DEF TypeInv, Begins
<1>4. ASSUME spc # "closed" PROVE nleft \in Nat /\ Begins(taken + nleft)'
  <2>1. nleft \in Nat /\ Begins(taken + nleft) BY <1>4 DEF BurstChain
  <2> QED BY <1>1, <2>1 DEF TypeInv
<1> QED BY <1>2, <1>3, <1>4 DEF BurstChain, IsBurst

\* Every step of the client keeps the chain of bursts.
LEMMA ClientChain ==
    ASSUME TypeInv, Places, BurstChain, ClientStep PROVE BurstChain'
<1>1. UNCHANGED <<setup, spc, taken, nleft, misread>> BY ClientLeavesServer
<1>2. TypeInv' BY ClientType
<1>3. written' \in Int BY <1>2 DEF TypeInv
<1>4. torn => torn'
  BY DEF ClientStep, StartSynch, LoopEnds, NewBurst, TcpBurstEnds, TcpWriten,
     TcpWrite, NearWrite, RateHeader, RateWrite, UdpWrite, UdpFrame, UdpFrameWrite,
     FinishTcp, AwaitServerClose, FinishUdp, TcpWritenFails, TcpWriteFails,
     NearWriteFails, RateWriteFails, UdpWriteFails, UdpFrameWriteFails, tcpVars
<1> SUFFICES ASSUME ~torn', IsBurst PROVE BurstChain'
  BY <1>1 DEF BurstChain, IsBurst
<1>5. ~torn BY <1>4
<1>6. ~IsUdp BY SetupFacts DEF TypeInv, IsBurst
<1>7. ASSUME UNCHANGED starts,
             IF Writing' THEN Writing /\ Frontier' = Frontier ELSE written' = written
      PROVE  BurstChain'
  BY <1>1, <1>3, <1>5, <1>7, ChainKept
<1>8. ASSUME Writing, Writing', Frontier = written, NEW k \in Nat, Hdr <= k,
             Frontier' = written + k,
             starts' = starts \cup {[at |-> written, size |-> k]}
      PROVE  BurstChain'
  BY <1>1, <1>5, <1>8, ChainGrows
<1> USE TrafficAssumption, SetupFacts, <1>1 DEF TypeInv, Places
<1>10. CASE StartSynch
  BY <1>10, <1>6, <1>7 DEF StartSynch, Writing, Frontier
<1>11. CASE \/ LoopEnds \/ TcpBurstEnds \/ FinishTcp \/ AwaitServerClose
  <2>1. UNCHANGED <<starts, written>> /\ ~Writing'
    BY <1>6, <1>11 DEF LoopEnds, TcpBurstEnds, FinishTcp, AwaitServerClose, Writing,
       tcpVars, IsUdp
  <2> QED BY <1>7, <2>1
<1>12. CASE NewBurst
  <2>1. /\ cpc = "loop" /\ burstLeft = 0 /\ cpc' = "header" /\ part' = 0
        /\ UNCHANGED <<starts, written>>
    BY <1>6, <1>12 DEF NewBurst, tcpVars
  <2> QED BY <1>7, <2>1 DEF Writing, Frontier
<1>13. ASSUME NEW n \in 1 .. BufLen, TcpWriten(n) PROVE BurstChain'
  <2>1. /\ cpc = "header" /\ setup.loop = "tcp" /\ written' = written + n
        /\ \/ cpc' = "loop" /\ burstLeft' = burstLeft - (part + n)
           \/ UNCHANGED <<cpc, burstLeft>> /\ part' = part + n
    BY <1>13 DEF TcpWriten, Account, Put, IsBurst
  <2>2. Writing /\ Writing' BY <2>1 DEF Writing
  <2>3. CASE part = 0
    <3>1. starts' = starts \cup {[at |-> written, size |-> burstLeft]}
      BY <1>13, <2>3 DEF TcpWriten, Put
    <3>2. Frontier = written /\ Frontier' = written + burstLeft
      BY <2>1, <2>3 DEF Frontier
    <3>3. burstLeft \in Nat /\ Hdr <= burstLeft BY <2>1
    <3> QED BY <1>8, <2>2, <3>1, <3>2, <3>3
  <2>4. CASE part # 0
    <3>1. UNCHANGED starts BY <1>13, <2>4 DEF TcpWriten, Put
    <3>2. Frontier' = Frontier BY <2>1, <2>4 DEF Frontier
    <3> QED BY <1>7, <2>2, <3>1, <3>2
  <2> QED BY <2>3, <2>4
<1>14. ASSUME NEW n \in 1 .. BufLen, TcpWrite(n) PROVE BurstChain'
  <2>1. /\ cpc = "loop" /\ setup.loop = "tcp" /\ UNCHANGED <<cpc, part, starts>>
        /\ written' = written + n /\ burstLeft' = burstLeft - n
    BY <1>14 DEF TcpWrite, Account, Put
  <2> QED BY <1>7, <2>1 DEF Writing, Frontier
<1>15. ASSUME NEW n \in 1 .. BufLen, NearWrite(n) PROVE BurstChain'
  <2>1. /\ cpc = "loop" /\ setup.loop = "near" /\ UNCHANGED cpc
        /\ written' = written + n /\ burstLeft' = NearLeft - n
        /\ starts' = IF NearLeft = BufLen
                     THEN starts \cup {[at |-> written, size |-> BufLen]} ELSE starts
    BY <1>15 DEF NearWrite, Put
  <2>2. Writing /\ Writing' BY <2>1 DEF Writing
  <2>3. CASE NearLeft = BufLen
    <3>1. Frontier = written /\ Frontier' = written + BufLen
      BY <2>1, <2>3 DEF Frontier, NearLeft
    <3> QED BY <1>8, <2>1, <2>2, <2>3, <3>1
  <2>4. CASE NearLeft # BufLen
    <3>1. Frontier' = Frontier BY <1>6, <2>1, <2>4 DEF Frontier, NearLeft
    <3> QED BY <1>7, <2>1, <2>2, <2>4, <3>1
  <2> QED BY <2>3, <2>4
<1>16. CASE NearWriteFails
  <2>1. /\ cpc = "loop" /\ setup.loop = "near" /\ cpc' \in {"loop", "finish"}
        /\ burstLeft' = NearLeft /\ UNCHANGED <<starts, written>>
    BY <1>16 DEF NearWriteFails, tcpVars
  <2>2. Frontier' = Frontier \/ cpc' = "finish" BY <2>1 DEF Frontier, NearLeft
  <2> QED BY <1>7, <2>1, <2>2 DEF Writing
<1>17. ASSUME NEW n \in 0 .. BufLen, RateHeader(n) PROVE BurstChain'
  <2>1. /\ cpc = "header" /\ setup.loop = "rate" /\ burstLeft = BufLen
        /\ \/ n > 0 /\ part' = part + n /\ cpc' = "body" /\ burstLeft' = BufLen - part'
           \/ n > 0 /\ part' = part + n /\ UNCHANGED <<cpc, burstLeft>>
           \/ n = 0 /\ UNCHANGED part /\ cpc' = "body" /\ burstLeft' = BufLen - part
        /\ written' = written + n
    BY <1>17 DEF RateHeader, Put
  <2>2. starts' = IF part = 0 /\ n > 0
                  THEN starts \cup {[at |-> written, size |-> BufLen]} ELSE starts
    BY <1>17 DEF RateHeader, Put
  <2>3. Writing /\ Writing' BY <2>1 DEF Writing
  <2>4. CASE part = 0 /\ n > 0
    <3>1. Frontier = written /\ Frontier' = written + BufLen
      BY <2>1, <2>4 DEF Frontier
    <3> QED BY <1>8, <2>2, <2>3, <2>4, <3>1
  <2>5. CASE ~(part = 0 /\ n > 0)
    <3>1. Frontier' = Frontier BY <2>1, <2>5 DEF Frontier
    <3> QED BY <1>7, <2>2, <2>3, <2>5, <3>1
  <2> QED BY <2>4, <2>5
<1>18. ASSUME NEW n \in 0 .. BufLen, RateWrite(n) PROVE BurstChain'
  <2>1. setup.loop = "rate" /\ setup.burst = "trip"
    BY <1>18 DEF RateWrite, RateReady, IsBurst
  <2>2. /\ cpc \in {"loop", "body"} /\ cpc' = "loop"
        /\ written' = written + n /\ burstLeft' = burstLeft - n
        /\ starts' = IF burstLeft = BufLen /\ n > 0
                     THEN starts \cup {[at |-> written, size |-> BufLen]} ELSE starts
    BY <1>18, <2>1 DEF RateWrite, RateReady, Put
  <2>3. Writing /\ Writing' BY <2>2 DEF Writing
  <2>4. CASE burstLeft = BufLen /\ n > 0
    <3>1. Frontier = written /\ Frontier' = written + BufLen
      BY <2>1, <2>2, <2>4 DEF Frontier
    <3> QED BY <1>8, <2>2, <2>3, <2>4, <3>1
  <2>5. CASE ~(burstLeft = BufLen /\ n > 0)
    <3>1. Frontier' = Frontier BY <1>6, <2>1, <2>2, <2>5 DEF Frontier
    <3> QED BY <1>7, <2>2, <2>3, <2>5, <3>1
  <2> QED BY <2>4, <2>5
<1>19. CASE RateWriteFails
  <2>1. /\ cpc \in {"loop", "body"} /\ cpc' \in {"loop", "finish"}
        /\ UNCHANGED <<starts, written, burstLeft>>
    BY <1>19 DEF RateWriteFails, RateReady, tcpVars
  <2> QED BY <1>7, <2>1 DEF Writing, Frontier
<1>20. CASE TcpWritenFails
  <2>1. /\ cpc = "header" /\ setup.loop = "tcp" /\ UNCHANGED <<starts, written>>
        /\ \/ cpc' = "stopped"
           \/ cpc' = "loop" /\ part > 0 /\ burstLeft' = burstLeft - part
    BY <1>20 DEF TcpWritenFails, Account, tcpVars
  <2> QED BY <1>7, <2>1 DEF Writing, Frontier
<1>21. CASE TcpWriteFails
  <2>1. /\ cpc = "loop" /\ cpc' \in {"loop", "finish"}
        /\ UNCHANGED <<starts, written, burstLeft>>
    BY <1>21 DEF TcpWriteFails, tcpVars
  <2> QED BY <1>7, <2>1 DEF Writing, Frontier
<1>22. ~(\/ UdpWrite \/ UdpFrame \/ UdpFrameWrite \/ FinishUdp \/ UdpWriteFails
         \/ UdpFrameWriteFails)
  BY <1>6 DEF UdpWrite, UdpFrame, UdpFrameWrite, FinishUdp, UdpWriteFails,
     UdpFrameWriteFails, IsUdp
<1> QED
  BY <1>10, <1>11, <1>12, <1>13, <1>14, <1>15, <1>16, <1>17, <1>18, <1>19, <1>20,
     <1>21, <1>22 DEF ClientStep

\* Every read keeps the reader's place in the chain.
LEMMA ReadsInChain ==
    ASSUME TypeInv, Places, BurstChain,
           \/ ServerStep \/ RecvTimeout \/ ServerStops \/ EndTime \/ Interrupt
           \/ Break \/ Over \/ UNCHANGED vars
    PROVE  BurstChain'
<1>1. UNCHANGED <<setup, cpc, burstLeft, part, written, starts, torn>> BY OthersStep
<1> SUFFICES ASSUME ~torn, IsBurst PROVE BurstChain'
  BY <1>1 DEF BurstChain, IsBurst
<1>2. \A p : Begins(p)' <=> Begins(p) BY <1>1 DEF Begins, Writing, Frontier
<1>3. /\ \A s \in starts' : /\ s.at \in Nat /\ s.size \in Nat /\ Hdr <= s.size
                            /\ Begins(s.at + s.size)'
      /\ spc # "closed" => nleft \in Nat /\ Begins(taken + nleft)
      /\ spc = "recv" => nleft > 0
      /\ ~misread
  BY <1>1, <1>2 DEF BurstChain
<1>4. ASSUME spc' # "closed" => nleft' \in Nat /\ Begins(taken' + nleft'),
             spc' = "recv" => nleft' > 0, ~misread'
      PROVE  BurstChain'
  BY <1>2, <1>3, <1>4 DEF BurstChain
<1> USE TrafficAssumption DEF TypeInv
<1>5. CASE ReadHeader
  <2>1. /\ spc = "loop" /\ nleft = 0 /\ taken < written /\ taken' = taken + Hdr
        /\ nleft' \in {b - Hdr : b \in HeaderAt(taken)}
        /\ misread' = (misread \/ ~\E s \in starts : s.at = taken)
        /\ IF nleft' = 0 THEN spc' \in {"loop", "closed"} ELSE spc' = "recv"
    BY <1>5 DEF ReadHeader, Avail
  <2>2. \E s \in starts : s.at = taken
    <3>1. Begins(taken) BY <1>3, <2>1
    <3> QED BY <2>1, <3>1, FrontierAhead DEF Begins
  <2>3. HeaderAt(taken) = {s.size : s \in {t \in starts : t.at = taken}}
    BY <2>2 DEF HeaderAt
  <2>4. PICK s \in starts : s.at = taken /\ nleft' = s.size - Hdr BY <2>1, <2>3
  <2>5. s.size \in Nat /\ Hdr <= s.size /\ Begins(s.at + s.size) BY <1>1, <1>2, <1>3
  <2>6. nleft' \in Nat /\ taken' + nleft' = s.at + s.size BY <2>1, <2>4, <2>5
  <2>7. ~misread' BY <1>3, <2>1, <2>2
  <2> QED BY <1>4, <2>1, <2>5, <2>6, <2>7
<1>6. CASE ReadHeaderEnds BY <1>3, <1>4, <1>6 DEF ReadHeaderEnds
<1>7. CASE RecvCloses BY <1>3, <1>4, <1>7 DEF RecvCloses
<1>8. ASSUME NEW n \in 1 .. BufLen, Recv(n) PROVE BurstChain'
  <2>1. /\ spc # "closed" /\ spc' \in {"loop", "closed"} /\ taken' = taken + n
        /\ nleft' = nleft - n /\ UNCHANGED misread
    BY <1>8 DEF Recv, ReadReady
  <2>2. nleft \in Nat /\ nleft > 0 BY <1>3, <1>8, <2>1 DEF Recv, ReadReady
  <2>3. n <= nleft BY <1>8, <2>2 DEF Recv, Smaller, Avail
  <2>4. nleft' \in Nat /\ taken' + nleft' = taken + nleft BY <2>1, <2>2, <2>3
  <2> QED BY <1>3, <1>4, <2>1, <2>4
<1>9. CASE RecvTimeout \/ ServerStops
  <2>1. /\ spc # "closed" /\ spc' \in {"loop", "closed"}
        /\ UNCHANGED <<taken, nleft, misread>>
    BY <1>9 DEF RecvTimeout, ServerStops, ReadReady
  <2> QED BY <1>3, <1>4, <2>1
<1>10. CASE EndTime \/ Interrupt \/ Break \/ Over \/ UNCHANGED vars
  <2>1. UNCHANGED <<spc, taken, nleft, misread>> BY <1>10, ClientLeavesServer
  <2> QED BY <1>3, <1>4, <2>1
<1> QED BY <1>5, <1>6, <1>7, <1>8, <1>9, <1>10 DEF ServerStep

-----------------------------------------------------------------------------
TrafficInv ==
    /\ TypeInv /\ Places /\ ClientBytes /\ ServerBytes /\ AmountLeft /\ BurstChain
    /\ Numbers

\* Both ends of a test, through all their loops, keep the invariant.
THEOREM TrafficInvariant == Spec => []TrafficInv
<1>1. Init => TrafficInv
  <2> SUFFICES ASSUME Init PROVE TrafficInv OBVIOUS
  <2>1. TypeInv
    BY TrafficAssumption, SetupFacts DEF Init, TypeInv, ModeAmount
  <2> USE TrafficAssumption, SetupFacts DEF Init, TypeInv
  <2>2. Places BY DEF Places, Writing, IsUdp
  <2>3. ClientBytes BY DEF ClientBytes, ClientTotal
  <2>4. ServerBytes BY DEF ServerBytes
  <2>5. AmountLeft BY <2>1 DEF AmountLeft, Beyond, ModeAmount, IsUdp, IsBurst
  <2>6. BurstChain BY DEF BurstChain, Begins, Writing, Frontier
  <2>7. Numbers BY DEF Numbers, Writing
  <2> QED BY <2>1, <2>2, <2>3, <2>4, <2>5, <2>6, <2>7 DEF TrafficInv
<1>2. TrafficInv /\ [Next]_vars => TrafficInv'
  <2> SUFFICES ASSUME TrafficInv, [Next]_vars PROVE TrafficInv' OBVIOUS
  <2>1. CASE ClientStep
    BY <2>1, ClientType, ClientPlaces, ClientBytesStep, ServerBytesStep, AmountStep,
       ClientChain, NumbersStep DEF TrafficInv
  <2>2. CASE \/ ServerStep \/ RecvTimeout \/ ServerStops \/ EndTime \/ Interrupt
             \/ Break \/ Over \/ UNCHANGED vars
    <3>1. TypeInv' /\ ServerBytes' /\ BurstChain'
      BY <2>2, OthersType, ServerBytesStep, ReadsInChain DEF TrafficInv
    <3>2. UNCHANGED <<setup, cpc, burstLeft, part, amount, totLen, packetLen, packetID,
                      fatalErr, written, sent, reported>>
      BY <2>2, OthersStep
    <3>3. Places' BY <3>2 DEF TrafficInv, Places, Writing, IsUdp, IsBurst
    <3>4. ClientBytes'
      BY <3>2 DEF TrafficInv, ClientBytes, ClientTotal, LeftOver, IsUdp
    <3>5. AmountLeft'
      BY <3>2 DEF TrafficInv, AmountLeft, Beyond, ModeAmount, IsUdp, IsBurst
    <3>6. Numbers' BY <3>2 DEF TrafficInv, Numbers, UdpNumbers, Writing, IsUdp
    <3> QED BY <3>1, <3>3, <3>4, <3>5, <3>6 DEF TrafficInv
  <2> QED BY <2>1, <2>2 DEF Next
<1> QED BY <1>1, <1>2, PTL DEF Spec

\* At the end of a test both ends have told the reporter of the bytes that went
\* through their socket, however these were cut, and -n was kept.
THEOREM BytesRightAlways == Spec => []BytesRight
<1>1. TrafficInv => BytesRight
  <2> SUFFICES ASSUME TrafficInv PROVE BytesRight OBVIOUS
  <2>1. ClientTotal /\ ServerTotal
    BY DEF TrafficInv, ClientBytes, ServerBytes, ServerTotal
  <2>2. AmountKept
    BY TrafficAssumption, SetupFacts
       DEF TrafficInv, TypeInv, AmountLeft, AmountKept, Beyond, IsUdp
  <2> QED BY <2>1, <2>2 DEF BytesRight
<1> QED BY <1>1, TrafficInvariant, PTL

\* The server takes for a burst header only what RunTCP, RunNearCongestionTCP or
\* RunRateLimitedTCP wrote as one, unless they tore a header.
THEOREM BurstsAlignedAlways == Spec => []BurstsAligned
<1>1. TrafficInv => BurstsAligned
  BY DEF TrafficInv, ServerBytes, BurstChain, BurstsAligned
<1> QED BY <1>1, TrafficInvariant, PTL

\* Datagrams are numbered 1, 2, ... through all errors, and the final one has the
\* next number, negative.
THEOREM UdpNumbersAlways == Spec => []UdpNumbers
<1>1. TrafficInv => UdpNumbers BY DEF TrafficInv, Numbers, UdpNumbers
<1> QED BY <1>1, TrafficInvariant, PTL
=============================================================================
