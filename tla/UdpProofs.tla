----------------------------- MODULE UdpProofs ------------------------------
(***************************************************************************)
(* Proofs about the two ends of a UDP flow.                                *)
(*                                                                         *)
(* The accounting of the server (UdpAccounting), for any number of         *)
(* datagrams, sequence numbers, read timeouts and L2 errors: the           *)
(* invariants of the totals and of what was set aside at the last interval *)
(* are inductive together (AccInv).                                        *)
(*                                                                         *)
(* The final handshake (UdpFin), for any number of datagrams, retries,     *)
(* AckFINs and server threads, over a network that loses, repeats and      *)
(* reorders, with server threads that stop by themselves.  AckAfterFin     *)
(* alone is not inductive: it needs that a datagram with a negative number *)
(* is nowhere in the network before the client has sent one (FinInv).      *)
(***************************************************************************)
EXTENDS UdpAccounting, UdpFin, TLAPS

-----------------------------------------------------------------------------
\* The accounting of the server.

\* The totals never fall below what the last interval set aside, and the
\* scratchpad's number is one that was accounted for.
Monotone ==
    /\ packetID <= PacketID
    /\ prev.Lost <= Lost
    /\ prev.OutofOrder <= OutofOrder
    /\ prev.Datagrams <= PacketID
    /\ prev.Bytes <= Bytes

\* LossIsGap for the current interval; an inequality, because what arrived in
\* this interval is not told from what did in earlier ones.  Without bytes in it
\* nothing was lost in it.
IntervalGap ==
    /\ Lost - prev.Lost - (OutofOrder - prev.OutofOrder) <= PacketID - prev.Datagrams
    /\ Bytes = prev.Bytes => Lost = prev.Lost

\* Before the final report the sum report holds what was set aside, the errors
\* of the intervals cover it, and nothing was kept from print.
SumSoFar ==
    ~final =>
        /\ sum.Lost = prev.Lost
        /\ sum.OutofOrder = prev.OutofOrder
        /\ sum.Datagrams = prev.Datagrams
        /\ prev.Lost - prev.OutofOrder <= errors
        /\ unshown = NothingUnshown

AccInv ==
    /\ TypeOK
    /\ LossIsGap
    /\ Monotone
    /\ IntervalGap
    /\ SumSoFar
    /\ LossBounded
    /\ SumComplete
    /\ IntervalsCoverTotal
    /\ L2Adds

-----------------------------------------------------------------------------
\* An interval report shows non-negative counts, no more lost than there were,
\* and leaves the sum report and the errors right.
LEMMA IntervalReportRight ==
    ASSUME AccInv, ~final, IntervalReport
    PROVE  /\ report' \in Counts
           /\ report'.Lost <= report'.Datagrams
           /\ errors' \in Nat
           /\ Lost - OutofOrder <= errors'
           /\ sum' = [Lost |-> Lost, OutofOrder |-> OutofOrder, Datagrams |-> PacketID]
           /\ prev' = [Lost |-> Lost, OutofOrder |-> OutofOrder,
                       Datagrams |-> PacketID, Bytes |-> Bytes]
<1> USE DEF AccInv, TypeOK, Counts
<1>1. /\ report' = [Lost |-> AtLeast0(Lost - prev.Lost - (OutofOrder - prev.OutofOrder)),
                    OutofOrder |-> OutofOrder - prev.OutofOrder,
                    Datagrams |-> PacketID - prev.Datagrams]
      /\ errors' = errors + report'.Lost
  BY DEF IntervalReport, IntervalCounts
<1>2. /\ AtLeast0(Lost - prev.Lost - (OutofOrder - prev.OutofOrder)) \in Nat
      /\ Lost - prev.Lost - (OutofOrder - prev.OutofOrder)
            <= AtLeast0(Lost - prev.Lost - (OutofOrder - prev.OutofOrder))
      /\ AtLeast0(Lost - prev.Lost - (OutofOrder - prev.OutofOrder))
            <= PacketID - prev.Datagrams
  BY DEF AtLeast0, Monotone, IntervalGap
<1>3. /\ OutofOrder - prev.OutofOrder \in Nat
      /\ PacketID - prev.Datagrams \in Nat
  BY DEF Monotone
<1>4. errors' \in Nat /\ Lost - OutofOrder <= errors'
  BY <1>1, <1>2 DEF SumSoFar
<1>5. sum' = [Lost |-> Lost, OutofOrder |-> OutofOrder, Datagrams |-> PacketID]
  BY DEF IntervalReport, AddToSum, SumSoFar
<1>6. prev' = [Lost |-> Lost, OutofOrder |-> OutofOrder,
               Datagrams |-> PacketID, Bytes |-> Bytes]
  BY DEF IntervalReport, ResetTransferStats
<1> QED BY <1>1, <1>2, <1>3, <1>4, <1>5, <1>6

\* The accounting of a sequence number moves the gap by one.
LEMMA CountDatagramRight ==
    ASSUME TypeOK, NEW id \in Nat, CountDatagram(id)
    PROVE  /\ PacketID' \in Nat /\ Lost' \in Nat /\ OutofOrder' \in Nat
           /\ PacketID <= PacketID' /\ Lost <= Lost' /\ OutofOrder <= OutofOrder'
           /\ id <= PacketID'
           /\ Lost' - OutofOrder' = Lost - OutofOrder + (PacketID' - PacketID) - 1
           /\ id <= PacketID => Lost' = Lost /\ PacketID' = PacketID
BY DEF TypeOK, CountDatagram

\* A packet leaves the reports, the sum and what is set aside in one of two
\* ways: untouched, or after an interval report, whatever its own accounting.
LEMMA BoundaryRight ==
    ASSUME AccInv, ~final, NEW boundary \in BOOLEAN,
           AtBoundary(boundary)
    PROVE  /\ prev' \in [Lost : Nat, OutofOrder : Nat, Datagrams : Nat, Bytes : Nat]
           /\ sum' \in Counts /\ report' \in Counts /\ errors' \in Nat
           /\ report'.Lost <= report'.Datagrams
           /\ prev'.Lost <= Lost /\ prev'.OutofOrder <= OutofOrder
           /\ prev'.Datagrams <= PacketID /\ prev'.Bytes <= Bytes
           /\ Lost - prev'.Lost - (OutofOrder - prev'.OutofOrder)
                 <= PacketID - prev'.Datagrams
           /\ Bytes = prev'.Bytes => Lost = prev'.Lost
           /\ sum'.Lost = prev'.Lost
           /\ sum'.OutofOrder = prev'.OutofOrder
           /\ sum'.Datagrams = prev'.Datagrams
           /\ prev'.Lost - prev'.OutofOrder <= errors'
<1>1. CASE boundary
  <2>1. IntervalReport BY <1>1 DEF AtBoundary
  <2> QED BY <2>1, IntervalReportRight DEF AccInv, TypeOK, Counts
<1>2. CASE ~boundary
  BY <1>2 DEF AtBoundary, AccInv, TypeOK, Monotone, IntervalGap, SumSoFar, LossBounded
<1> QED BY <1>1, <1>2

\* What L2_processing can find: a frame that is not the flow's has a wrong
\* checksum too, and an error is one of length or checksum.
FoundErrors(e) ==
    /\ e.unknown => e.csum
    /\ e # NoErrors => e.length \/ e.csum

\* The L2 checks find errors only with a cause.
LEMMA L2ErrorsRight ==
    ASSUME NEW e \in AnyErrors
    PROVE  FoundErrors(e)
<1> PICK lengthOk, csumOk, known \in BOOLEAN : e = L2Errors(lengthOk, csumOk, known)
  BY DEF AnyErrors
<1>1. CASE lengthOk /\ csumOk
  BY <1>1, Zenon DEF FoundErrors, L2Errors, NoErrors
<1>2. CASE ~(lengthOk /\ csumOk)
  BY <1>2 DEF FoundErrors, L2Errors
<1> QED BY <1>1, <1>2

\* One frame more keeps the relations between the counts of errors.
LEMMA AddL2Right ==
    ASSUME NEW counts \in L2Counts, NEW e \in AnyErrors, e # NoErrors,
           counts.unknown <= counts.udpcsumerr,
           counts.cnt <= counts.lengtherr + counts.udpcsumerr
    PROVE  LET c == AddL2(counts, e)
           IN  /\ c \in L2Counts
               /\ c.cnt = counts.cnt + 1
               /\ c.unknown <= c.udpcsumerr
               /\ c.cnt <= c.lengtherr + c.udpcsumerr
<1>1. /\ One(e.unknown) \in Nat /\ One(e.length) \in Nat /\ One(e.csum) \in Nat
      /\ One(e.unknown) <= One(e.csum)
      /\ 1 <= One(e.length) + One(e.csum)
  BY L2ErrorsRight DEF One, FoundErrors
<1> QED BY <1>1 DEF AddL2, L2Counts

\* The L2 counts after a packet: those of the interval and of the interval
\* reports still add up to the total.
LEMMA CountL2Right ==
    ASSUME AccInv, ~final, NEW boundary \in BOOLEAN, NEW accounted \in BOOLEAN,
           NEW e \in AnyErrors, AtBoundary(boundary), CountL2(e, boundary, accounted)
    PROVE  /\ l2' \in L2Counts /\ totl2' \in L2Counts /\ l2errors' \in Nat
           /\ l2errors' + l2'.cnt = totl2'.cnt
           /\ \A c \in {l2', totl2'} :
                 c.unknown <= c.udpcsumerr /\ c.cnt <= c.lengtherr + c.udpcsumerr
<1> DEFINE counts == IF boundary THEN NoL2 ELSE l2
<1>1. /\ l2 \in L2Counts /\ totl2 \in L2Counts /\ l2errors \in Nat
      /\ l2errors + l2.cnt = totl2.cnt
      /\ l2.unknown <= l2.udpcsumerr /\ l2.cnt <= l2.lengtherr + l2.udpcsumerr
      /\ totl2.unknown <= totl2.udpcsumerr /\ totl2.cnt <= totl2.lengtherr + totl2.udpcsumerr
  BY DEF AccInv, TypeOK, L2Adds
<1>2. /\ counts \in L2Counts /\ l2errors' \in Nat
      /\ l2errors' + counts.cnt = totl2.cnt
      /\ counts.unknown <= counts.udpcsumerr
      /\ counts.cnt <= counts.lengtherr + counts.udpcsumerr
  BY <1>1 DEF AtBoundary, IntervalReport, NoL2, L2Counts
<1>3. CASE accounted /\ e # NoErrors /\ Datagrams > L2DROPFILTERCOUNTER
  <2>1. l2' = AddL2(counts, e) /\ totl2' = AddL2(totl2, e)
    BY <1>3 DEF CountL2
  <2>2. counts.cnt \in Nat /\ totl2.cnt \in Nat
    BY <1>1, <1>2 DEF L2Counts
  <2> HIDE DEF counts
  <2> QED BY <2>1, <2>2, <1>1, <1>2, <1>3, AddL2Right
<1>4. CASE ~(accounted /\ e # NoErrors /\ Datagrams > L2DROPFILTERCOUNTER)
  <2>1. l2' = counts /\ totl2' = totl2
    BY <1>4 DEF CountL2
  <2> HIDE DEF counts
  <2> QED BY <2>1, <1>1, <1>2
<1> QED BY <1>3, <1>4

\* A datagram read keeps the invariant.
LEMMA ReceiveStep ==
    ASSUME AccInv, NEW id \in 1 .. MaxID, NEW boundary \in BOOLEAN,
           NEW e \in AnyErrors, Receive(id, boundary, e)
    PROVE  AccInv'
<1> USE AccountingAssumption
<1>1. /\ ~final /\ ~final' /\ final' = final
      /\ packetID' = id /\ id \in Nat /\ l2found' = e
      /\ CountDatagram(id) /\ TypeOK
      /\ Datagrams \in Nat /\ Datagrams' = Datagrams + 1
      /\ Bytes \in Nat /\ Bytes' = Bytes + 1
      /\ cntTransit' \in Nat /\ empties' \in Nat
      /\ UNCHANGED <<stale, unshown>>
  BY DEF Receive, Transit, One, AccInv, TypeOK
<1>2. AccInv /\ AtBoundary(boundary) /\ CountL2(e, boundary, TRUE)
  BY DEF Receive
<1>3. /\ prev' \in [Lost : Nat, OutofOrder : Nat, Datagrams : Nat, Bytes : Nat]
      /\ sum' \in Counts /\ report' \in Counts /\ errors' \in Nat
      /\ LossBounded'
      /\ SumSoFar'
  BY <1>1, <1>2, BoundaryRight DEF LossBounded, SumSoFar, AccInv
<1>4. l2' \in L2Counts /\ totl2' \in L2Counts /\ l2errors' \in Nat /\ L2Adds'
  BY <1>1, <1>2, CountL2Right DEF L2Adds
<1>5. TypeOK'
  BY <1>1, <1>3, <1>4, CountDatagramRight DEF TypeOK
<1>6. LossIsGap'
  <2>1. LossIsGap /\ stale \in Nat /\ Lost \in Nat /\ OutofOrder \in Nat /\ PacketID \in Nat
    BY DEF AccInv, TypeOK
  <2> QED BY <2>1, <1>1, CountDatagramRight DEF LossIsGap
<1>7. Monotone'
  BY <1>1, <1>2, <1>3, BoundaryRight, CountDatagramRight DEF Monotone, TypeOK
<1>8. IntervalGap'
  BY <1>1, <1>2, <1>3, BoundaryRight, CountDatagramRight DEF IntervalGap, TypeOK
<1>9. SumComplete' /\ IntervalsCoverTotal'
  BY <1>1 DEF SumComplete, IntervalsCoverTotal
<1> QED BY <1>3, <1>4, <1>5, <1>6, <1>7, <1>8, <1>9 DEF AccInv

\* An empty report keeps the invariant, also when it is accounted for as a
\* datagram.
LEMMA EmptyReportStep ==
    ASSUME AccInv, NEW boundary \in BOOLEAN, NEW e \in AnyErrors, NEW len \in Nat,
           EmptyReport(boundary, e, len)
    PROVE  AccInv'
<1> DEFINE accounted == Transit(boundary) # 0 /\ packetID > 0
<1>1. /\ ~final /\ ~final' /\ final' = final
      /\ packetID' = packetID /\ packetID \in Nat /\ packetID <= PacketID /\ l2found' = e
      /\ TypeOK
      /\ Datagrams \in Nat /\ Datagrams' = Datagrams
      /\ cntTransit' \in Nat
      /\ empties' \in Nat
      /\ UNCHANGED unshown
  BY DEF EmptyReport, Transit, AccInv, TypeOK, Monotone
<1>2. /\ AccInv /\ AtBoundary(boundary)
      /\ accounted \in BOOLEAN /\ CountL2(e, boundary, accounted)
  BY DEF EmptyReport
<1>3. /\ prev' \in [Lost : Nat, OutofOrder : Nat, Datagrams : Nat, Bytes : Nat]
      /\ sum' \in Counts /\ report' \in Counts /\ errors' \in Nat
      /\ LossBounded'
      /\ SumSoFar'
  BY <1>1, <1>2, BoundaryRight DEF LossBounded, SumSoFar, AccInv
<1>4. /\ Lost' = Lost /\ PacketID' = PacketID
      /\ Bytes \in Nat /\ Bytes' \in Nat /\ Bytes <= Bytes'
      /\ OutofOrder' \in Nat /\ stale' \in Nat
      /\ OutofOrder <= OutofOrder'
      /\ OutofOrder' - OutofOrder = stale' - stale
  <2>1. CASE accounted
    <3>1. CountDatagram(packetID) /\ stale' = stale + 1 /\ Bytes' = Bytes + len
      BY <2>1 DEF EmptyReport
    <3> QED BY <3>1, <1>1, CountDatagramRight DEF TypeOK
  <2>2. CASE ~accounted
    BY <2>2, <1>1 DEF EmptyReport, TypeOK
  <2> QED BY <2>1, <2>2
<1>5. l2' \in L2Counts /\ totl2' \in L2Counts /\ l2errors' \in Nat /\ L2Adds'
  <2> HIDE DEF accounted
  <2> QED BY <1>1, <1>2, CountL2Right DEF L2Adds
<1>6. TypeOK'
  BY <1>1, <1>3, <1>4, <1>5 DEF TypeOK
<1>7. LossIsGap'
  BY <1>1, <1>4 DEF LossIsGap, AccInv, TypeOK
<1>8. Monotone'
  BY <1>1, <1>2, <1>3, <1>4, BoundaryRight DEF Monotone, TypeOK
<1>9. IntervalGap'
  BY <1>1, <1>2, <1>3, <1>4, BoundaryRight DEF IntervalGap, TypeOK
<1>10. SumComplete' /\ IntervalsCoverTotal'
  BY <1>1 DEF SumComplete, IntervalsCoverTotal
<1> QED BY <1>3, <1>5, <1>6, <1>7, <1>8, <1>9, <1>10 DEF AccInv

\* The final report keeps the invariant: it is where the sum and the errors of
\* the intervals are compared with the totals.
LEMMA FinalReportStep ==
    ASSUME AccInv, NEW significant \in BOOLEAN, FinalReport(significant)
    PROVE  AccInv'
<1>1. /\ TypeOK /\ ~final /\ final'
      /\ UNCHANGED <<packetID, l2found, totals, prev, cntTransit, totl2, empties, stale>>
  BY DEF FinalReport, AccInv
<1>2. sum' = [Lost |-> Lost, OutofOrder |-> OutofOrder, Datagrams |-> PacketID]
  BY <1>1 DEF FinalReport, AddToSum, AccInv, SumSoFar, TypeOK, Counts
<1>3. report' = [Lost |-> AtLeast0(Lost - OutofOrder), OutofOrder |-> OutofOrder,
                 Datagrams |-> PacketID]
  BY DEF FinalReport, TotalCounts
<1>4. /\ AtLeast0(Lost - OutofOrder) \in Nat
      /\ AtLeast0(Lost - OutofOrder) <= PacketID
  BY <1>1 DEF AtLeast0, AccInv, LossIsGap, TypeOK
<1>5. /\ errors' \in Nat /\ unshown'.Lost \in Nat
      /\ Lost - OutofOrder <= errors' + unshown'.Lost
      /\ Bytes = prev.Bytes => unshown'.Lost = 0
  <2> DEFINE part == Lost - prev.Lost - (OutofOrder - prev.OutofOrder)
  <2>1. IF Bytes > prev.Bytes /\ significant
        THEN errors' = errors + AtLeast0(part) /\ unshown' = unshown
        ELSE errors' = errors /\ unshown'.Lost = AtLeast0(part)
    BY DEF FinalReport, IntervalCounts
  <2>2. AtLeast0(part) \in Nat /\ part <= AtLeast0(part)
    BY <1>1 DEF AtLeast0, TypeOK
  <2>3. /\ prev.Lost - prev.OutofOrder <= errors /\ errors \in Nat
        /\ unshown.Lost = 0 /\ prev.Bytes \in Nat /\ Bytes \in Nat
    BY <1>1 DEF AccInv, SumSoFar, TypeOK, NothingUnshown
  <2>4. ASSUME Bytes = prev.Bytes PROVE AtLeast0(part) = 0
    BY <2>4, <1>1 DEF AccInv, IntervalGap, Monotone, AtLeast0, TypeOK
  <2> HIDE DEF part
  <2>5. part = Lost - OutofOrder - (prev.Lost - prev.OutofOrder)
    BY <1>1 DEF part, TypeOK
  <2>6. Lost \in Nat /\ OutofOrder \in Nat /\ prev.Lost \in Nat /\ prev.OutofOrder \in Nat
    BY <1>1 DEF TypeOK
  <2> QED BY <2>1, <2>2, <2>3, <2>4, <2>5, <2>6
<1>6. /\ l2' = totl2 /\ l2' \in L2Counts /\ totl2' \in L2Counts
      /\ l2errors' \in Nat /\ unshown' \in [Lost : Nat, l2 : Nat]
      /\ L2Adds'
  <2>1. /\ l2' = totl2
        /\ IF Bytes > prev.Bytes /\ significant
           THEN l2errors' = l2errors + l2.cnt /\ unshown' = unshown
           ELSE /\ l2errors' = l2errors
                /\ unshown' = [Lost |-> unshown'.Lost, l2 |-> l2.cnt]
    BY DEF FinalReport
  <2>2. /\ l2errors \in Nat /\ l2.cnt \in Nat /\ l2errors + l2.cnt = totl2.cnt
        /\ unshown = [Lost |-> 0, l2 |-> 0]
    BY <1>1 DEF AccInv, L2Adds, TypeOK, L2Counts, SumSoFar, NothingUnshown
  <2>3. unshown' \in [Lost : Nat, l2 : Nat] /\ l2errors' + unshown'.l2 = totl2.cnt
    BY <2>1, <2>2, <1>5
  <2> QED BY <2>1, <2>2, <2>3, <1>1 DEF AccInv, L2Adds, TypeOK, L2Counts, totals
<1>10. TypeOK'
  BY <1>1, <1>2, <1>3, <1>4, <1>5, <1>6 DEF TypeOK, totals, Counts
<1>7. LossIsGap' /\ Monotone' /\ IntervalGap'
  BY <1>1 DEF AccInv, LossIsGap, Monotone, IntervalGap, totals
<1>8. SumSoFar' /\ SumComplete' /\ LossBounded'
  BY <1>1, <1>2, <1>3, <1>4 DEF SumSoFar, SumComplete, LossBounded, totals
<1>9. IntervalsCoverTotal'
  <2>1. report'.Lost = AtLeast0(Lost - OutofOrder) BY <1>3
  <2>2. AtLeast0(Lost - OutofOrder) <= errors' + unshown'.Lost
    BY <1>1, <1>5 DEF AtLeast0, TypeOK
  <2>3. Bytes' = Bytes /\ prev' = prev BY <1>1 DEF totals
  <2> QED BY <2>1, <2>2, <2>3, <1>5 DEF IntervalsCoverTotal
<1> QED BY <1>6, <1>7, <1>8, <1>9, <1>10 DEF AccInv

-----------------------------------------------------------------------------
\* The accounting of reporter_handle_packet_server_udp and of the reports built
\* on it is right in every reachable state.
LEMMA AccInvariant == Spec => []AccInv
<1>1. Init => AccInv
  <2> SUFFICES ASSUME Init PROVE AccInv OBVIOUS
  <2>1. final \in BOOLEAN /\ ~final BY DEF Init
  <2>6. l2found \in AnyErrors
    <3>1. \E l, c, k \in BOOLEAN : l2found = L2Errors(l, c, k)
      <4>1. l2found = L2Errors(TRUE, TRUE, TRUE) BY DEF Init, NoErrors
      <4> WITNESS TRUE \in BOOLEAN, TRUE \in BOOLEAN, TRUE \in BOOLEAN
      <4> QED BY <4>1
    <3> QED BY <3>1 DEF AnyErrors
  <2>2. TypeOK /\ L2Adds
    BY <2>1, <2>6 DEF Init, TypeOK, NoCounts, NothingUnshown, Counts, NoL2, L2Counts, L2Adds
  <2>3. LossIsGap /\ Monotone /\ IntervalGap
    BY DEF Init, LossIsGap, Monotone, IntervalGap
  <2>4. SumSoFar /\ LossBounded BY DEF Init, SumSoFar, LossBounded, NoCounts
  <2>5. SumComplete /\ IntervalsCoverTotal
    BY <2>1 DEF SumComplete, IntervalsCoverTotal
  <2> QED BY <2>2, <2>3, <2>4, <2>5 DEF AccInv
<1>2. AccInv /\ [Next]_vars => AccInv'
  <2> SUFFICES ASSUME AccInv, [Next]_vars PROVE AccInv' OBVIOUS
  <2>1. ASSUME NEW b \in BOOLEAN, NEW e \in AnyErrors, NEW id \in 1 .. MaxID, Receive(id, b, e)
        PROVE  AccInv'
    BY <2>1, ReceiveStep
  <2>2. ASSUME NEW b \in BOOLEAN, NEW e \in AnyErrors, NEW len \in UnknownLens,
               ReceiveUnknown(b, e, len)
        PROVE  AccInv'
    <3>1. len \in Nat BY AccountingAssumption
    <3> QED BY <2>2, <3>1, EmptyReportStep DEF ReceiveUnknown
  <2>5. ASSUME NEW b \in BOOLEAN, ReadTimeout(b) PROVE AccInv'
    <3>1. l2found \in AnyErrors BY DEF AccInv, TypeOK
    <3> QED BY <2>5, <3>1, EmptyReportStep DEF ReadTimeout
  <2>6. ASSUME NEW l \in BOOLEAN, NEW c \in BOOLEAN, NEW k \in BOOLEAN
        PROVE  L2Errors(l, c, k) \in AnyErrors
    BY DEF AnyErrors
  <2>3. ASSUME NEW significant \in BOOLEAN, FinalReport(significant) PROVE AccInv'
    BY <2>3, FinalReportStep
  <2>4. CASE UNCHANGED vars
    BY <2>4 DEF vars, totals, l2counts, AccInv, TypeOK, LossIsGap, Monotone, IntervalGap,
                SumSoFar, LossBounded, SumComplete, IntervalsCoverTotal, L2Adds
  <2> QED BY <2>1, <2>2, <2>3, <2>4, <2>5, <2>6 DEF Next, Over
<1> QED BY <1>1, <1>2, PTL DEF Spec

\* Every counter of the UDP accounting keeps its type; no count of a report is
\* ever negative, although they are differences of counters.
THEOREM AccountingTypeCorrect == Spec => []TypeOK
BY AccInvariant, PTL DEF AccInv

\* However many datagrams are lost, repeated or reordered, Lost less OutofOrder
\* of reporter_handle_packet_server_udp is the number of missing datagrams.
THEOREM LossIsGapAlways == Spec => []LossIsGap
BY AccInvariant, PTL DEF AccInv

\* No interval or final report of reporter_transfer_protocol_server_udp shows
\* more lost datagrams than datagrams.
THEOREM LossBoundedAlways == Spec => []LossBounded
BY AccInvariant, PTL DEF AccInv

\* The sum report has the totals of the flow after its final report.
THEOREM SumCompleteAlways == Spec => []SumComplete
BY AccInvariant, PTL DEF AccInv

\* The losses of the interval reports, and of a last partial interval too short
\* to be printed, cover those of the final report.
THEOREM IntervalsCoverTotalAlways == Spec => []IntervalsCoverTotal
BY AccInvariant, PTL DEF AccInv

\* The L2 errors of the interval reports and those of a last partial interval
\* that is not printed add up to those of the final report.
THEOREM L2AddsAlways == Spec => []L2Adds
BY AccInvariant, PTL DEF AccInv

-----------------------------------------------------------------------------
\* The final handshake.

\* While the client sends traffic, every datagram on its way is traffic.
NoEarlyFin == cpc = "send" => \A m \in toServer : m > 0

\* The client's number, within what traffic and retries allow.
NumberBounded ==
    IF cpc = "send" THEN clientID <= NumData + 1
    ELSE clientID + count <= NumData + 1 + Retries

\* A server that waits for silence has a round left.
RoundLeft == spc = "select" => tries > 0

\* A thread that sends AckFINs has left its loop for one reason or another.
EndKnown == spc \notin {"none", "loop"} => ended # "none"

FinInv == FinTypeOK /\ AckAfterFin /\ NoEarlyFin /\ NumberBounded /\ RoundLeft /\ EndKnown

\* Before the first datagram.
LEMMA InitInv == ASSUME FinInit PROVE FinInv
  BY FinAssumption
  DEF FinInit, FinInv, FinTypeOK, AckAfterFin, NoEarlyFin, NumberBounded, RoundLeft, EndKnown, Datagram, Ack, AckFin, HdrAck, NoRelay

\* A step of the client keeps the invariant.
LEMMA ClientInv == ASSUME FinInv, Client PROVE FinInv'
<1> USE FinAssumption
    DEF FinInv, FinTypeOK, AckAfterFin, NoEarlyFin, NumberBounded, RoundLeft, EndKnown, Datagram, Ack, AckFin, HdrAck, NoRelay,
        serverVars
<1>1. CASE SendData
  BY <1>1 DEF SendData
<1>2. CASE SendFin
  BY <1>2 DEF SendFin
<1>3. CASE ResendFin
  BY <1>3 DEF ResendFin
<1>4. CASE ClientDump
  <2>1. toClient' \subseteq toClient
    BY <1>4 DEF ClientDump
  <2>2. count' = count - 1 /\ count > 0 /\ cpc = "await"
    BY <1>4 DEF ClientDump
  <2> QED BY <1>4, <2>1, <2>2 DEF ClientDump
<1>5. ASSUME NEW m \in AckFin, ClientRead(m) PROVE FinInv'
  BY <1>5 DEF ClientRead
<1>6. CASE ClientGiveUp
  BY <1>6 DEF ClientGiveUp
<1> QED BY <1>1, <1>2, <1>3, <1>4, <1>5, <1>6 DEF Client

\* So does a step of the server by itself,
LEMMA ServerAloneInv == ASSUME FinInv, ServerAlone PROVE FinInv'
<1> USE FinAssumption
    DEF FinInv, FinTypeOK, AckAfterFin, NoEarlyFin, NumberBounded, RoundLeft, EndKnown, Datagram, Ack, AckFin, HdrAck, NoRelay,
        clientVars
<1>1. CASE PrepareAck
  BY <1>1 DEF PrepareAck
<1>2. CASE SendAck
  <2>1. /\ spc = "send" /\ ended \in {"fin", "stop"}
        /\ toClient' = toClient \cup {[holds |-> buffer, ended |-> ended]}
        /\ UNCHANGED <<toServer, cpc, clientID, count, relay, tries, buffer, ended, threads>>
        /\ spc' = "select" /\ tries > 0
    BY <1>2 DEF SendAck
  <2>2. /\ [holds |-> buffer, ended |-> ended] \in AckFin
        /\ [holds |-> buffer, ended |-> ended].ended = ended
    BY <2>1
  <2>3. toClient' \subseteq Ack
    BY <2>1, <2>2
  <2>4. AckAfterFin'
    BY <2>1, <2>2
  <2> QED BY <2>1, <2>3, <2>4
<1>3. CASE Silence
  BY <1>3 DEF Silence
<1>4. CASE ReadFails
  BY <1>4 DEF ReadFails
<1>5. CASE AckGiveUp
  BY <1>5 DEF AckGiveUp
<1>6. CASE Close
  BY <1>6 DEF Close
<1> QED BY <1>1, <1>2, <1>3, <1>4, <1>5, <1>6 DEF ServerAlone

\* the end of its loop without a datagram,
LEMMA StopLoopInv == ASSUME FinInv, StopLoop PROVE FinInv'
  BY FinAssumption
  DEF FinInv, FinTypeOK, AckAfterFin, NoEarlyFin, NumberBounded, RoundLeft, EndKnown, Datagram, Ack,
      AckFin, HdrAck, NoRelay, clientVars, StopLoop

\* and the arrival of a datagram, an old or repeated one included: a negative
\* number ends the loop, and it was not sent before the end of the traffic.
LEMMA ServerReadsInv == ASSUME FinInv, NEW m \in Datagram, ServerReads(m) PROVE FinInv'
<1> USE FinAssumption
    DEF FinInv, FinTypeOK, AckAfterFin, NoEarlyFin, NumberBounded, RoundLeft, EndKnown, Datagram, Ack, AckFin, HdrAck, NoRelay,
        Arrives, clientVars
<1>1. CASE Accept(m)
  BY <1>1 DEF Accept
<1>2. CASE ReadDatagram(m)
  BY <1>2 DEF ReadDatagram
<1>3. CASE ReadAgain(m)
  BY <1>3 DEF ReadAgain
<1> QED BY <1>1, <1>2, <1>3 DEF ServerReads

\* No datagram makes the server acknowledge or end a flow that is still sending,
\* whatever the network does with the datagrams, however often both sides retry
\* and whichever server threads stop by themselves before (RunUDP,
\* write_UDP_AckFIN, AwaitServerFinPacket).
THEOREM HandshakeRightAlways == FinSpec => []HandshakeRight
<1>1. FinInit => FinInv
  BY InitInv
<1>2. FinInv /\ [FinNext]_finVars => FinInv'
  <2> SUFFICES ASSUME FinInv, [FinNext]_finVars PROVE FinInv'
    OBVIOUS
  <2>1. CASE UNCHANGED finVars
    BY <2>1 DEF finVars, clientVars, serverVars, FinInv, FinTypeOK, AckAfterFin, NoEarlyFin,
                NumberBounded, RoundLeft, EndKnown
  <2> QED BY <2>1, ClientInv, ServerAloneInv, StopLoopInv, ServerReadsInv DEF FinNext, FinOver
<1>3. FinInv => HandshakeRight
  BY DEF FinInv, HandshakeRight
<1> QED BY <1>1, <1>2, <1>3, PTL DEF FinSpec
=============================================================================
