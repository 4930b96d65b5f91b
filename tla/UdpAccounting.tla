--------------------------- MODULE UdpAccounting ----------------------------
(***************************************************************************)
(* The accounting of one UDP flow at the server: what RunUDP               *)
(* (src/Server.cpp) puts into the ring and what the reporter makes of it   *)
(* (reporter_handle_packet_server_udp, the time interval report and        *)
(* reporter_transfer_protocol_server_udp, src/Reporter.c).  The ring hands *)
(* packets over in order (PacketRing), so reading a datagram and           *)
(* accounting for it are one step here.                                    *)
(*                                                                         *)
(* A datagram is its sequence number and one unit of bytes; the network    *)
(* may lose, duplicate and reorder.  With --l2checks the server reads whole *)
(* frames, and L2_processing may find their length or checksum wrong, or   *)
(* that they are not the flow's at all.  Interval reports are on (-i) and  *)
(* printed for the flow itself, not for the sum only; time is the free     *)
(* choice whether a packet lies past the end of the interval and whether   *)
(* the last, partial interval is long enough to be printed.                *)
(***************************************************************************)
EXTENDS Integers

CONSTANTS
    L2DROPFILTERCOUNTER, \* datagrams before the first L2 error that is counted
    UnknownLens,   \* packetLen of frames that are not the flow's, from their length
                   \* fields (one that makes it negative is left out)
    MaxID,         \* bound: sequence numbers the client uses
    MaxDatagrams,  \* bound: datagrams that arrive
    MaxEmpty       \* bound: reads that time out or find an L2 error

ASSUME AccountingAssumption ==
    /\ L2DROPFILTERCOUNTER \in Nat /\ UnknownLens \subseteq Nat
    /\ MaxID \in Nat \ {0}
    /\ MaxDatagrams \in Nat
    /\ MaxEmpty \in Nat

VARIABLES
    packetID,      \* reportstruct->packetID of the server thread
    l2found,       \* reportstruct->l2errors, likewise kept from frame to frame
    PacketID,      \* stats->PacketID, the highest number accounted for
    Datagrams,     \* stats->total.Datagrams.current
    Bytes,         \* stats->total.Bytes.current
    Lost,          \* stats->total.Lost.current
    OutofOrder,    \* stats->total.OutofOrder.current
    prev,          \* the .prev of the totals: the state at the last interval
    cntTransit,    \* stats->transit.cntTransit
    l2,            \* stats->l2counts of the interval: cnt, unknown, lengtherr, udpcsumerr
    totl2,         \* its tot_ counts
    sum,           \* totals of the group's sum report
    report,        \* the counts in the report printed last
    final,         \* the final report is out
    empties,       \* history: reads that timed out or found an L2 error
    stale,         \* history: empty reports accounted for as datagrams
    errors,        \* history: cntError summed over the interval reports and
                   \* the partial one at the end, if it is printed
    l2errors,      \* history: l2counts.cnt summed likewise
    unshown        \* history: both counts of a partial interval that is not printed

totals == <<PacketID, Datagrams, Bytes, Lost, OutofOrder>>
l2counts == <<l2, totl2>>
vars == <<packetID, l2found, totals, prev, cntTransit, l2counts, sum, report, final,
          empties, stale, errors, l2errors, unshown>>

Counts == [Lost : Nat, OutofOrder : Nat, Datagrams : Nat]
L2Counts == [cnt : Nat, unknown : Nat, lengtherr : Nat, udpcsumerr : Nat]
NoCounts == [Lost |-> 0, OutofOrder |-> 0, Datagrams |-> 0]

NoL2 == [cnt |-> 0, unknown |-> 0, lengtherr |-> 0, udpcsumerr |-> 0]

NothingUnshown == [Lost |-> 0, l2 |-> 0]

One(b) == IF b THEN 1 ELSE 0

\* What L2_processing finds in a frame: the length of the frame against that in
\* the UDP header, the checksum, and for a frame with an error whether the
\* quintuple is the flow's (L2_quintuple_filter).
L2Errors(lengthOk, csumOk, known) ==
    LET unknown == ~known /\ ~(lengthOk /\ csumOk)
    IN  [unknown |-> unknown, length |-> ~lengthOk,
         csum |-> ~csumOk \/ (unknown /\ ~lengthOk)]
NoErrors == L2Errors(TRUE, TRUE, TRUE)
AnyErrors == {L2Errors(l, c, k) : l, c, k \in BOOLEAN}

\* InitTrafficLoop: the scratchpad is cleared and the report is fresh.
Init ==
    /\ packetID = 0 /\ l2found = NoErrors
    /\ PacketID = 0
    /\ Datagrams = 0
    /\ Bytes = 0
    /\ Lost = 0
    /\ OutofOrder = 0
    /\ prev = [Lost |-> 0, OutofOrder |-> 0, Datagrams |-> 0, Bytes |-> 0]
    /\ cntTransit = 0
    /\ sum = NoCounts
    /\ report = NoCounts
    /\ final = FALSE
    /\ empties = 0
    /\ stale = 0
    /\ errors = 0
    /\ l2 = NoL2 /\ totl2 = NoL2 /\ l2errors = 0
    /\ unshown = NothingUnshown

-----------------------------------------------------------------------------
(* The reports.                                                            *)

AtLeast0(n) == IF n < 0 THEN 0 ELSE n

\* Fault: the counts of the interval are not limited to it.
IntervalCountsTotal ==
    [Lost |-> AtLeast0(Lost - (OutofOrder - prev.OutofOrder)),
     OutofOrder |-> OutofOrder - prev.OutofOrder,
     Datagrams |-> PacketID - prev.Datagrams]

\* Fault: all late datagrams so far are taken off, not those of the interval.
IntervalCountsLate ==
    [Lost |-> AtLeast0(Lost - prev.Lost - OutofOrder),
     OutofOrder |-> OutofOrder - prev.OutofOrder,
     Datagrams |-> PacketID - prev.Datagrams]

\* cntError, cntOutofOrder and cntDatagrams since the last interval: datagrams
\* out of order are taken off the lost ones.
IntervalCounts ==
    [Lost |-> AtLeast0(Lost - prev.Lost - (OutofOrder - prev.OutofOrder)),
     OutofOrder |-> OutofOrder - prev.OutofOrder,
     Datagrams |-> PacketID - prev.Datagrams]

\* The same for the whole test.
TotalCounts ==
    [Lost |-> AtLeast0(Lost - OutofOrder),
     OutofOrder |-> OutofOrder,
     Datagrams |-> PacketID]

\* What every report, the final one too, adds to the sum report.
AddToSum ==
    sum' = [Lost |-> sum.Lost + (Lost - prev.Lost),
            OutofOrder |-> sum.OutofOrder + (OutofOrder - prev.OutofOrder),
            Datagrams |-> sum.Datagrams + (PacketID - prev.Datagrams)]

\* Fault: the lost datagrams of an interval are not set aside.
ResetKeepsLost ==
    prev' = [Lost |-> prev.Lost, OutofOrder |-> OutofOrder,
             Datagrams |-> PacketID, Bytes |-> Bytes]

\* reporter_reset_transfer_stats_server_udp.
ResetTransferStats ==
    prev' = [Lost |-> Lost, OutofOrder |-> OutofOrder,
             Datagrams |-> PacketID, Bytes |-> Bytes]

\* reporter_transfer_protocol_server_udp with final = 0.
IntervalReport ==
    /\ report' = IntervalCounts
    /\ errors' = errors + report'.Lost
    /\ l2errors' = l2errors + l2.cnt
    /\ AddToSum
    /\ ResetTransferStats

\* `boundary' is nextTime < packetTime: the packet is the first past the interval.
AtBoundary(boundary) ==
    IF boundary THEN IntervalReport ELSE UNCHANGED <<prev, sum, report, errors, l2errors>>

-----------------------------------------------------------------------------
(* One packet, in the order of reporter_process_transfer_report: first the *)
(* interval report it may trigger, then its own accounting.                *)

\* Fault: a datagram that comes late lowers the highest number.
CountDatagramLower(id) ==
    /\ OutofOrder' = IF id < PacketID + 1 THEN OutofOrder + 1 ELSE OutofOrder
    /\ Lost' = IF id > PacketID + 1 THEN Lost + (id - PacketID - 1) ELSE Lost
    /\ PacketID' = id

\* The sequence number accounting of reporter_handle_packet_server_udp.
CountDatagram(id) ==
    /\ OutofOrder' = IF id < PacketID + 1 THEN OutofOrder + 1 ELSE OutofOrder
    /\ Lost' = IF id > PacketID + 1 THEN Lost + (id - PacketID - 1) ELSE Lost
    /\ PacketID' = IF id > PacketID THEN id ELSE PacketID

\* The interval report resets the transit count before the packet is handled.
Transit(boundary) == IF boundary THEN 0 ELSE cntTransit

\* One more frame with these errors.
AddL2(counts, e) ==
    [cnt |-> counts.cnt + 1, unknown |-> counts.unknown + One(e.unknown),
     lengtherr |-> counts.lengtherr + One(e.length),
     udpcsumerr |-> counts.udpcsumerr + One(e.csum)]

\* Fault: the interval report does not reset the counts.
CountL2Keeps(e, boundary, accounted) ==
    IF accounted /\ e # NoErrors /\ Datagrams > L2DROPFILTERCOUNTER
    THEN l2' = AddL2(l2, e) /\ totl2' = AddL2(totl2, e)
    ELSE UNCHANGED <<l2, totl2>>

\* The L2 accounting of reporter_handle_packet_server_udp, for a packet that
\* gets to it, after the interval report has reset the counts.
CountL2(e, boundary, accounted) ==
    LET counts == IF boundary THEN NoL2 ELSE l2
    IN  IF accounted /\ e # NoErrors /\ Datagrams > L2DROPFILTERCOUNTER
        THEN l2' = AddL2(counts, e) /\ totl2' = AddL2(totl2, e)
        ELSE l2' = counts /\ totl2' = totl2

\* A datagram is read, perhaps with L2 errors.
Receive(id, boundary, e) ==
    /\ ~final
    /\ Datagrams < MaxDatagrams
    /\ e # NoErrors => empties < MaxEmpty
    /\ empties' = empties + One(e # NoErrors)
    /\ AtBoundary(boundary)
    /\ packetID' = id
    /\ l2found' = e
    /\ CountDatagram(id)
    /\ CountL2(e, boundary, TRUE)
    /\ Datagrams' = Datagrams + 1
    /\ Bytes' = Bytes + 1
    /\ cntTransit' = Transit(boundary) + 1
    /\ UNCHANGED <<final, stale, unshown>>

\* An empty report goes into the ring, with the packetID left in the scratchpad.
\* It only resets the transit statistics if the interval has none yet; else the
\* packetID is looked at.
EmptyReport(boundary, e, len) ==
    LET accounted == Transit(boundary) # 0 /\ packetID > 0
    IN  /\ ~final
        /\ empties < MaxEmpty
        /\ empties' = empties + 1
        /\ AtBoundary(boundary)
        /\ l2found' = e
        /\ CountL2(e, boundary, accounted)
        /\ IF accounted
           THEN /\ CountDatagram(packetID)
                /\ Bytes' = Bytes + len
                /\ cntTransit' = Transit(boundary) + 1
                /\ stale' = stale + 1
           ELSE /\ cntTransit' = Transit(boundary)
                /\ UNCHANGED <<PacketID, Bytes, Lost, OutofOrder, stale>>
        /\ UNCHANGED <<packetID, Datagrams, final, unshown>>

\* recvmsg times out: the scratchpad has the L2 errors of the last frame, too.
ReadTimeout(boundary) == EmptyReport(boundary, l2found, 0)

\* A frame with an error that is not the flow's: RunUDP does not read its number.
ReceiveUnknown(boundary, e, len) == EmptyReport(boundary, e, len)

\* The final packet: reporter_transfer_protocol_server_udp with final = 1.  The
\* partial interval report is printed if it has bytes and is longer than
\* significant_partial, a quarter of an interval; then the totals are.
FinalReport(significant) ==
    /\ ~final
    /\ final' = TRUE
    /\ IF Bytes > prev.Bytes /\ significant
       THEN /\ errors' = errors + IntervalCounts.Lost
            /\ l2errors' = l2errors + l2.cnt
            /\ UNCHANGED unshown
       ELSE /\ unshown' = [Lost |-> IntervalCounts.Lost, l2 |-> l2.cnt]
            /\ UNCHANGED <<errors, l2errors>>
    /\ AddToSum
    /\ report' = TotalCounts
    /\ l2' = totl2
    /\ UNCHANGED <<packetID, l2found, totals, prev, cntTransit, totl2, empties, stale>>

Over == final /\ UNCHANGED vars

Next ==
    \/ \E boundary, lengthOk, csumOk, known \in BOOLEAN :
          LET e == L2Errors(lengthOk, csumOk, known)
          IN  IF e.unknown
              THEN \E len \in UnknownLens : ReceiveUnknown(boundary, e, len)
              ELSE \E id \in 1 .. MaxID : Receive(id, boundary, e)
    \/ \E boundary \in BOOLEAN : ReadTimeout(boundary)
    \/ \E significant \in BOOLEAN : FinalReport(significant)
    \/ Over

Spec == Init /\ [][Next]_vars

-----------------------------------------------------------------------------
(* Properties.                                                             *)

TypeOK ==
    /\ packetID \in Nat
    /\ l2found \in AnyErrors
    /\ PacketID \in Nat
    /\ Datagrams \in Nat
    /\ Lost \in Nat
    /\ OutofOrder \in Nat
    /\ prev \in [Lost : Nat, OutofOrder : Nat, Datagrams : Nat, Bytes : Nat]
    /\ cntTransit \in Nat
    /\ sum \in Counts
    /\ report \in Counts
    /\ final \in BOOLEAN
    /\ empties \in Nat
    /\ stale \in Nat
    /\ errors \in Nat
    /\ Bytes \in Nat
    /\ l2 \in L2Counts /\ totl2 \in L2Counts
    /\ l2errors \in Nat
    /\ unshown \in [Lost : Nat, l2 : Nat]

\* However the network loses, repeats and reorders datagrams, the two counters
\* the reporter keeps separately, Lost and OutofOrder, differ by exactly the
\* sequence numbers that are missing: the highest one less what arrived (and
\* less the empty reports that passed for datagrams).
LossIsGap == Lost - OutofOrder = PacketID - Datagrams - stale

\* No report shows more datagrams lost than there were, although a datagram
\* counted as lost in one interval may arrive in another.
LossBounded == report.Lost <= report.Datagrams

\* The sum report ends up with the totals of the flow: the interval reports and
\* the final one add every count once.
SumComplete ==
    final => sum = [Lost |-> Lost, OutofOrder |-> OutofOrder, Datagrams |-> PacketID]

\* No loss of the final report is missing from the interval reports, the partial
\* one at the end and that one's own count if it was too short to be printed.
\* A partial interval without bytes is never printed, and hides no loss.
IntervalsCoverTotal ==
    final =>
        /\ report.Lost <= errors + unshown.Lost
        /\ Bytes = prev.Bytes => unshown.Lost = 0

\* The L2 errors shown by the interval reports and those of a partial interval
\* that is not printed, for lack of bytes or of length, add up to those of the
\* final report; every frame counted has a wrong length or checksum, and one that
\* is not the flow's counts as one with a wrong checksum, too.
L2Adds ==
    /\ ~final => l2errors + l2.cnt = totl2.cnt
    /\ final => l2errors + unshown.l2 = l2.cnt
    /\ \A c \in {l2, totl2} :
          c.unknown <= c.udpcsumerr /\ c.cnt <= c.lengtherr + c.udpcsumerr

\* "These are valid packets that need standard iperf accounting": an empty
\* report never gets to the accounting of datagrams.
OnlyValidAccounted == stale = 0
=============================================================================
