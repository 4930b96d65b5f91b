----------------------------- MODULE IsochFrames -----------------------------
(***************************************************************************)
(* Isochronous UDP traffic: a client sends a frame of a few datagrams in   *)
(* every period of its Isochronous::FrameCounter (src/isochronous.cpp,     *)
(* RunUDPIsochronous of src/Client.cpp), a server reads the frame fields   *)
(* of the datagrams that arrive (src/Server.cpp), the reporter of either   *)
(* counts frames, lost frames and slips, and the server's keeps the        *)
(* latencies of the frames in a histogram (src/Reporter.c,                 *)
(* src/histogram.c), which is printed with every report.  The test has a   *)
(* time and no amount (-t), and every datagram holds the frame fields.     *)
(* Time is counted in half periods from the first frame.                   *)
(***************************************************************************)
EXTENDS Integers, Sequences, FiniteSets, FiniteSetsExt

CONSTANTS
    Sizes,      \* datagrams of a frame, the client draws one from a distribution
    Bins,       \* bincount of the histogram
    CiLower, CiUpper,   \* mHistci_lower and mHistci_upper, in percent
    Latencies,  \* the bins frame latencies fall into, negative when the clocks differ
    MaxClock,   \* bound: how long the test runs
    MaxFlight,  \* bound: datagrams on their way
    MaxFaults,  \* bound: datagrams lost, duplicated or overtaken
    MaxPrints   \* bound: reports

ASSUME IsochAssumption ==
    /\ Sizes \subseteq Nat \ {0} /\ Latencies \subseteq Int
    /\ Bins \in Nat \ {0} /\ {CiLower, CiUpper} \subseteq 0..100
    /\ {MaxClock, MaxFlight, MaxFaults, MaxPrints} \subseteq Nat

VARIABLES
    clock,
    cpc,         \* the client: "tick", "sleep", "burst", "ended"
    counter,     \* FrameCounter: slot_counter, lastcounter, nextslotTime, slip
    frame,       \* the frame being sent: id, prev, size, datagrams left, whether the last
                 \* one is padded; head and last of the datagram sent before
    clientStats, \* struct IsochStats of the client's report
    net,         \* datagrams in flight
    faults, disorder,
    lastpacket,  \* the server has read the final datagram
    first,       \* the Listener has read the first one, which InitTrafficLoop reports
    ready,       \* reportstruct->transit_ready of the server
    packet,      \* the datagram in the server's reportstruct
    fresh,       \* a datagram was handled since the last report, cntTransit > 0
    serverStats, matchframeID,
    histogram,   \* struct histogram of the frame latencies
    prev,        \* histogram->prev
    printed,     \* what histogram_print printed last
    prints,
    sent,        \* history: frames of which a datagram was sent
    lone,        \* history: frames whose last datagram has the fields of a first one
    seen,        \* history: frames the server's reporter counted
    begun,       \* history: the first of them
    inserted     \* history: how often each frame is in the histogram

clientVars == <<cpc, counter, frame, clientStats, sent, lone>>
serverVars == <<lastpacket, first, ready, packet, fresh, serverStats, matchframeID, histogram,
                prev, printed, prints, seen, begun, inserted>>
isochVars == <<clock, clientVars, net, faults, disorder, serverVars>>

NoFrame ==
    [id |-> 0, prev |-> 0, size |-> 0, left |-> 0, padded |-> FALSE, head |-> FALSE, last |-> FALSE]

\* The test header that SendFirstPayload sends before the frames has no frame.
NoDatagram == [id |-> 0, prev |-> 0, head |-> FALSE, last |-> FALSE, fin |-> FALSE]
ZeroStats == [frameID |-> 0, framecnt |-> 0, framelostcnt |-> 0, slipcnt |-> 0]

\* histogram_init.  The word behind the last bin is `beyond'.
HistogramInit ==
    [mybins |-> [b \in 0..Bins - 1 |-> 0], beyond |-> 0, populationcnt |-> 0,
     cntloweroutofbounds |-> 0, cntupperoutofbounds |-> 0]

IsochInit ==
    /\ clock = 0 /\ cpc = "tick"
    /\ counter = [slot |-> 0, last |-> 0, next |-> 0, slip |-> 0]
    /\ frame = NoFrame /\ clientStats = ZeroStats
    /\ net = <<NoDatagram>> /\ faults = 0 /\ disorder = FALSE
    /\ lastpacket = FALSE /\ first = FALSE
    /\ ready = FALSE /\ packet = NoDatagram /\ fresh = FALSE
    /\ serverStats = ZeroStats /\ matchframeID = 0
    /\ histogram = HistogramInit /\ prev = HistogramInit
    /\ printed = [cnt |-> 0, listed |-> 0, oob |-> 0, lowerci |-> 0, upperci |-> 0,
                  of |-> 0, beyond |-> 0]
    /\ prints = 0
    /\ sent = {} /\ lone = {} /\ seen = {} /\ begun = 0 /\ inserted = [f \in 1..MaxClock + 2 |-> 0]

-----------------------------------------------------------------------------
\* The frame counts of a report.

\* Fault: the frames between two are all lost.
HandleFrameAll(stats, id, prevID, server) ==
    LET delta == id - stats.frameID
        start == IF stats.frameID = 0 THEN id ELSE stats.framecnt
    IN  [frameID |-> id,
         framecnt |-> IF delta # 0 THEN start + 1 ELSE start,
         framelostcnt |-> stats.framelostcnt + (IF delta > 1 THEN delta ELSE 0),
         slipcnt |-> stats.slipcnt + (IF ~server /\ delta > 1 THEN 1 ELSE 0)]

\* reporter_handle_packet_isochronous, its first half: a server knows from the
\* datagram which frame the client sent before, a client has slipped.
HandleFrame(stats, id, prevID, server) ==
    LET delta == id - stats.frameID
        start == IF stats.frameID = 0 THEN id ELSE stats.framecnt
        lost == IF delta <= 1 THEN 0 ELSE IF server THEN delta - (id - prevID) ELSE delta - 1
    IN  [frameID |-> id,
         framecnt |-> IF delta # 0 THEN start + 1 ELSE start,
         framelostcnt |-> stats.framelostcnt + lost,
         slipcnt |-> stats.slipcnt + (IF ~server /\ delta > 1 THEN 1 ELSE 0)]

-----------------------------------------------------------------------------
\* The client.

\* Time passes, for a client that still looks at it.
Pass ==
    /\ cpc # "ended" /\ clock < MaxClock
    /\ clock' = clock + 1
    /\ UNCHANGED <<clientVars, net, faults, disorder, serverVars>>

\* FrameCounter::wait_tick: the next slot that is not in the past, to be slept
\* for.
Slots == IF clock < counter.next THEN 0 ELSE (clock - counter.next) \div 2 + 1

\* Fault: one slot further, whatever the time.
WaitTickOne ==
    /\ cpc = "tick"
    /\ counter' = IF counter.slot = 0
                  THEN [counter EXCEPT !.slot = 1, !.next = clock]
                  ELSE [counter EXCEPT !.slot = @ + 1, !.next = @ + 2,
                                       !.slip = IF clock >= counter.next + 2 THEN @ + 1 ELSE @]
    /\ cpc' = "sleep"
    /\ UNCHANGED <<clock, frame, clientStats, sent, lone, net, faults, disorder, serverVars>>

WaitTick ==
    /\ cpc = "tick"
    /\ counter' = IF counter.slot = 0
                  THEN [counter EXCEPT !.slot = 1, !.next = clock]
                  ELSE [counter EXCEPT !.slot = @ + Slots, !.next = @ + 2 * Slots,
                                       !.slip = IF counter.slot + Slots - counter.last > 1
                                                THEN @ + 1 ELSE @]
    /\ cpc' = "sleep"
    /\ UNCHANGED <<clock, frame, clientStats, sent, lone, net, faults, disorder, serverVars>>

\* wait_tick returns and the frame begins.  A last datagram that would be too
\* short for the frame fields is padded, and is then a burst of its own.
BeginFrame ==
    /\ cpc = "sleep"
    /\ clock >= counter.next
    /\ counter' = [counter EXCEPT !.last = counter.slot]
    /\ \E n \in Sizes, padded \in BOOLEAN :
          /\ padded => n > 1
          /\ frame' = [frame EXCEPT !.id = counter.slot, !.prev = frame.id,
                                    !.size = n, !.left = n, !.padded = padded]
    /\ cpc' = "burst"
    /\ UNCHANGED <<clock, clientStats, sent, lone, net, faults, disorder, serverVars>>

\* A datagram of the frame, and its report: transit_ready is set with the last.
SendDatagram ==
    /\ cpc = "burst"
    /\ Len(net) < MaxFlight
    /\ LET last == frame.left = 1
           head == frame.left = frame.size \/ (last /\ frame.padded)
       IN  /\ net' = Append(net, [id |-> frame.id, prev |-> frame.prev,
                                  head |-> head, last |-> last, fin |-> FALSE])
           /\ frame' = [frame EXCEPT !.left = @ - 1, !.head = head, !.last = last]
           /\ lone' = IF head /\ last THEN lone \cup {frame.id} ELSE lone
           /\ clientStats' = IF last THEN HandleFrame(clientStats, frame.id, frame.prev, FALSE)
                             ELSE clientStats
           /\ cpc' = IF last THEN "tick" ELSE "burst"
    /\ sent' = sent \cup {frame.id}
    /\ UNCHANGED <<clock, counter, faults, disorder, serverVars>>

\* The alarm or a signal ends the test, a sleep or a frame that is not complete.
\* The final datagram has the fields that are in the buffer: those of a new frame
\* when none of its datagrams was sent, with the remaining bytes of the datagram
\* sent before, and it is of full length.  Before a last datagram that is padded
\* the buffer has the burst size of that one.
Stop ==
    /\ cpc # "ended"
    /\ counter.slot > 0
    /\ Len(net) < MaxFlight
    /\ LET new == cpc = "sleep" \/ (cpc = "burst" /\ frame.left = frame.size)
           pads == cpc = "burst" /\ frame.left = 1 /\ frame.padded
       IN  \E head, last \in BOOLEAN :
              /\ last => frame.last
              /\ IF new THEN head => sent # {} ELSE head <=> frame.head /\ ~pads
              /\ net' = Append(net, [id |-> IF cpc = "sleep" THEN counter.slot ELSE frame.id,
                                     prev |-> IF cpc = "sleep" THEN frame.id ELSE frame.prev,
                                     head |-> head, last |-> last, fin |-> TRUE])
    /\ cpc' = "ended"
    /\ UNCHANGED <<clock, counter, frame, clientStats, sent, lone, faults, disorder, serverVars>>

-----------------------------------------------------------------------------
\* The network.

Lose ==
    /\ net # <<>> /\ faults < MaxFaults
    /\ net' = Tail(net) /\ faults' = faults + 1
    /\ UNCHANGED <<clock, clientVars, disorder, serverVars>>

Duplicate ==
    /\ net # <<>> /\ faults < MaxFaults /\ Len(net) < MaxFlight
    /\ net' = <<Head(net)>> \o net /\ faults' = faults + 1
    /\ UNCHANGED <<clock, clientVars, disorder, serverVars>>

Overtake ==
    /\ Len(net) > 1 /\ faults < MaxFaults
    /\ net' = <<net[2], net[1]>> \o SubSeq(net, 3, Len(net)) /\ faults' = faults + 1
    /\ disorder' = TRUE
    /\ UNCHANGED <<clock, clientVars, serverVars>>

-----------------------------------------------------------------------------
\* The server and its reporter.

\* histogram_insert, of a value that falls into `bin'.
HistogramInsert(h, bin) ==
    LET counted == [h EXCEPT !.populationcnt = @ + 1]
    IN  IF bin < 0 THEN [counted EXCEPT !.cntloweroutofbounds = @ + 1]
        ELSE IF bin > Bins THEN [counted EXCEPT !.cntupperoutofbounds = @ + 1]
        ELSE IF bin = Bins THEN [counted EXCEPT !.beyond = @ + 1]
        ELSE [counted EXCEPT !.mybins[bin] = @ + 1]

\* Fault: the frame stays the one to match after its latency was taken.
MatchNextKeeps(match, d, arrived) == IF d.head THEN d.id ELSE match

\* matchframeID after a datagram: the frame whose first datagram came, until its
\* last one did.  `arrived' is FALSE for a report without a datagram, which has
\* the fields of the one before and no length.
MatchNext(match, d, arrived) ==
    LET matched == IF d.head THEN d.id ELSE match
    IN  IF arrived /\ d.last /\ matched = d.id THEN 0 ELSE matched

LatencyDue(match, d) == d.last /\ (d.head \/ match = d.id)

\* reporter_handle_packet_isochronous of the server, for a datagram with a frame
\* once a frame was complete.
HandleIsochronous(d, counts, arrived) ==
    IF d.id = 0 \/ ~counts
    THEN UNCHANGED <<serverStats, matchframeID, histogram, inserted, seen, begun>>
    ELSE /\ serverStats' = HandleFrame(serverStats, d.id, d.prev, TRUE)
         /\ matchframeID' = MatchNext(matchframeID, d, arrived)
         /\ IF arrived /\ LatencyDue(matchframeID, d)
            THEN /\ \E bin \in Latencies : histogram' = HistogramInsert(histogram, bin)
                 /\ inserted' = [inserted EXCEPT ![d.id] = @ + 1]
            ELSE UNCHANGED <<histogram, inserted>>
         /\ seen' = seen \cup {d.id}
         /\ begun' = IF begun = 0 THEN d.id ELSE begun

\* InitTrafficLoop reports the datagram that started the flow, without its frame
\* fields, and whether it is the final one is not looked at.
ReceiveFirst ==
    /\ net # <<>>
    /\ ~first
    /\ first' = TRUE /\ fresh' = TRUE
    /\ net' = Tail(net)
    /\ UNCHANGED <<clock, clientVars, faults, disorder, lastpacket, ready, packet, serverStats,
                   matchframeID, histogram, prev, printed, prints, seen, begun, inserted>>

\* RunUDP and udp_isoch_processing, and the report of the datagram.  Nothing
\* resets transit_ready.
ReceiveDatagram ==
    /\ net # <<>>
    /\ first /\ ~lastpacket
    /\ LET d == Head(net)
           counts == ready \/ (d.last /\ d.id - d.prev = 1)
       IN  /\ packet' = d
           /\ ready' = counts
           /\ lastpacket' = d.fin
           /\ HandleIsochronous(d, counts, TRUE)
    /\ net' = Tail(net)
    /\ fresh' = TRUE
    /\ UNCHANGED <<clock, clientVars, faults, disorder, first, prev, printed, prints>>

\* The read times out: the report has the fields of the datagram before, and is
\* handled as one if there was any in the interval.
EmptyReport ==
    /\ first /\ ~lastpacket
    /\ fresh
    /\ HandleIsochronous(packet, ready, FALSE)
    /\ UNCHANGED <<clock, clientVars, net, faults, disorder, lastpacket, first, ready, packet,
                   fresh, prev, printed, prints>>

Below(delta, b) == SumFunctionOnSet(delta, 0..b)

\* The first bin with more than `percent' of the population in it and below.
FirstBin(delta, population, percent) ==
    LET over == {b \in 0..Bins - 1 : delta[b] > 0 /\ Below(delta, b) * 100 > percent * population}
    IN  IF over = {} THEN 0 ELSE Min(over) + 1

\* Fault: only the counts are cleared.
HistogramClearCounts(h) ==
    [h EXCEPT !.populationcnt = 0, !.cntloweroutofbounds = 0, !.cntupperoutofbounds = 0]

\* histogram_clear
HistogramClear(h) ==
    [h EXCEPT !.mybins = [b \in 0..Bins - 1 |-> 0], !.populationcnt = 0,
              !.cntloweroutofbounds = 0, !.cntupperoutofbounds = 0]

\* histogram_print of a histogram with `final' set, as
\* reporter_transfer_protocol_server_udp sets it for every report.
HistogramPrint ==
    LET p == HistogramClear(prev)
        delta == [b \in 0..Bins - 1 |-> histogram.mybins[b] - p.mybins[b]]
        cnt == histogram.populationcnt - p.populationcnt
        upperci == FirstBin(delta, cnt, CiUpper)
    IN  /\ printed' =
              [cnt |-> cnt,
               listed |-> Below([b \in 0..Bins - 1 |-> IF delta[b] > 0 THEN delta[b] ELSE 0],
                                Bins - 1),
               oob |-> (histogram.cntloweroutofbounds - p.cntloweroutofbounds)
                       + (histogram.cntupperoutofbounds - p.cntupperoutofbounds),
               lowerci |-> FirstBin(delta, cnt, CiLower),
               upperci |-> IF upperci = 0 THEN Bins ELSE upperci,
               of |-> SumFunctionOnSet(inserted, DOMAIN inserted),
               beyond |-> histogram.beyond]
        /\ prev' = [histogram EXCEPT
                       !.beyond = 0,
                       !.mybins = [b \in 0..Bins - 1 |->
                                     IF delta[b] > 0 THEN histogram.mybins[b] ELSE p.mybins[b]]]

\* A report of an interval or of the whole test.
Report ==
    /\ prints < MaxPrints
    /\ first
    /\ HistogramPrint
    /\ prints' = prints + 1
    /\ fresh' = FALSE
    /\ UNCHANGED <<clock, clientVars, net, faults, disorder, lastpacket, first, ready, packet,
                   serverStats, matchframeID, histogram, seen, begun, inserted>>

IsochNext ==
    \/ Pass \/ WaitTick \/ BeginFrame \/ SendDatagram \/ Stop
    \/ Lose \/ Duplicate \/ Overtake
    \/ ReceiveFirst \/ ReceiveDatagram \/ EmptyReport \/ Report

IsochSpec == IsochInit /\ [][IsochNext]_isochVars
-----------------------------------------------------------------------------
\* Properties.

\* ClientFrames: on the client, the frames sent (framecnt begins one too high)
\* and the slots missed are all the slots up to the last complete frame, every
\* gap is a slip, and no frame is sent before its slot or in the slot of the one
\* before (FrameCounter::wait_tick, reporter_handle_packet_isochronous).
ClientFrames ==
    /\ clientStats.frameID # 0 =>
          clientStats.framecnt - 1 + clientStats.framelostcnt = clientStats.frameID
    /\ cpc = "tick" => clientStats.slipcnt = counter.slip
    /\ cpc = "burst" =>
          /\ frame.prev < frame.id
          /\ 2 * (frame.id - 1) <= clock
          /\ counter.next <= clock

\* ServerFrames: as long as the datagrams keep their order and the first frame
\* counted was the first one sent, the server counts every frame it handled a
\* datagram of (one more, as above), counts as lost at least the frames it saw
\* nothing of, and counts no slot twice (Server::udp_isoch_processing,
\* prevframeid of the client).
ServerFrames ==
    ~disorder /\ begun = 1 =>
        LET unseen == {f \in sent : f < serverStats.frameID} \ seen
        IN  /\ serverStats.framecnt - 1 = Cardinality(seen)
            /\ serverStats.framelostcnt >= Cardinality(unseen)
            /\ serverStats.framelostcnt + Cardinality(seen) <= serverStats.frameID

\* LatencyOnce: as long as the datagrams keep their order, a frame whose last
\* datagram is told from its first has one latency in the histogram, however
\* often its datagrams are repeated and whatever the final datagram holds
\* (matchframeID, "reset the matchid so any potential duplicate is ignored").
LatencyOnce ==
    ~disorder => \A f \in DOMAIN inserted \ lone : inserted[f] <= 1

\* PrintedWhole: a printed histogram lists every latency taken so far, in a bin
\* or out of bounds, except those that fall right behind the last bin, and its
\* confidence interval is one if the limits asked for are (histogram_print;
\* Settings_Interpret takes them as they are given).
PrintedWhole ==
    /\ printed.cnt = printed.of
    /\ printed.listed + printed.oob + printed.beyond = printed.cnt
    /\ CiLower <= CiUpper => printed.lowerci <= printed.upperci
=============================================================================
