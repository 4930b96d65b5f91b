---------------------------- MODULE IntervalSum -----------------------------
(***************************************************************************)
(* The interval, final and sum reports of a group of traffic threads: what *)
(* the reporter thread does with a packet it has taken from a ring         *)
(* (reporter_process_transfer_report, src/Reporter.c), for TCP and UDP,    *)
(* clients and servers, with the group's sum report and the full duplex    *)
(* report, and how the reports and their handlers are set up               *)
(* (src/Reports.c, SetReportStartTime of src/Client.cpp and                *)
(* src/Server.cpp).                                                        *)
(*                                                                         *)
(* The reporter is one thread, so handling a packet is one step; threads   *)
(* start theirs in between.  Each thread has a clock of its own: the       *)
(* reporter may be far ahead in one ring and behind in another.  A packet  *)
(* is one unit of bytes and one call (WriteCnt, cntRead, or the datagram   *)
(* numbers of a UDP server, whose losses are in UdpAccounting); an empty   *)
(* report has neither.                                                     *)
(***************************************************************************)
EXTENDS Integers, FiniteSets, FiniteSetsExt

CONSTANTS
    Threads,      \* the traffic threads of the group
    Interval,     \* ticks of the report interval (-i)
    Ticks,        \* bound: the times at which packets are stamped
    MaxPackets,   \* bound: packets of one thread
    Setups        \* the settings of the group, records of type Setup

\* mode of each thread and of the settings that created the sum report; -u;
\* output is CSV; --sum-only; -e; --full-duplex; -t rather than -n; whether
\* there is a group sum report.
Setup == [mode : [Threads -> {"client", "server"}], udp : BOOLEAN,
          csv : BOOLEAN, sumOnly : BOOLEAN, enhanced : BOOLEAN,
          fullDuplex : BOOLEAN, modeTime : BOOLEAN, group : BOOLEAN]

ASSUME IntervalAssumption ==
    /\ IsFiniteSet(Threads) /\ Threads # {}
    /\ Interval \in Nat \ {0} /\ Ticks \subseteq Nat /\ MaxPackets \in Nat
    /\ Setups \subseteq Setup

VARIABLES
    setup,     \* the settings
    st,        \* of each thread: none, run, done; lost: it got a freed report
    info,      \* of each thread: its TransferInfo
    sum,       \* the group's SumReport
    fdx,       \* the full duplex SumReport
    shown,     \* history: bytes in the interval lines of each thread
    sumShown,  \* history: bytes of the interval sums, printed or filtered
    sumFinal,  \* history: the bytes of the final sum line's rate, -1 for none
    ended      \* history: threads that ended since the last interval sum

vars == <<setup, st, info, sum, fdx, shown, sumShown, sumFinal, ended>>

-----------------------------------------------------------------------------
\* The handlers chosen for a report (only whether there is one matters here).

OutputHandler ==
    IF setup.csv THEN "csv" ELSE IF setup.sumOnly THEN "none" ELSE "print"
SumOutputHandler == IF setup.csv THEN "none" ELSE "print"
FullDuplexOutputHandler ==
    IF setup.csv \/ setup.sumOnly THEN "none" ELSE "print"

\* TransferInfo: total.Bytes, calls since the last report and in all, the counts
\* of the report being made, ReportTimeStamps (last is the traffic thread's own
\* clock), and of a SumReport also threads, reference and
\* filter_this_sample_output.
NoInfo == [cur |-> 0, prev |-> 0, cnt |-> 0, tot |-> 0, cntBytes |-> 0,
           start |-> 0, next |-> 0, pt |-> 0, last |-> 0,
           iStart |-> 0, iEnd |-> 0]
InitSumReport ==
    [cur |-> 0, prev |-> 0, cnt |-> 0, tot |-> 0, cntBytes |-> 0,
     start |-> 0, next |-> 0, pt |-> 0, iStart |-> 0, iEnd |-> 0,
     threads |-> 0, count |-> 0, maxcount |-> 0, threadcnt |-> 0,
     filter |-> FALSE, freed |-> FALSE]

Init ==
    /\ setup \in Setups
    /\ st = [t \in Threads |-> "none"]
    /\ info = [t \in Threads |-> NoInfo]
    /\ sum = InitSumReport
    /\ fdx = InitSumReport
    /\ shown = [t \in Threads |-> 0]
    /\ sumShown = 0 /\ sumFinal = -1 /\ ended = 0

\* IncrSumReportRefCounter
Incr(s) == [s EXCEPT !.count = @ + 1,
                     !.maxcount = IF s.count + 1 > @ THEN s.count + 1 ELSE @]

\* SetReportStartTime and SetFullDuplexReportStartTime: the first thread sets
\* the sum's start; its first interval end only with -t.
SumStart(s, i) ==
    IF s.start # 0 THEN s
    ELSE [s EXCEPT !.start = i.start, !.next = IF setup.modeTime THEN i.next ELSE @]

\* InitIndividualReport and SetReportStartTime.  The kernel may have stamped
\* the first datagram of a UDP server earlier than the start taken here.
Join(t) ==
    /\ st[t] = "none"
    /\ \E now \in 1 .. 2 :
         LET kernel == IF setup.udp /\ setup.mode[t] = "server" THEN now - 1 ELSE now
             i == [NoInfo EXCEPT !.start = now, !.next = now + Interval, !.last = kernel]
         IN  /\ info' = [info EXCEPT ![t] = i]
             /\ IF setup.group /\ sum.freed
                THEN /\ st' = [st EXCEPT ![t] = "lost"]
                     /\ UNCHANGED <<sum, fdx>>
                ELSE /\ st' = [st EXCEPT ![t] = "run"]
                     /\ sum' = IF setup.group THEN SumStart(Incr(sum), i) ELSE sum
                     /\ fdx' = IF setup.fullDuplex THEN SumStart(Incr(fdx), i) ELSE fdx
    /\ UNCHANGED <<setup, shown, sumShown, sumFinal, ended>>

-----------------------------------------------------------------------------
\* Time stamps and lines.

\* reporter_set_timestamps_time
Stamp(i, type) ==
    CASE i.pt < i.start ->
           [i EXCEPT !.iStart = 0, !.iEnd = 0]
      [] i.pt >= i.start /\ type = "INTERVAL" ->
           [i EXCEPT !.iStart = i.iEnd, !.iEnd = i.next - i.start,
                     !.next = @ + Interval]
      [] i.pt >= i.start /\ type = "TOTAL" ->
           [i EXCEPT !.iStart = 0, !.iEnd = i.pt - i.start]
      [] i.pt >= i.start /\ type = "FINALPARTIAL" ->
           [i EXCEPT !.iStart = i.iEnd, !.iEnd = i.pt - i.start]

\* An output handler; _print_stats_common clears the count, once it has
\* printed it and before the rate, if the interval ends too early.
Output(i, handler) ==
    IF handler = "print" /\ i.iEnd < 1 THEN [i EXCEPT !.cntBytes = 0] ELSE i

\* significant_partial: a quarter of the interval.
Significant(i) == 4 * (i.iEnd - i.iStart) > Interval

\* reporter_reset_transfer_stats_*
ResetTransferStats(i) == [i EXCEPT !.prev = i.cur, !.cnt = 0]

\* reporter_transfer_protocol_missed_reports: a loop of empty lines up to the
\* packet; k is how often it runs.
MissedReports(i) ==
    LET k == IF i.pt - i.next > Interval THEN (i.pt - i.next - 1) \div Interval ELSE 0
        end == i.next + (k - 1) * Interval - i.start
    IN  IF k = 0 THEN i
        ELSE [i EXCEPT !.iStart = IF k = 1 THEN i.iEnd ELSE end - Interval,
                       !.iEnd = end, !.next = @ + k * Interval]

-----------------------------------------------------------------------------
\* The report of one thread: reporter_transfer_protocol_{client,server}_{tcp,udp}.

IsUdpClient(t) == setup.udp /\ setup.mode[t] = "client"

\* Fault: an interval is added to the sum with the total so far.
AddToSumTotal(s, i) == [s EXCEPT !.cur = @ + i.cur, !.cnt = @ + i.cnt, !.tot = @ + i.cnt,
                                 !.threadcnt = @ + 1]

\* What every handler does first: the bytes and calls since the last report
\* go to the sum and the full duplex report.
AddToSum(s, i) == [s EXCEPT !.cur = @ + (i.cur - i.prev), !.cnt = @ + i.cnt,
                            !.tot = @ + i.cnt, !.threadcnt = @ + 1]

\* The interval report.
ProtocolInterval(i) ==
    ResetTransferStats(Output([i EXCEPT !.cntBytes = i.cur - i.prev], OutputHandler))

\* The final report: for TCP and UDP servers first the partial interval, if
\* it has bytes and there is an output handler (a UDP server does not reset).
HasPartial(t, i) == ~IsUdpClient(t) /\ i.cur > i.prev /\ OutputHandler # "none"
Partial(i) == Stamp([i EXCEPT !.cntBytes = i.cur - i.prev], "FINALPARTIAL")
ProtocolFinal(t, i) ==
    LET p == IF ~HasPartial(t, i) THEN i
             ELSE LET q == Partial(i)
                      r == IF Significant(q) THEN Output(q, OutputHandler) ELSE q
                  IN  IF setup.udp THEN r ELSE ResetTransferStats(r)
        total == Output([Stamp(p, "TOTAL") EXCEPT !.cntBytes = i.cur, !.cnt = i.tot],
                        OutputHandler)
    IN  IF IsUdpClient(t) THEN ResetTransferStats(total) ELSE total

-----------------------------------------------------------------------------
\* The sum reports: reporter_transfer_protocol_sum_* and _fullduplex_*.

\* filter_this_sample_output: no sum lines for a single thread.
SumFilter(s) == s.count <= 1 /\ ~setup.sumOnly
Prints(s) == SumOutputHandler # "none" /\ ~s.filter

SumInterval(s) ==
    LET i == [s EXCEPT !.cntBytes = s.cur - s.prev]
        o == IF Prints(s) THEN Output(i, SumOutputHandler) ELSE i
    IN  ResetTransferStats(
            IF setup.udp \/ Prints(s) THEN [o EXCEPT !.threadcnt = 0] ELSE o)

\* Fault: the final sum is the last interval's.
SumFinalInterval(s) == Output(Stamp([s EXCEPT !.cntBytes = s.cur - s.prev], "TOTAL"),
                              SumOutputHandler)

\* The final sum; for TCP after a partial interval, which depends on the bytes
\* of the interval sum printed last.
SumFinal(s) ==
    LET q == Stamp([s EXCEPT !.cntBytes = s.cur - s.prev], "FINALPARTIAL")
        p == CASE setup.udp \/ s.cntBytes <= 0 -> s
               [] ~setup.udp /\ s.cntBytes > 0 /\ Prints(s) -> ResetTransferStats(q)
               [] OTHER -> ResetTransferStats(s)
        f == Stamp([p EXCEPT !.cntBytes = s.cur, !.cnt = s.tot], "TOTAL")
    IN  IF Prints(s) THEN Output(f, SumOutputHandler) ELSE f

\* The full duplex report of both directions, only with -e.
FullDuplexInterval(s) ==
    Output(Stamp([s EXCEPT !.cntBytes = s.cur - s.prev, !.prev = s.cur, !.threads = 0],
                 "INTERVAL"), FullDuplexOutputHandler)
FullDuplexFinal(s) ==
    LET p == IF s.cntBytes > 0 THEN [s EXCEPT !.prev = s.cur] ELSE s
    IN  Output(Stamp([p EXCEPT !.cntBytes = s.cur], "TOTAL"), FullDuplexOutputHandler)

-----------------------------------------------------------------------------
\* The reporter's steps.

\* The packet handlers: bytes and calls of a packet that is not empty.  The
\* handler of a TCP server leaves packetTime alone.
HandlePacket(t, i, now, len, calls) ==
    [i EXCEPT !.cur = @ + len, !.cnt = @ + calls, !.tot = @ + calls,
              !.pt = IF setup.mode[t] = "server" /\ ~setup.udp THEN @ ELSE now]

\* Fault: the count of threads goes on.
SumDueKeeps(s) ==
    IF s.threads + 1 # s.count THEN [s EXCEPT !.threads = @ + 1]
    ELSE SumInterval(Stamp([s EXCEPT !.threads = @ + 1, !.filter = SumFilter(s)], "INTERVAL"))

\* When as many interval reports are in as there are threads, the sum's.
SumDue(s) ==
    IF s.threads + 1 # s.count THEN [s EXCEPT !.threads = @ + 1]
    ELSE SumInterval(Stamp([s EXCEPT !.threads = 0, !.filter = SumFilter(s)], "INTERVAL"))
FullDuplexDue(s) ==
    IF s.threads + 1 = 2 /\ setup.enhanced THEN FullDuplexInterval(s)
    ELSE [s EXCEPT !.threads = @ + 1]

\* Fault: no lines for the intervals the reporter missed.
IntervalReportBehind(i, now) == ProtocolInterval(Stamp([i EXCEPT !.pt = now], "INTERVAL"))

\* reporter_condprint_time_interval_report, of the thread's own report.
IntervalReport(i, now) ==
    LET r == ProtocolInterval(Stamp([i EXCEPT !.pt = now], "INTERVAL"))
    IN  IF OutputHandler = "none" THEN r ELSE MissedReports(r)

From(time) == {now \in Ticks : now >= time}

\* reporter_process_transfer_report for a packet of traffic, empty or not.
ProcessPacket(t) ==
    /\ st[t] = "run"
    /\ info[t].tot < MaxPackets
    /\ \E now \in From(info[t].last), len \in 0 .. 1 :
         LET i == [info[t] EXCEPT !.last = now]
             due == i.next < now
             s == AddToSum(sum, i)
             f == AddToSum(fdx, i)
         IN  /\ len = 0 => now > info[t].last
             /\ info' = [info EXCEPT ![t] =
                   HandlePacket(t, IF due THEN IntervalReport(i, now) ELSE i, now, len, len)]
             /\ sum' = IF ~setup.group THEN sum
                       ELSE [IF due THEN SumDue(s) ELSE sum EXCEPT !.pt = now]
             /\ fdx' = IF ~setup.fullDuplex THEN fdx
                       ELSE [IF due THEN FullDuplexDue(f) ELSE fdx EXCEPT !.pt = now]
             /\ shown' = [shown EXCEPT ![t] = IF due THEN @ + i.cur - i.prev ELSE @]
             /\ LET out == due /\ setup.group /\ s.threads + 1 = s.count
                IN  /\ sumShown' = IF out THEN sumShown + s.cur - s.prev ELSE sumShown
                    /\ ended' = IF out THEN 0 ELSE ended
    /\ UNCHANGED <<setup, st, sumFinal>>

\* The final packet's time becomes the sum's if the sum's is larger.
Earlier(s, now) == IF s.pt > now THEN [s EXCEPT !.pt = now] ELSE s

\* DecrSumReportRefCounter, and what the last one does.
SumEnd(s) ==
    LET d == [s EXCEPT !.count = @ - 1]
    IN  IF d.count > 0 THEN d
        ELSE [IF s.maxcount > 1 \/ setup.sumOnly THEN SumFinal(d) ELSE d EXCEPT !.freed = TRUE]
FullDuplexEnd(s) ==
    LET d == [s EXCEPT !.count = @ - 1]
    IN  IF d.count > 0 THEN d ELSE FullDuplexFinal(d)

\* reporter_process_transfer_report for the final packet.  A client's counts
\* as a call, and a TCP client's may have bytes (the whole transfer if it
\* reports once; else what its last write left in the report structure).
ProcessFinal(t) ==
    /\ st[t] = "run"
    /\ st' = [st EXCEPT ![t] = "done"]
    /\ \E now \in From(info[t].last), len \in 0 .. 1 :
         LET client == setup.mode[t] = "client"
             h == HandlePacket(t, [info[t] EXCEPT !.last = now], now, len,
                               IF client THEN 1 ELSE 0)
             i == [h EXCEPT !.pt = now]
         IN  /\ len = 1 => client /\ ~setup.udp
             /\ info' = [info EXCEPT ![t] = ProtocolFinal(t, i)]
             /\ sum' = IF setup.group THEN SumEnd(Earlier(AddToSum(sum, i), now)) ELSE sum
             /\ fdx' = IF ~setup.fullDuplex THEN fdx
                       ELSE IF setup.enhanced THEN FullDuplexEnd(Earlier(AddToSum(fdx, i), now))
                       ELSE AddToSum(fdx, i)
             /\ sumFinal' = IF setup.group /\ sum'.freed /\ Prints(sum)
                               /\ (sum.maxcount > 1 \/ setup.sumOnly)
                            THEN sum'.cntBytes ELSE sumFinal
    /\ ended' = ended + 1
    /\ UNCHANGED <<setup, shown, sumShown>>

Next == \E t \in Threads : Join(t) \/ ProcessPacket(t) \/ ProcessFinal(t)

\* The reporter goes on while there are reports (ReporterJobq), and every
\* traffic thread ends with a final packet.
Spec == Init /\ [][Next]_vars

-----------------------------------------------------------------------------
\* Properties.

Started == {t \in Threads : st[t] \in {"run", "done"}}
Total(f) == SumFunctionOnSet(f, Started)

\* Every byte and every call is in the sum report exactly once, whatever
\* intervals, partial intervals and final reports of the threads it came
\* through; the full duplex report has the bytes too (the additions in
\* reporter_transfer_protocol_* against reporter_reset_transfer_stats_*).
SumComplete ==
    LET bytes == [t \in Threads |-> IF st[t] = "done" THEN info[t].cur ELSE info[t].prev]
        calls == [t \in Threads |->
                     info[t].tot - (IF st[t] = "done" THEN 0 ELSE info[t].cnt)]
    IN  /\ setup.group => sum.cur = Total(bytes) /\ sum.tot = Total(calls)
        /\ setup.fullDuplex => fdx.cur = Total(bytes)

\* As long as no thread has ended since the last interval sum, the count of
\* interval reports has not passed the count of threads, so the test for
\* equality in reporter_condprint_time_interval_report is still to be met;
\* and the interval sums so far add up to what the sum report has passed on.
\* (Once a thread has ended, the count can be overtaken for ever.)
SumKeepsPace ==
    setup.group /\ sum.count > 0 =>
        /\ ended = 0 => sum.threads < sum.count
        /\ sumShown = sum.prev

\* When the last thread of a group has ended, the sum report shows all bytes
\* and calls of all threads; its line is left out only for CSV and when the
\* interval sum before it came from a single thread.  (The rate of a report
\* that ends at its start is printed as zero.  The end is the time of the
\* packet handled last or of an earlier final packet: 0 if all packets of the
\* group are final ones.)
FinalSumIsTotal ==
    LET bytes == [t \in Threads |-> info[t].cur]
        calls == [t \in Threads |-> info[t].tot]
    IN  sum.freed /\ (sum.maxcount > 1 \/ setup.sumOnly) =>
            /\ sum.cnt = Total(calls)
            /\ sum.iEnd >= 1 => sum.cntBytes = Total(bytes)
            /\ sumFinal = -1 <=> setup.csv \/ sum.filter
            /\ sumFinal # -1 /\ sum.iEnd >= 1 => sumFinal = Total(bytes)

\* What the comment in reporter_process_transfer_report says: the largest
\* packet time sets the end of the final sum.  It does not hold.
LargestTimeEnds ==
    sumFinal # -1 => \A t \in Threads :
        st[t] = "done" => sum.iEnd >= info[t].pt - sum.start

\* The sum report is right at every moment and in its last line.
SumRight == SumComplete /\ FinalSumIsTotal

\* The interval lines of a thread follow each other without gap or overlap,
\* together show all bytes up to the last boundary, and the reporter is never
\* more than one interval behind a packet it has handled, also when it had
\* fallen behind by several (reporter_transfer_protocol_missed_reports).
IntervalsTile ==
    \A t \in Threads : st[t] = "run" =>
        /\ shown[t] = info[t].prev
        /\ info[t].iEnd = info[t].next - Interval - info[t].start
        /\ OutputHandler # "none" => info[t].pt - info[t].next <= Interval
====
