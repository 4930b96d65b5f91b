# A TLA+ verification of iperf 2 (2.1.4, Android NDK build)

iperf 2 is a multi-threaded network measurement tool. This directory holds TLA+
models of the parts of it in which threads, or a client and a server, have to
agree without a lock or over an unreliable network, TLC configurations that
check them on small instances, and TLAPS proofs, for instances of any size, of
every safety property the configurations check. Paths below are relative to `src/jni/`.

## 1. The system

| Component | State | Operations | Interacts with | Hard because |
|---|---|---|---|---|
| Packet ring `src/packet_ring.c` | slots, `producer`, `consumer`, `consumerdone`, two conditions | init, enqueue, dequeue, free | one traffic thread, the reporter | indices are shared without lock or barrier; a slot is read after it was given back |
| Data report `src/Reporter.c`, `src/Reports.c` | totals, previous interval, ring, references to sum reports | init, `ReportPacket`, `EndJob`, final report, free | traffic thread owns it, reporter works on it | two owners; end and free are negotiated with a flag, a signal and a timeout |
| Job queue, `reporter_spawn` | pending list, root list, `work_item` | `PostReport`, `set_root`, walk, remove, exit | every thread posts; the reporter takes | removal after the owner may free; the exit test reads two things one after the other |
| Interval and sum reports `src/Reporter.c` | `threads`, `reference.count`, totals of the group, output filter | interval, missed, partial and final report; add to the sums | reporter, starting and ending threads | each ring is at another time; the count of threads changes between two reports |
| Threads `compat/Thread.c`, `src/main.cpp`, `src/Launch.cpp` | `thread_sNum`, traffic counts, non-terminating count | start, start all, run wrapper, `runNext`, join, stop, register, release, signal | everyone | counts decide when the process ends |
| Listener `src/Listener.cpp` | listen socket, `mCount`, settings | accept, reject, test header exchange, start server or reversed client | all of the above | many early exits |
| Active hosts `src/active_hosts.cpp` | list of hosts, thread count, sum report | push, conditional push, remove, look-ups | Listener pushes, traffic threads remove, reporter frees the sum report | three threads, two locks, one object |
| Full duplex barrier `src/Launch.cpp` | count, timeout, condition | start, stop | transmitter and receiver of one socket | one counter for two meetings; time-outs |
| Settings and test headers `src/Settings.cpp`, `include/payloads.h` | options, header flags | parse, modal checks, generate, apply | client, Listener, server, the client a server starts | order of options; two programs must come to the same layout of a stream |
| Client loops `src/Client.cpp` | amount, burst, end time, packet number | connect, start synch, TCP, near congestion, rate limited, UDP, isochronous | barrier of parallel clients, ring, peer | ends by amount, time, error, signal; partial writes |
| Server loops `src/Server.cpp` | burst reader, tokens, end time | TCP, UDP, L2 checks | ring, peer | partial reads; frames that are not the flow's |
| UDP accounting `src/Reporter.c` | `PacketID`, Lost, OutofOrder, L2 errors, previous values, sum | datagram, empty report, interval, final | server thread through the ring | loss, duplication, reordering across interval boundaries |
| Final UDP handshake `src/Client.cpp`, `src/Server.cpp`, `src/Reports.c` | sequence number, rounds left, AckFIN buffer | FIN, resend, AckFIN, silence | client and server over UDP, Listener | everything may be lost, repeated or late |
| Isochronous counter, frames, histograms `src/isochronous.cpp`, `src/histogram.c` | slots, slips; frame counts; buckets | wait for a tick; count; insert, print | traffic threads, reporter | slips, lost frames and boundary arithmetic |

What makes each correct: the ring hands over every packet once and in order and
its pointers stay valid; the final report contains every packet and nothing
touches a report after it is freed; interval lines follow each other without a
gap and the sum has every thread's bytes once; the reporter leaves last and
everyone gets to leave; thread, table and reference counts match the threads
that are there; the two threads of a full duplex test start together and exactly
one cleans up; client and server read as a header what was written as one, and
both start the two ends of every stream; the bytes reported are the bytes that
went through the socket; loss figures are consistent with the sequence numbers;
the handshake, the test and the process end.

## 2. The modules

| Module | Models | Notes |
|---|---|---|
| `PacketFifo` | abstract specification of the ring | a fifo of bounded capacity with one explicit escape: when it is full it may break |
| `PacketRing` | `packetring_enqueue`, `packetring_dequeue`, the use of the returned pointer | one action per access to shared memory; `StoreReorder` lets the index become visible before the slot |
| `TransferReport` | `ReportPacket`, `EndJob`, `reporter_process_transfer_report`, `consumerdone`, `FreeReport` | extends `PacketRing`: the packet numbered `NumPackets` is the final one (`packetID` -1) |
| `ReporterJobq` | `PostReport`, `reporter_jobq_set_root`, `reporter_spawn`, `thread_run_wrapper`, `thread_joinall` | a ring is abstracted to its interval-ending packets and a flag for the final one |
| `IntervalSum` | what the reporter does with a packet: `reporter_transfer_protocol_*`, `reporter_reset_transfer_stats_*`, `reporter_condprint_time_interval_report`, `missed_reports`, the set-up of the reports and their handlers | one step per packet, since the reporter is one thread; each thread has its own clock |
| `ThreadControl` | `compat/Thread.c`, `client_spawn`, `client_init`, `BarrierClient`, `Listener::Run`, the signal handlers, `main` | a traffic thread's work is one state; a FAIL, a failing `pthread_create` (of the reporter, too), spurious wake-ups and signals come at any time |
| `ActiveHosts` | the table, sum report references, accept and rejection in the Listener | each operation is one step, as its mutex makes it; a free has no mutex and is a step of its own; connections the Listener starts a full duplex client for enter their host twice |
| `FullDuplexBarrier` | both barriers, `EndJob`'s use of the result | `ServerSide` selects how `InitSumReport` set it up |
| `Settings` | `Settings_Initialize`, `Settings_Interpret`, `Settings_ModalOptions`, `Settings_GenerateClientHdr`, `apply_client_settings_*`, `Settings_GenerateClientSettings`, `Settings_GenerateListenerSettings` | operators on a record of settings; bit masks are sets of names |
| `TestExchange` | a command line option by option, then connection, test header, key, acknowledgement, the threads both sides start and the first traffic of each | composes `Settings` with the steps of client, Listener and server; streams hold what was written and not read |
| `ClientTraffic` | `RunTCP`, `RunNearCongestionTCP`, `RunRateLimitedTCP`, `RunUDP`, `RunUDPIsochronous`, `FinishTrafficActions`, `Server::RunTCP` | the stream is the number of bytes in and out; a write or a read takes any part |
| `UdpAccounting` | `RunUDP`'s reads and L2 checks, `reporter_handle_packet_server_udp`, interval and final report, sum | time is a free choice of whether a packet crosses the interval boundary; whether the last partial interval is long enough to be printed is free too; a datagram has one unit of bytes |
| `UdpFin` | FIN/AckFIN of client and server, the Listener for datagrams that find no thread | the network is a set from which datagrams arrive any number of times or never; a server's loop may stop by itself at any time |
| `IsochFrames` | `FrameCounter`, the frame fields of `RunUDPIsochronous`, `udp_isoch_processing`, the frame counts of both reporters, `histogram.c` | time in half periods; the server reads what a lossy network passes on |
| `ReportEndProofs` (ring, data report, barrier), `UdpProofs` (accounting, final handshake), `SumProofs` (interval sums, isochronous frames), `TestExchangeProofs`, `ThreadControlProofs`, `ReporterJobqProofs`, `ActiveHostsProofs`, `ClientTrafficProofs` | theorems | see section 5; where a proof module extends two components one of them has a prefix in the names of its specification (`RingSpec`, `BarrierSpec`, `FinSpec`, `IsochSpec`) |
| `MC*` | instances for TLC | |

In every module the operators marked "Fault" are plausible mistakes in the
operation defined after them; replacing the operation by its fault breaks the
property `PROJECT.json` lists for it, which shows that the property is about
that code. No specification uses them. Some properties are conjunctions of named
parts (`QueueRight`, `TableRight`, `BarrierRight`, `HandshakeRight`,
`HandshakeEnds`, `SumRight`, `BytesRight`, `StartsInOrder`); `PROJECT.json` lists
one fault for each conjunction.

Correspondence is by name: variables carry the names of the C fields, program
counters (`ppc`, `cpc`, `tpc`, `rpc`, `spc`, `lpc`, `pc`, `st`) say where a thread
is, and variables described as history are written and never read by the
program's own steps. `PROJECT.json` gives the lines behind each definition.

How the modules fit together: `TransferReport` extends the ring and says that
every packet reaches the reporter once; `IntervalSum`, `UdpAccounting` and
`IsochFrames` say what the reporter makes of the packets; `ClientTraffic` says
which packets there are. `ReporterJobq` takes from `TransferReport` that
`EndJob` returns after the final packet, and `ThreadControl` takes from
`ReporterJobq` that a traffic thread ends only then. `TestExchange` ends where
`ClientTraffic` begins.

## 3. Runs

| Run | Instance | States | Shows |
|---|---|---|---|
| `packet_ring` | 3 slots, 7 packets (more than two laps), stores reordered | 1,592 | indices account for every packet until an overrun; an overrun needs the reader on slot 0 and the producer on the last slot; enqueue never blocks for ever |
| `transfer_report` | 3 slots, 7 packets, stores in order | 1,093 | refinement of `PacketFifo`, completeness of the final report, freeing after it, `EndJob` returns |
| `reporter_jobq` | 3 traffic threads, one started by another's end, 1 interval packet per ring | 64,766 | the walk never touches a freed report, no report is queued twice, the reporter leaves last, all threads and main finish |
| `active_hosts` | 2 hosts, 2 ports, 3 connections, full duplex clients included, UDP | 73,925 | thread counts, one sum report per host, reference counts and when a sum report is freed, one server per entry |
| `fullduplex_barrier` | client side, timeout 3 | 134 | nobody starts alone, one cleans up, both finish |
| `udp_accounting` | numbers 1..4, 4 datagrams, 2 read time-outs, damaged and foreign frames, a long or short last interval | 219,340 | loss and L2 figures in intervals, final report and sum |
| `udp_fin` | 1 datagram, 2 retries, 2 AckFINs, 2 server threads that may stop by themselves | 80,852 | no datagram ends a flow that sends, no AckFIN before the FIN but from threads that stopped by themselves, both sides stop |
| `thread_control` | three servers (endless; two ports with `-P 1 -t`; `-1`), three clients (`-P 2 --reverse`, full duplex, the Listener of `-d`) | 162,066 | the counts are exact at every moment, main leaves last, parallel clients start after all connects, `-1` serves one test at a time, the process ends or hangs for good in one of three named ways |
| `interval_sum` | 2 threads, 2 packets each, interval of 2 ticks, seven settings | 2,303,454 | every byte is in the sum once, interval lines tile the test, interval sums keep pace with the threads, the final sum is the total |
| `client_traffic` | 16 tests, header of 2 bytes, writes of 3, bursts of 4, a connection that holds 4 | 109,162 | bytes told to the reporter at both ends, `-n` kept, burst headers read where they were written, datagram numbers, the test ends |
| `test_exchange` | 25 options, command lines of up to 4 in every order, four servers | 364,808 | headers meet, the reversed client does what was asked, the reader outlasts the writer, nobody waits for what is not sent |
| `isoch_frames` | frames of 1 and 2 datagrams, 5 half periods, one fault, 2 reports, 2 bins | 2,726,240 | frame, loss and slip counts of client and server, one latency per frame, complete histograms |

Bounds. The ring's behaviour depends on the positions of two indices modulo the
size and on whether a lap was completed: 3 slots and 7 packets take both indices
around more than twice. Three connections on two hosts give a shared sum report,
a second host and a rejection at the same time. Two retries and two AckFINs give
first, repeated and last round. A barrier timeout of 3 separates a wait that
ends by broadcast, by spurious wake-up and by giving up. In `interval_sum` the
stamps 0, 1, 2, 4, 5 and 8 are before, on and behind boundaries, and 8 leaves three
intervals behind; two threads are the fewest with which one can end or join while
another goes on. In `client_traffic` a header of two bytes can be cut, a write of
three in a connection of four is cut everywhere, and two events (three for two of
the UDP tests) put an error after a time-out and a signal after either. In
`test_exchange` four options are `-c` and three that may conflict; the sizes are
the program's own except that `mAmount` has 12 bits. `L2DROPFILTERCOUNTER` is 1 in
`udp_accounting` (100 in the code; it only says from which datagram on L2 errors count).
`maxEvents` of `thread_control` bounds failures and signals to two (one in the
two larger servers), which is enough for a FAIL followed by an interrupt and for
two interrupts. What the small bounds leave open for the safety properties the
proofs settle.

Deadlock is checked except where the system may stop: `reporter_jobq`, where a
thread started after the reporter has left waits in `EndJob` for ever (item 6 of
section 4); `thread_control`, where the process has ended, or hangs as items 14 and 15 of section 4
say; `interval_sum`, `test_exchange` and
`isoch_frames`, where the test is over (in `test_exchange` also when somebody waits
for a message that is not sent, which `ExchangeEnds` is about). The other modules have an
explicit stuttering step in their final states.

Fairness. Weak fairness of each thread: the operating system runs it, and every
wait in this code but `BarrierClient` and `accept` is timed, so a wait ends. Strong
fairness of `EndJob` in `ReporterJobq`: a test ends by time or amount even if the
thread could go on recording. In `UdpFin` both sides' own steps are fair, the network
is not: nothing need ever arrive. In `ThreadControl` nobody has to connect, to
fail or to send a signal, and an untimed `accept` need not return. In
`ClientTraffic` the end time passes, and a connection whose reader is gone breaks;
nothing else of the environment is fair. In `TestExchange` TCP delivers
what was written, so weak fairness of the whole step is enough.

## 4. Where the code does something else than it says

Nine configurations beside the runs reproduce a disagreement between the code
and one of its own comments or documents. TLC ends each of them with a
counterexample to the named property.

| Config, module, property | The code | What it says |
|---|---|---|
| 1. `MCPacketRingLoss.cfg`, `MCPacketRing`, `NothingLost` | the first half of the full test compares `producer` with `maxcount`, which it never reaches; a ring that is full with the reader on slot 0 is overrun (`src/packet_ring.c:92`) | "Wait for the consumer to create some queue space" (`src/packet_ring.c:98`) |
| 2. `MCTransferReportSignal.cfg`, `MCTransferReport`, `SignalBeforeFree` | `consumerdone` is set before the signal and polled by timeout, so the ring that is signalled may be free (`src/Reporter.c:605`) | "the traffic thread needs to free them, just signal" (`src/Reporter.c:606`) |
| 3. `MCFullDuplexBarrierServer.cfg`, `MCFullDuplexBarrier`, `OneCloses` | on the server side the barrier's timeout is 0, both threads get 0 and nobody frees or closes (`src/Reports.c:319`) | "FullDuplex report gets freed by a traffic thread (per its barrier)" (`src/Reporter.c:569`) |
| 4. `MCUdpAccountingEmpty.cfg`, `MCUdpAccounting`, `OnlyValidAccounted` | a read that timed out counts as an out-of-order datagram (`src/Reporter.c:855`) | "These are valid packets that need standard iperf accounting" (`src/Reporter.c:857`) |
| 5. `MCUdpFinRelay.cfg`, `MCUdpFin`, `RelayIsReport` | the AckFIN buffer is overwritten by the client's datagram and sent again (`src/Reports.c:951`) | "re-transmit our AckFIN" (`src/Reports.c:859-861`) |
| `MCPermitKey.cfg`, `MCTestExchange`, `PermitKeyAccepted` | `test_permit_key` reads header and key although the header has been read, so it takes the key from the traffic and refuses the right one (`src/Listener.cpp:1058`) | "Set a key value that must match for the server to accept traffic on a connection" (`man/iperf.1:66`) |
| `MCClientTrafficReport.cfg`, `MCClientTraffic`, `OneBigPacket` | with near congestion, no `-i` and no `-e` every write is reported, and the total once more at the end (`src/Client.cpp:1318`) | "report the entire transfer as one big packet" (`src/Client.cpp:1320-1323`) |
| `MCIntervalSumTime.cfg`, `MCIntervalSum`, `LargestTimeEnds` | the final packet's time is taken if the sum's is larger, so the sum ends at the smaller of the two (`src/Reporter.c:562`, 573) | "The largest packet timestamp sets the sum report final time" (`src/Reporter.c:561`) |
| `MCBurstSize.cfg`, `MCTestExchange`, `BurstSizeSet` | of the burst fields of the header only the frame rate is read, so a reversed client has the server's own `mBurstSize`, mostly 0, and writes bare burst headers (`src/Settings.cpp:1798-1801`) | `assert(mSettings->mBurstSize)` (`src/Client.cpp:560`; compiled out by `NDEBUG` in `config.h`) |

Others the models contain, and the properties except by name:

6. Between the end of a thread and the start of its `runNext` nobody is counted,
   so the reporter (and main) may leave, and `-1` may accept another client
   (`compat/Thread.c:395-404`; history variable `handover`, `OneClientAtATime`).
7. A rejected connection gives back a reference it never took
   (`src/Listener.cpp:263`; `Returned` in `RefCounts`).
8. The decision to free a sum report and the free are apart (`src/Reports.c:467`,
   `src/Reporter.c:576-581`), and the table hands the report out until the thread leaves
   it (`src/Server.cpp:282`): a new connection may take a reference in between, and loses its
   report (`late` in `FreedWhenUnused`), or one to a report that is freed.
9. The table keeps only the first port of a host, so only that flow is protected
   against a second server thread (`OneServerPerEntry`).
10. With reordered stores (no barrier at `src/packet_ring.c:124`) the reporter
    can read an old packet; `PointerStable` and the refinement hold, and are
    proved, for ordered stores only.
11. If the first datagram a server thread gets is the FIN, it does not end its loop
    (`src/Server.cpp:494`); a late FIN starts a server thread for a client that is gone
    (`src/Listener.cpp:919`). Both are behaviours of `UdpFin!Accept`.
    A server thread that stops by itself, on its `-t` timer, a fatal read or an interrupt
    (`src/Server.cpp:728-732`), sends its AckFINs while the client sends; they wait
    in the client's socket, which later takes one for the report of the whole test
    (`ended` in `AckAfterFin`).
12. If the final packet is lost in an overrun `EndJob` waits for ever
    (`overran` in `EndJobReturns`).

Threads (`ThreadControl`):

13. A registered Listener that ends by FAIL (`src/Listener.cpp:454`) stays in
    `nonterminating_num`; a later interrupt takes it off `thread_sNum` a second time
    (second disjunct of `MainLeavesLast`).
14. `BarrierClient` waits without a timeout and not in a loop: a parallel client that
    could not be created leaves the others waiting (`BarrierShort`), and a
    spurious wake-up lets one through (`spurious`).
15. The process does not end without its reporter, nor with one that cannot leave. If the
    reporter was not created (`compat/Thread.c:236`) clients wait for
    `reporter_state.ready` (`src/Launch.cpp:299-303`), and if it left in the moment of item 6
    traffic threads wait in `EndJob` (`ReporterAway`). A traffic thread that FAIL
    stops (`src/Client.cpp:602`) leaves its report in the queue, and the reporter
    goes on with it (`src/Reporter.c:437`; `ReporterStays`).
    A rejected connection uses up one of the server's `-P` connections
    (`src/Listener.cpp:242`); the signal handler locks the mutex of
    `thread_sNum_cond` (`src/main.cpp:330`), which the interrupted thread may hold;
    `clientListener` is never set, so the check at `src/Listener.cpp:258` is dead.

Interval sums (`IntervalSum`):

16. `++threads == reference.count` is a test for equality: once a thread has ended
    between two interval sums it can be overtaken and no interval sum is printed
    any more (`ended` in `SumKeepsPace`). A fast thread may report twice in a sum
    in which a slow one has not reported at all.
17. `filter_this_sample_output` stays set when the last interval sum came from a single
    remaining thread, and then suppresses the final sum
    (`src/Reporter.c:1617-1620` and 578; `sum.filter` in `FinalSumIsTotal`).
18. A thread that joins after its group's sum report was freed gets the freed report
    (state `lost`). `nextTime` of the sum is only set with `-t`. If all packets of a group
    are final ones its sum ends where it starts, and the rate is printed as zero
    (`sum.iEnd` in `FinalSumIsTotal`).

Traffic (`ClientTraffic`):

19. After a fatal write error on a connection that is full duplex or cannot be shut
    down the final packet keeps -1 or the length asked for (`LeftOver`);
    `RunRateLimitedTCP` forgets the bytes of a header before a fatal error.
20. Near congestion and rate limit write a header in pieces without using the rest of it
    (`torn` in `BurstsAligned`); a write time-out at the start of a burst stops the thread by
    FAIL (`src/Client.cpp:602`), which closes no socket (`compat/Thread.c:286-316`,
    `src/Settings.cpp:428-449`): the server waits on unless it has a timer (`stopped` in
    `TestEnds`).
21. A fatal error in `RunUDP` decrements `packetID`, so the final datagram repeats the
    last number (`UdpNumbers`); the inner loop of `RunUDPIsochronous` does not look
    at `fatalwrite_err`, so with `-n` it spins (`src/Client.cpp:1111-1166`; `TestEnds`).
22. `Server::RunTCP` adds the -1 of a read that timed out (`src/Server.cpp:242`; `minus`).
    Bursts and near congestion write up to one buffer more than `-n`.

Settings and headers (`TestExchange`; the exceptions of its properties):

23. `DetectDual`: `-X` with `-d` or `-r` sets both version flags and the server starts
    no client. `DualBursts`: with bursts the server's client of `-d` or `-r` gets no frame
    rate, or sends a test header nobody expects. `IsochBack`: the reader of reversed isochronous
    traffic waits for a test header that is sent only with trip times or bursts.
    `RateBursts`: `-b` with `--burst-period` writes no burst headers.
    `TripIgnored`: a server that ignores trip times does not tell the client, which
    with `-X` waits for the longer acknowledgement. `SizedIsoch`: over TCP `--isochronous`
    with `--burst-size` gets past the check of the two (`src/Settings.cpp:1305-1321`), since
    `--burst-size` turns on periodic bursts only behind it; the header then asks for
    bursts and the reversed client is not isochronous.
24. `mAmount` has 32 bits in the header, so `-n` of 2 GiB or more wraps with reverse, and
    so would a time that large (`HalfWord` in `ReversedAsAsked` and `ReaderOutlasts`);
    `-l 0` looks like no `-l` in the header; `--ipg` does not reach the reversed client, nor does
    `--burst-size` (its `mBurstSize` is the server's, `BurstSizeSet`), nor over UDP
    `--burst-period`.
25. The order of options matters although `src/Settings.cpp:1163` calls them position
    independent: `-P` before `-c` is lost, `-d`, `-r`, `-F`, `-I` and `-L` before `-c` are refused.

Frames and datagrams (`IsochFrames`, `UdpAccounting`):

26. `framecnt` is one too high; if the first frame counted is not the first one sent,
    the earlier ones are counted both as frames and as lost; reordered frames are
    overcounted as lost (`begun` and `disorder` in `ServerFrames`).
27. A frame of one datagram, or whose last one is padded, is told from its first by
    nothing, and a repeated datagram puts its latency into the histogram twice
    (`lone` in `LatencyOnce`). A latency right behind the last bin is in no bin and not out
    of bounds (`src/histogram.c:145-150`; `beyond` in `PrintedWhole`, which takes
    the confidence limits as they are asked for: the lower one first). Interval histograms
    of a UDP server are cumulative (`src/Reporter.c:1101`).
28. A frame of unknown kind is reported as empty with the number of the datagram
    before and a length that was not set: it is counted out of order and hides a loss. A last interval that is not longer than a quarter of
    an interval, or has no bytes, is not printed, with its losses and L2 errors
    (`src/Reporter.c:1146`; `unshown` in `IntervalsCoverTotal` and `L2Adds`). Read
    time-outs count the L2 errors of the last frame again, since `l2errors` is not
    reset (`l2found`).

## 5. Proofs

Every theorem is for all values of the constants, from the assumption named in
the module that declares them (`...Assumption`; TLC evaluates it on the run). The
safety properties are seldom inductive: each proof module defines the
stronger invariant first and says why it is needed. The invariants were
checked by TLC on small instances before they were proved.

`ReportEndProofs`, the ring, from `RingAssumption` (at least one slot, any number of
packets) only:

* `RingTypeCorrect`, `IndicesCountAlways`, `OverrunConfined` hold for reordered
  stores too. `IndicesCount` is not inductive: both threads act on an earlier read
  of the other one's index. `IndexInv` adds that such a decision stays right until it is
  acted upon: after "not empty" the indices differ, after "not full" the producer is
  not right behind the reader, because the other thread can only have moved away.
* `PointerStableAlways` and `RingImplementsFifo` assume `~StoreReorder`.
  `ContentInv` adds which packet each slot between the indices holds. The
  refinement maps `put` to `sent`, `got` to `seen`, `broken` to `overran`; the steps that
  do not map to Put, Get or Break stutter.

`ReportEndProofs`, the data report: every behaviour of `TransferReport` is one of the ring
(`TransferIsRing`: a step of either thread is a ring step or leaves the ring
alone), so the ring's theorems carry over (`TransferImplementsFifo`).
`FreedAfterFinalAlways` rests on `EndInv`, which ties the position of the traffic
thread and the predicate to the position of the reporter.
`FinalReportCompleteAlways` (for `~StoreReorder`) takes from `ContentInv` that the
reporter has counted as many packets as the number of the one it looks at.

`ReportEndProofs`, the barrier, from `BarrierAssumption`: `BarrierRightAlways` for the client
side. One counter serves two meetings, so `BarrierInv` lists what it can be for each pair of places
(`Meeting`) as long as no wait gave up. `ServerSideNeverCloses` proves item 3 of section 4
for every run of the server side.

`UdpProofs`, the accounting, from `AccountingAssumption`: the type invariant,
`LossIsGap`, `LossBounded`, `SumComplete`, `IntervalsCoverTotal` and `L2Adds`. `AccInv`
adds that totals never fall behind their previous values (`Monotone`), that the
interval's part of the gap is bounded by the interval's numbers
(`IntervalGap`), and that the sum always equals the totals at the last interval
(`SumSoFar`). Every packet, whatever its L2 errors, is counted by one operator;
what the last interval had is printed or is in `unshown`;
the lemmas `L2ErrorsRight`, `AddL2Right` and `CountL2Right` state what it does to the L2
figures, and `EmptyReportStep` treats read time-outs and unknown frames together.

`UdpProofs`, the handshake, from `FinAssumption`: `HandshakeRightAlways`. `FinInv` adds that
no negative number is in the network while the client sends (`NoEarlyFin`), and that a
thread in its final rounds has one left and knows what ended its loop (`EndKnown`).

`ThreadControlProofs`, from `ThreadAssumption` (finitely many tests and Listeners, any
`-P`; a client process has a client):

* `CountsExactAlways`: `CountInv` adds `Registration`, which Listeners are in
  `registered` by their place. The set of counted threads grows or shrinks by one
  with each change of the counts (`AddThread`, `RemoveThread`), or the step changes
  neither (`CountsKept`).
* `MainLeavesLastAlways`: `thread_joinall` returns at a count of zero; by `CountsExact`
  nobody is left but the Listeners that were released.
* `StartsInOrderAlways`, two invariants. `BarrierInv`: the count of `transmits_start` is
  `-P` less the clients that came, until a client got past. `ServeInv`: the threads a
  server process has running and has still to start are those of one test, and there
  are none while it accepts; this needs to know what is in the lists of threads to
  start (`Lists`, `ServerLists`).

`ReporterJobqProofs`, from `JobqAssumption` (finitely many threads; a `runNext` thread has none
itself and belongs to one thread, since `Settings_Copy` clears `runNext`,
`src/Settings.cpp:406`, and the Listener makes one client for one server,
`src/Listener.cpp:364-367`): `QueueRightAlways` and `ReporterLeavesLastAlways`. `QueueInv`
says what may be in the two lists by the place of the posting thread (`Posted`, `Handled`,
`Waited`), that all entries differ (`Distinct`) and where in the root list the reporter is
(`Walking`): a report is freed only when its owner is past `EndJob`, which it is only when
the walk is about to unlink the report. `Counts` ties `thread_sNum` to the threads that are alive, `Chains`
the `runNext` threads to the ones that start them.

`ActiveHostsProofs`, from `ActiveHostsAssumption`: `TableRightAlways`, `RefCountsAlways` and
the action property `FreedWhenUnusedAlways`. `TableInv` adds the bookkeeping of
what is between two locks: the connection the Listener has in hand (`ListenerHolds`),
sum reports made in order (`SumsInOrder`), that every host with a connection in
traffic is in the table (`Known`), and that between the decision to free a sum report and
the free nobody is attached to it but late comers and as many as were turned away
(`DoomedRight`). Thread and reference counts are cardinalities of sets of
connections, which every step changes by one.

`ClientTrafficProofs`, from `TrafficAssumption` (any header, buffer, burst and
connection size, any amount; the loops and options that go together, `Possible`):

* `BytesRightAlways`: `Places` says how much of the burst is written by the place in
  the loop, `ClientBytes` and `ServerBytes` that the bytes told of are those
  written, or taken, but for the call under way, and `AmountLeft` that written and left add
  up to the amount until it is used up.
* `BurstsAlignedAlways`: `BurstChain` says that behind every burst, by the size in its header, the
  next one begins, or will (`Frontier`), and that the reader's count leads to such a place.
  A step of the client keeps the next place (`ChainKept`) or begins a burst
  there (`ChainGrows`), in each of the three TCP loops.
* `UdpNumbersAlways`: `Numbers` gives the number of the next datagram.

`SumProofs`, the interval sums, from `IntervalAssumption`: `SumRightAlways`, `SumKeepsPaceAlways`
and `IntervalsTileAlways`. A sum over threads is a fold, and what a fold yields is an
induction over data that the prover cannot do; the lemmas at the head of the module
compare it with the number of pairs in a finite set (`Units`), which the library's
theorems about cardinality can follow when one thread's part changes. `IntervalInv` adds to
the properties that what a thread has passed on is part of what it has (`PassedOn`), that
`reference.count` is the number of running threads and the report is freed with the last one
(`CountRight`), and that, as long as no thread has ended, the interval reports counted are fewer
than the threads (`PaceInv`).

`SumProofs`, the isochronous frames, from `IsochAssumption`:

* `ClientFramesAlways`: `ClientInv` ties the frame under way, the last slot and the slips
  to the place of the client (`Tick`, `Sleep`, `Burst`).
* `ServerFramesAlways` and `LatencyOnceAlways`: `StreamInv` says of every datagram on its way, and
  of the one being counted, that no frame between the two numbers it carries was sent
  (`DatagramRight`), and, while nothing was reordered, that none of them starts a frame whose
  latency was taken (`OrderInv`).
* `PrintedWholeAlways`: `HistogramInv` says that the bins, and the latencies outside of them, add
  up to the latencies inserted, which every insertion changes by one.

`TestExchangeProofs`, from `ExchangeAssumption` (any set of the program's options with any
natural arguments, command lines of any length, servers that were not given client
options, and `-u` when the client was): `ReversedAsAskedAlways`, `ReaderOutlastsAlways` and `HeadersMeetAlways`.

* The settings are followed as facts that no option undoes (`Raw`, one lemma for each group of
  options), what `Settings_ModalOptions` leaves of a client it does not refuse (`Agreed`) and of
  a server (`Listens`), the header flag by flag (`HeaderFlags`, `HeaderUpper`,
  `HeaderNumbers`), and what the Listener makes of it (`ServerAsked`; `ServerAlone` without a
  header). `SetupInv` says that every thread started has its settings by this way; the
  properties of two threads compare what is at its two ends.
* `HeadersMeet` speaks of what was misread, and needs to know what will be read. `StreamsInv`
  says, for every place of client, Listener and readers, what is written and not read in each
  direction (`UpRight`, `AckRight`, `DownRight`), and which settings the readers have
  (`ReadersRight`).

Only model-checked: the eight liveness properties (`AllEnqueued`, `EndJobReturns`,
`AllThreadsFinish`, `BothFinish`, `HandshakeEnds`, `ProcessEnds`, `TestEnds`,
`ExchangeEnds`), which rest on fairness and are outside the prover's reach. Every
other property of the runs is a theorem.

## 6. Not modelled

Formatting and output (`src/ReportOutputs.c`, `src/Locale.c`, `src/stdio.c`), sockets and
address handling, delay loops, random distributions, floating-point statistics
(jitter, latency and connect time variance), checksums and packet filters at the
level of bytes (their verdict is an input of `UdpAccounting`), payload from files,
Windows service code, portability replacements, vendored getopt, the Python flow
scripts and shell tests. `RunWriteEventsTCP` is compiled out on this platform, and
write acknowledgements with their ack ring cannot be switched on by an option of this
version. Reasons per component are in `PROJECT.json`.

## 7. What could come next

1. The burst-id handlers of the TCP reporter (`src/Reporter.c:738-782`) beside
   `ClientTraffic`, and frame intervals in `IntervalSum`.
2. Composition of `TransferReport` with `ReporterJobq`, which today takes from it that
   `EndJob` returns after the final packet.
