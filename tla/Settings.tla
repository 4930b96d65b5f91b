------------------------------ MODULE Settings ------------------------------
(***************************************************************************)
(* The settings of a test (src/Settings.cpp): how a command line becomes   *)
(* struct thread_Settings, option by option in Settings_Interpret and at   *)
(* its end in Settings_ModalOptions, and how the settings travel from the  *)
(* client to the server in the test header: Settings_GenerateClientHdr     *)
(* writes it and the Listener (src/Listener.cpp) and                       *)
(* Settings_GenerateClientSettings read it.  The bit masks are sets of     *)
(* names.  An option is a record of its name and a number, the argument.   *)
(***************************************************************************)
EXTENDS Integers

CONSTANTS
    TcpBufLen, UdpBufLen, UdpBufLenV6,   \* the default lengths of a write
    UdpRate,        \* kDefault_UDPRate
    DefaultBurst,   \* 1 Mbyte, the default of --burst-size
    MinTripTime,    \* MINTRIPTIMEPLAYOAD
    DefaultTime,    \* 10 seconds, in units of 10 ms
    Slop,           \* SLOPSECS * 100
    DualTimer,      \* DUALTIMER_MS
    HalfWord        \* 2^31: mAmount has 32 bits in the header

ASSUME SettingsAssumption ==
    /\ {TcpBufLen, UdpBufLen, UdpBufLenV6, UdpRate, DefaultBurst, MinTripTime,
        DefaultTime, Slop, DualTimer} \subseteq Nat \ {0}
    /\ HalfWord \in Nat /\ DefaultTime < HalfWord

MaxIpgSecs == 60    \* MAXIPGSECS
MinKey == 4         \* MIN_PERMITKEY_LEN
MaxKey == 128       \* MAX_PERMITKEY_LEN

\* A key is a number; keys 50 to 59 have five characters.  0 is no key.
KeyLength(key) == key \div 10

\* The flags of struct thread_Settings.
Flags ==
    {"BuflenSet", "Compat", "Daemon", "IPV6", "FileInput", "NoDelay", "PrintMSS", "STDIN",
     "STDOUT", "UDP", "ModeTime", "Report", "Multicast", "NoSettReport", "NoConnReport",
     "NoDataReport", "NoServReport", "NoMultReport", "SingleClient", "SingleUDP",
     "CongestionControl", "Realtime", "BWSet", "Enhanced", "ServerModeTime", "SSMMulticast",
     "PeerVerDetect", "SeqNo64b", "Reverse", "Isochronous", "Histogram", "L2LengthCheck",
     "IncrDstIP", "IncrSrcIP", "TxStartTime", "TxHoldback", "VaryLoad", "FQPacing", "TripTime",
     "ModeInfinite", "ConnectOnly", "NoUDPfin", "ServerReverse", "FullDuplex", "NoConnectSync",
     "SumOnly", "FrameInterval", "IPG", "DontRoute", "NearCongest", "PermitKey", "TCPMSS",
     "IncrDstPort", "SumServerDstIP", "PeriodicBurst", "SmallTripTime", "RxClamp", "HideIPs",
     "CSV"}

\* The fields of struct thread_Settings a test depends on.  `infinite' is the
\* global infinitetime, `start' how far --txstart-time lies ahead, negative for a
\* negative time, and `hold' the time of --txdelay-time (seconds), `group' that the host of -c is a multicast
\* address, `bail' that the process ends with exit(1).
ThreadSettings ==
    [flags : SUBSET Flags, mThreadMode : {"Unknown", "Client", "Listener", "Server"},
     mMode : {"Normal", "DualTest", "TradeOff"}, mThreads : Nat, mAmount : Nat,
     infinite : BOOLEAN, mAppRate : Nat, pps : BOOLEAN, mBufLen : Nat, mBurstSize : Nat,
     mFPS : Nat, mPermitKey : Nat, mLocalhost : BOOLEAN, mListenPort : Nat,
     mConnectRetries : Nat, mInterval : Nat, mTTL : Int, start : Int, hold : Nat,
     mListenerTimeout : Int, group : BOOLEAN, bail : BOOLEAN]

\* Settings_Initialize.
Initialize ==
    [flags |-> {"ModeTime", "STDOUT"}, mThreadMode |-> "Unknown", mMode |-> "Normal",
     mThreads |-> 0, mAmount |-> DefaultTime, infinite |-> FALSE, mAppRate |-> 0,
     pps |-> FALSE, mBufLen |-> TcpBufLen, mBurstSize |-> 0, mFPS |-> 1,
     mPermitKey |-> 0, mLocalhost |-> FALSE, mListenPort |-> 0, mConnectRetries |-> 0,
     mInterval |-> 0, mTTL |-> -1, start |-> 0, hold |-> 0, mListenerTimeout |-> -1,
     group |-> FALSE, bail |-> FALSE]

ASSUME InitializeTyped == Initialize \in ThreadSettings

\* The macros isUDP(settings), setUDP(settings), unsetUDP(settings) ...
Is(s, flag) == flag \in s.flags
Set(s, names) == [s EXCEPT !.flags = @ \cup names]
Unset(s, names) == [s EXCEPT !.flags = @ \ names]

When(condition, names) == IF condition THEN names ELSE {}
Bail(s) == [s EXCEPT !.bail = TRUE]
IsClient(s) == s.mThreadMode = "Client"

\* One of the tests that send traffic back.
BothWays(s) == Is(s, "Reverse") \/ Is(s, "FullDuplex") \/ s.mMode # "Normal"

-----------------------------------------------------------------------------
\* Settings_Interpret, in the order of its switch: what each option makes of
\* the settings s, n being its argument.

\* -1, -b in its three forms, -c, -d, -e, -h, -i in its two forms, -l, -m
OptionsAtoM(s, n) ==
    [singleclient |-> Set(s, {"SingleClient"}),
     bandwidth    |-> [Set(s, {"BWSet"}) EXCEPT !.mAppRate = n, !.pps = FALSE],
     packetrate   |-> [Set(s, {"BWSet"}) EXCEPT !.mAppRate = n, !.pps = TRUE],
     variance     |-> [Set(s, {"BWSet", "VaryLoad"}) EXCEPT !.mAppRate = n, !.pps = FALSE],
     client       |-> LET h == [s EXCEPT !.group = (n = 1)]
                      IN  IF s.mThreadMode # "Unknown" THEN h
                          ELSE [h EXCEPT !.mThreadMode = "Client", !.mThreads = 1],
     dualtest     |-> IF IsClient(s) THEN [s EXCEPT !.mMode = "DualTest"] ELSE s,
     enhanced     |-> Set(s, {"Enhanced"}),
     help         |-> Bail(s),
     interval     |-> IF n = 0 THEN Bail(s) ELSE [s EXCEPT !.mInterval = n],
     frames       |-> Set(s, {"Enhanced", "FrameInterval"}),
     len          |-> [Set(s, {"BuflenSet"}) EXCEPT !.mBufLen = n],
     print_mss    |-> Set(s, {"PrintMSS"})]

\* -n, -o, -p with a range, -r, -s, -t, -u, -v, -x, -z, -y
OptionsNtoZ(s, n) ==
    [num          |-> IF n = 0 THEN Bail(s) ELSE [Unset(s, {"ModeTime"}) EXCEPT !.mAmount = n],
     output       |-> Unset(s, {"STDOUT"}),
     portrange    |-> Set(s, {"IncrDstPort"}),
     tradeoff     |-> IF IsClient(s) THEN [s EXCEPT !.mMode = "TradeOff"] ELSE s,
     server       |-> IF s.mThreadMode = "Unknown"
                      THEN [s EXCEPT !.mThreadMode = "Listener"] ELSE s,
     time         |-> LET t == Set(s, {"ModeTime", "ServerModeTime"})
                      IN  IF n > 0 THEN [t EXCEPT !.mAmount = n] ELSE [t EXCEPT !.infinite = TRUE],
     udp          |-> Set(s, {"UDP"}),
     version      |-> Bail(s),
     nosettings   |-> Set(s, {"NoSettReport"}),
     noconnection |-> Set(s, {"NoConnReport"}),
     nodata       |-> Set(s, {"NoDataReport"}),
     noserver     |-> Set(s, {"NoServReport"}),
     nomulti      |-> Set(s, {"NoMultReport"}),
     realtime     |-> Set(s, {"Realtime"}),
     csv          |-> Set(s, {"CSV", "NoSettReport", "NoConnReport"})]

\* -B, -C, -D, -F, -H, -I, -L, -M, -N, -P, -R, -T, -U, -V, -X, -Z
UpperOptions(s, n) ==
    [bind         |-> [s EXCEPT !.mLocalhost = TRUE],
     compat       |-> [Set(s, {"Compat"}) EXCEPT !.mMode = "Normal"],
     daemon       |-> Set(s, {"Daemon"}),
     fileinput    |-> IF IsClient(s) THEN Set(s, {"FileInput"}) ELSE s,
     ssm_host     |-> IF IsClient(s) THEN s ELSE Set(s, {"SSMMulticast"}),
     stdin        |-> IF IsClient(s) THEN Set(s, {"FileInput", "STDIN"}) ELSE s,
     listenport   |-> IF IsClient(s) THEN [s EXCEPT !.mListenPort = n] ELSE s,
     mss          |-> Set(s, {"PrintMSS", "TCPMSS"}),
     nodelay      |-> Set(s, {"NoDelay"}),
     parallel     |-> [s EXCEPT !.mThreads = n],
     reverse      |-> Set(s, {"Reverse"}),
     ttl          |-> [s EXCEPT !.mTTL = n],
     single_udp   |-> Set(s, {"UDP", "SingleUDP", "SingleClient"}),
     ipv6_domain  |-> Set(s, {"IPV6"}),
     peer_detect  |-> Set(s, {"PeerVerDetect"}),
     congestion   |-> Set(s, {"CongestionControl"})]

\* The long options: --incr-dstip to --permit-key-timeout
LongOptions(s, n) ==
    [incr_dstip   |-> Set(s, {"IncrDstIP"}),
     incr_srcip   |-> Set(s, {"IncrSrcIP"}),
     sum_dstip    |-> Set(s, {"SumServerDstIP"}),
     txstart_time |-> [Set(s, {"TxStartTime", "Enhanced"}) EXCEPT !.start = n],
     no_connect_sync |-> Set(s, {"NoConnectSync"}),
     txdelay_time |-> [Set(s, {"TxHoldback"}) EXCEPT !.hold = n],
     trip_times   |-> Set(s, {"TripTime"}),
     no_udp_fin   |-> Set(s, {"NoUDPfin"}),
     connect_only |-> Unset(Set(s, {"ConnectOnly"}), {"NoConnReport"}),
     connect_retries |-> [s EXCEPT !.mConnectRetries = n],
     sum_only     |-> Set(s, {"SumOnly"}),
     local_only   |-> IF n = 0 THEN Unset(s, {"DontRoute"}) ELSE Set(s, {"DontRoute"}),
     near_congestion |-> Set(s, {"NearCongest"}),
     permit_key   |-> [Set(s, {"PermitKey"}) EXCEPT !.mPermitKey = n],
     permit_key_timeout |-> [s EXCEPT !.mListenerTimeout = n]]

\* The long options: --histograms to --hide-ips
MoreLongOptions(s, n) ==
    [histograms   |-> Set(s, {"Histogram", "Enhanced"}),
     full_duplex  |-> Set(s, {"FullDuplex"}),
     fq_rate      |-> Set(s, {"FQPacing"}),
     isochronous  |-> [Set(s, {"Enhanced", "Isochronous"}) EXCEPT !.mFPS = 60],
     ipg          |-> Set(s, {"IPG"}),
     rx_clamp     |-> Set(s, {"RxClamp"}),
     burst_period |-> [Set(s, {"PeriodicBurst"}) EXCEPT !.mFPS = n],
     burst_size   |-> [s EXCEPT !.mBurstSize = n],
     hide_ips     |-> Set(s, {"HideIPs"})]

Interpret(option, s) ==
    LET n == option.arg
        options == CHOOSE list \in {OptionsAtoM(s, n), OptionsNtoZ(s, n), UpperOptions(s, n),
                                    LongOptions(s, n), MoreLongOptions(s, n)} :
                       option.name \in DOMAIN list
    IN  options[option.name]

OptionNames ==
    LET s == Initialize
    IN  DOMAIN OptionsAtoM(s, 0) \cup DOMAIN OptionsNtoZ(s, 0) \cup DOMAIN UpperOptions(s, 0)
        \cup DOMAIN LongOptions(s, 0) \cup DOMAIN MoreLongOptions(s, 0)

-----------------------------------------------------------------------------
\* Settings_ModalOptions: what depends on more than one option.

\* The default sizes and rates, and the test without an end.
Defaults(s) ==
    LET len  == IF Is(s, "BuflenSet") THEN s.mBufLen
                ELSE IF ~Is(s, "UDP") THEN TcpBufLen
                ELSE IF Is(s, "IPV6") /\ IsClient(s) THEN UdpBufLenV6 ELSE UdpBufLen
        rate == IF Is(s, "UDP") /\ ~Is(s, "BWSet") THEN UdpRate ELSE s.mAppRate
        ever == IsClient(s) /\ Is(s, "ModeTime") /\ s.infinite
    IN  [s EXCEPT !.mBufLen = len, !.mAppRate = rate,
                  !.flags = (@ \ When(ever, {"ModeTime"})) \cup When(ever, {"ModeInfinite"})
                            \cup When(Is(s, "TripTime") /\ BothWays(s), {"Enhanced"})]

\* compat mode doesn't support these test settings; the key's length
RefusedFirst(s) ==
    \/ /\ Is(s, "Compat")
       /\ \/ BothWays(s)
          \/ s.flags \cap {"TripTime", "VaryLoad", "Histogram", "Isochronous", "Enhanced"} # {}
    \/ /\ Is(s, "PermitKey")
       /\ \/ Is(s, "UDP")
          \/ s.mPermitKey # 0 /\ KeyLength(s.mPermitKey) \notin MinKey..MaxKey

\* The client's settings that follow from --burst-period and --burst-size.
ClientBursts(s) ==
    LET periodic == Is(s, "PeriodicBurst")
        named == [Unset(s, {"RxClamp"}) EXCEPT
                  !.flags = @ \cup When(periodic, {"Enhanced", "FrameInterval"})]
    IN  IF periodic
        THEN [named EXCEPT !.mBurstSize = IF @ = 0 /\ ~Is(s, "Isochronous") /\ ~Is(s, "NearCongest")
                                          THEN DefaultBurst ELSE @]
        ELSE [named EXCEPT !.flags = @ \cup When(s.mBurstSize > 0, {"PeriodicBurst"}),
                           !.mFPS = IF s.mBurstSize > 0 THEN 1 ELSE @]

\* What a client cannot have together, whatever the protocol; `s' as it was
\* given, `c' with its bursts.
ClientRefused(s, c) ==
    \/ Is(s, "IncrSrcIP") /\ ~s.mLocalhost
    \/ s.mTTL > 255
    \/ Is(s, "PermitKey") /\ s.mPermitKey = 0
    \/ ~Is(s, "UDP") /\ Is(s, "TxHoldback") /\ Is(s, "TxStartTime")
    \/ Is(s, "TxStartTime") /\ (s.start < 0 \/ s.start > 3600)
    \/ Is(s, "TxHoldback") /\ ~Is(s, "TxStartTime") /\ s.hold > 3600
    \/ /\ Is(s, "PeriodicBurst")
       /\ Is(s, "Isochronous") \/ Is(s, "NearCongest") \/ c.mBurstSize < c.mBufLen

\* What a UDP client cannot have; the delay between two datagrams is at most a
\* minute.  The value of --ipg is left out.
UdpRefused(s) ==
    \/ s.flags \cap {"PeerVerDetect", "ConnectOnly", "NearCongest"} # {}
    \/ Is(s, "IPG") /\ Is(s, "BWSet")
    \/ s.mConnectRetries > 0
    \/ /\ ~Is(s, "IPG")
       /\ IF s.pps THEN s.mAppRate = 0 ELSE s.mBufLen * 8 > MaxIpgSecs * s.mAppRate
    \/ Is(s, "TripTime") /\ s.mBufLen < MinTripTime /\ BothWays(s)

\* What a TCP client cannot have.
TcpRefused(s) ==
    \/ s.mAppRate > 0 /\ Is(s, "NearCongest")
    \/ Is(s, "BWSet") /\ ~s.pps /\ s.mAppRate \div 8 < s.mBufLen
    \/ s.flags \cap {"IPG", "NoUDPfin"} # {}
    \/ Is(s, "TxHoldback") /\ Is(s, "ConnectOnly")
    \/ s.pps

\* Only one of the tests that send traffic back.
MoreThanOneTest(s) ==
    \/ Is(s, "FullDuplex") /\ (Is(s, "Reverse") \/ s.mMode # "Normal")
    \/ Is(s, "Reverse") /\ s.mMode # "Normal"

OthersRefused(s) ==
    \/ Is(s, "CongestionControl") /\ Is(s, "Reverse")
    \/ MoreThanOneTest(s)
    \/ Is(s, "BWSet") /\ Is(s, "Isochronous")

\* The settings of a listener: a key of its own making if none was given, and
\* how long it is good for.
ListenerModal(s) ==
    [Unset(s, When(Is(s, "UDP"), {"RxClamp"})) EXCEPT
        !.mPermitKey = IF Is(s, "PermitKey") /\ @ = 0 THEN 10 * MinKey ELSE @,
        !.mListenerTimeout = IF Is(s, "PermitKey") /\ @ < 0 THEN 20 ELSE @]

\* After the last check: no final handshake in a full duplex test over UDP, and
\* a burst is as large as a write.
Finish(s) ==
    IF Is(s, "UDP")
    THEN Set(s, When(Is(s, "FullDuplex"), {"NoUDPfin"}))
    ELSE [s EXCEPT !.mBurstSize =
            IF (@ > 0 /\ @ < s.mBufLen) \/ (@ = 0 /\ Is(s, "TripTime")) THEN s.mBufLen ELSE @]

\* A client of a multicast group has one thread, and sends only.
GroupRefused(s) == s.group /\ ((s.mThreads > 1 /\ ~Is(s, "IncrDstIP")) \/ BothWays(s))

ModalOptions(settings) ==
    LET s == Defaults(settings)
        c == ClientBursts(s)
        small == Is(s, "UDP") /\ Is(s, "TripTime") /\ s.mBufLen < MinTripTime
        refused == \/ RefusedFirst(s)
                   \/ IsClient(s) /\ \/ ClientRefused(s, c)
                                     \/ Is(s, "UDP") /\ UdpRefused(s)
                                     \/ ~Is(s, "UDP") /\ TcpRefused(s)
                                     \/ OthersRefused(s)
                                     \/ GroupRefused(s)
    IN  IF s.bail \/ refused THEN Bail(s)
        ELSE Finish(IF IsClient(s) THEN Set(c, When(small, {"SmallTripTime"})
                                                  \cup When(s.group, {"Multicast"}))
                                   ELSE ListenerModal(s))

-----------------------------------------------------------------------------
\* The test header, struct client_tcp_testhdr and struct client_udp_testhdr.

\* Fault: a time is sent as it is.
HdrAmountPlain(s) == s.mAmount % HalfWord

\* mAmount of the header: 32 bits, negative for a time.
HdrAmount(s) ==
    IF Is(s, "ModeTime") THEN (2 * HalfWord - s.mAmount) % (2 * HalfWord)
                         ELSE s.mAmount % HalfWord

\* Settings_GenerateClientHdrV1.
HdrV1(s) ==
    [amount |-> HdrAmount(s), bufLen |-> IF Is(s, "BuflenSet") THEN s.mBufLen ELSE 0]

\* flags common to both TCP and UDP
CommonUpper(s) ==
    When(Is(s, "Reverse") /\ ~Is(s, "Compat"), {"REVERSE"})
    \cup When(Is(s, "FullDuplex") /\ ~Is(s, "Compat"), {"FULLDUPLEX"})
    \cup When(Is(s, "TxStartTime"), {"EPOCH_START"})
    \cup When(Is(s, "TripTime"), {"TRIPTIME"})
    \cup When(Is(s, "FQPacing"), {"FQRATESET"})

V1Flags(s) ==
    When(~Is(s, "Compat") /\ s.mMode # "Normal",
         {"VERSION1"} \cup When(s.mMode = "DualTest", {"RUN_NOW"}))

SameSocketBack(s) == Is(s, "Reverse") \/ Is(s, "FullDuplex")

\* The UDP half of Settings_GenerateClientHdr.  The flags of short datagrams
\* with trip times stand alone.
UdpHdr(s) ==
    IF Is(s, "SmallTripTime")
    THEN [flags |-> {"SMALL_TRIPTIMES"}, upper |-> {}, v1 |-> HdrV1(s), rate |-> 0, fps |-> 0,
          burst |-> 0, key |-> 0]
    ELSE [flags |-> {"SEQNO64B", "EXTEND", "LEN_BIT"} \cup V1Flags(s)
                    \cup When(s.flags \cap {"L2LengthCheck", "Isochronous", "NoUDPfin", "TripTime",
                                            "FQPacing", "TxStartTime"} # {}, {"UDPTESTS"})
                    \cup When(SameSocketBack(s), {"UDPTESTS", "VERSION2"}),
          upper |-> CommonUpper(s)
                    \cup When(Is(s, "L2LengthCheck"), {"L2LENCHECK"} \cup When(Is(s, "IPV6"), {"L2ETHPIPV6"}))
                    \cup When(Is(s, "Isochronous"),
                              {"ISOCH"} \cup When(SameSocketBack(s), {"ISOCH_SETTINGS"}))
                    \cup When(Is(s, "NoUDPfin"), {"NOUDPFIN"}),
          v1    |-> HdrV1(s),
          rate  |-> IF ~(Is(s, "BWSet") /\ s.mAppRate > 0) THEN UdpRate
                    ELSE IF s.pps /\ BothWays(s) THEN s.mAppRate * 8 * s.mBufLen ELSE s.mAppRate,
          fps   |-> IF Is(s, "Isochronous") /\ SameSocketBack(s) THEN s.mFPS ELSE 0,
          burst |-> 0, key |-> 0]

\* The TCP half.
TcpHdr(s) ==
    LET key == ~Is(s, "ServerReverse") /\ Is(s, "PermitKey") /\ s.mPermitKey # 0
        periodic == Is(s, "PeriodicBurst")
    IN  [flags |-> {"EXTEND", "LEN_BIT"} \cup V1Flags(s)
                   \cup When(Is(s, "PeerVerDetect"), {"V2PEERDETECT", "VERSION2"})
                   \cup When(SameSocketBack(s), {"VERSION2"})
                   \cup When(key, {"KEYCHECK"}),
         upper |-> CommonUpper(s)
                   \cup When(periodic, {"PERIODICBURST"})
                   \cup When(Is(s, "Isochronous") /\ ~periodic, {"ISOCH"}),
         v1    |-> HdrV1(s),
         rate  |-> IF Is(s, "BWSet") THEN s.mAppRate ELSE 0,
         fps   |-> IF periodic \/ (Is(s, "Isochronous") /\ SameSocketBack(s)) THEN s.mFPS ELSE 0,
         burst |-> IF periodic THEN s.mBurstSize ELSE 0,
         key   |-> IF key THEN s.mPermitKey ELSE 0]

\* Settings_GenerateClientHdr.
GenerateClientHdr(s) == IF Is(s, "UDP") THEN UdpHdr(s) ELSE TcpHdr(s)

\* The bits found in the pattern Client::Client fills its buffer with, where a
\* client that sends no header leaves them: "0123" and "6789".  WriteTcpTxHdr
\* leaves the flags of a burst header as they are.
PatternHdr(s) ==
    [flags |-> IF Is(s, "UDP")
               THEN {"UDPTESTS", "KEYCHECK", "VERSION2", "V2PEERDETECT", "SMALL_TRIPTIMES",
                     "LEN_BIT", "RUN_NOW"}
               ELSE {"UDPTESTS", "KEYCHECK", "LEN_BIT", "RUN_NOW"},
     upper |-> {}, v1 |-> HdrV1(s), rate |-> 0, fps |-> 0, burst |-> 0, key |-> 0]

\* Settings_ClientTestHdrLen is not zero: there is more to read.
HasTestHdr(h, s) ==
    h.flags \cap {"VERSION1", "VERSION2", "EXTEND"} # {} \/ Is(s, "PermitKey")

-----------------------------------------------------------------------------
\* What the Listener makes of the header.

V1Test(h) == "VERSION1" \in h.flags /\ "VERSION2" \notin h.flags

V1Mode(h, s) ==
    IF V1Test(h) THEN (IF "RUN_NOW" \in h.flags THEN "DualTest" ELSE "TradeOff") ELSE s.mMode

\* The checks of --txstart-time and --trip-times against the server's clock,
\* which agrees with the client's ("close"), to within an hour ("apart") or
\* not at all ("far").
StartKept(h, clocks) == "EPOCH_START" \in h.upper /\ clocks # "far"
TripKept(h, clocks) == "TRIPTIME" \in h.upper /\ (StartKept(h, clocks) \/ clocks = "close")

TimeFlags(h, clocks) ==
    When(StartKept(h, clocks), {"TxStartTime"})
    \cup When(TripKept(h, clocks), {"TripTime", "Enhanced"})

\* Listener::apply_client_settings_udp
ApplyUdp(s, h, clocks) ==
    LET seq == Set(s, When("SEQNO64B" \in h.flags, {"SeqNo64b"}))
        tests == "UDPTESTS" \in h.flags
        reverse == "VERSION2" \in h.flags /\ "REVERSE" \in h.upper
        duplex == "VERSION2" \in h.flags /\ "FULLDUPLEX" \in h.upper
    IN  IF "SMALL_TRIPTIMES" \in h.flags THEN Set(seq, {"TripTime", "Enhanced"})
        ELSE [seq EXCEPT
                !.mMode = V1Mode(h, s),
                !.mThreadMode = IF reverse THEN "Client" ELSE @,
                !.flags = (@ \ When(tests, {"IPV6"}))
                          \cup When(tests /\ "ISOCH" \in h.upper, {"Isochronous"})
                          \cup When(tests /\ "L2ETHPIPV6" \in h.upper, {"IPV6"})
                          \cup When(tests /\ "L2LENCHECK" \in h.upper, {"L2LengthCheck"})
                          \cup When(tests /\ "NOUDPFIN" \in h.upper, {"NoUDPfin"})
                          \cup TimeFlags(h, clocks)
                          \cup When(duplex, {"FullDuplex", "ServerReverse"})
                          \cup When(reverse, {"ServerReverse", "NoUDPfin"})]

\* Listener::apply_client_settings_tcp, once the header is read and the key is
\* found good.
ApplyTcp(s, h, clocks) ==
    LET reverse == "VERSION2" \in h.flags /\ "REVERSE" \in h.upper
        duplex == "VERSION2" \in h.flags /\ "FULLDUPLEX" \in h.upper
        periodic == "PERIODICBURST" \in h.upper
    IN  IF "EXTEND" \notin h.flags THEN [s EXCEPT !.mMode = V1Mode(h, s)]
        ELSE [s EXCEPT
                !.mMode = V1Mode(h, s),
                !.mThreadMode = IF reverse THEN "Client" ELSE @,
                !.mFPS = IF periodic THEN (IF h.fps = 0 THEN 1 ELSE h.fps) ELSE @,
                !.flags = @ \cup When("ISOCH" \in h.upper, {"Isochronous"})
                            \cup TimeFlags(h, clocks)
                            \cup When(periodic, {"Enhanced", "FrameInterval", "PeriodicBurst"})
                            \cup When(duplex, {"FullDuplex", "ServerReverse"})
                            \cup When(reverse, {"ServerReverse"})]

\* Fault: only the older flags ask for an acknowledgement.
AckDueOld(h, listener) ==
    ~Is(listener, "Compat") /\ "EXTEND" \in h.flags /\ "VERSION2" \notin h.flags

\* The condition under which the Listener answers with client_test_ack.
AckDue(h, listener) ==
    /\ ~Is(listener, "Compat")
    /\ \/ "EXTEND" \in h.flags /\ "VERSION2" \notin h.flags
       \/ "V2PEERDETECT" \in h.flags

\* Settings_ReadClientSettingsV1.
ReadV1(s, v1) ==
    LET timed == v1.amount >= HalfWord
    IN  [s EXCEPT !.mThreads = 1,
                  !.mBufLen = IF v1.bufLen # 0 THEN v1.bufLen ELSE @,
                  !.mAmount = IF timed THEN 2 * HalfWord - v1.amount ELSE v1.amount,
                  !.flags = IF timed THEN @ \cup {"ModeTime"} ELSE @ \ {"ModeTime"}]

\* The client the Listener starts: Settings_GenerateClientSettings, of the
\* server's settings s.
ReversedClient(s, h) ==
    LET v1 == V1Test(h)
        start == [s EXCEPT !.mThreadMode = "Client",
                           !.flags = IF Is(s, "FullDuplex") /\ "VERSION1" \notin h.flags
                                     THEN @ ELSE @ \ {"FullDuplex"}]
        read == ReadV1(start, h.v1)
        extend == "EXTEND" \in h.flags
        udp == Is(s, "UDP")
    IN  [read EXCEPT
            !.mMode = IF v1 THEN V1Mode(h, s) ELSE "Normal",
            !.mAppRate = IF extend THEN h.rate ELSE @,
            !.pps = IF extend /\ udp THEN FALSE ELSE @,
            !.mFPS = IF extend /\ (Is(s, "Isochronous") \/ (~udp /\ Is(s, "PeriodicBurst")))
                     THEN h.fps ELSE @,
            !.flags = (@ \cup {"NoSettReport", "NoConnectSync"}
                         \cup When(v1, {"ServerReverse"})
                         \cup When(extend /\ udp /\ "NOUDPFIN" \in h.upper, {"NoUDPfin"})
                         \cup When(extend /\ "FQRATESET" \in h.upper, {"FQPacing"}))
                      \ {"TxHoldback"}]

\* ... and the server of a test both ways ends later than its client.
ServerAmount(s, h) ==
    IF Is(s, "FullDuplex") \/ V1Test(h) THEN ReadV1(s, h.v1).mAmount + Slop ELSE s.mAmount

\* Fault: no time more than the test takes.
ListenerSettingsExact(s) ==
    [s EXCEPT !.flags = (@ \ {"Daemon"}) \cup {"Compat"}, !.mMode = "Normal",
              !.mThreadMode = "Listener"]

\* The listener a client starts for -d and -r: Settings_GenerateListenerSettings.
ListenerSettings(s) ==
    LET amount == s.mAmount + (IF s.mMode = "TradeOff" THEN DualTimer ELSE Slop)
    IN  [s EXCEPT !.flags = (@ \ {"Daemon"}) \cup {"Compat"},
                  !.mAmount = IF amount < DualTimer THEN DualTimer ELSE amount,
                  !.mMode = "Normal", !.mThreadMode = "Listener"]
=============================================================================
