------------------------- MODULE TestExchangeProofs -------------------------
(***************************************************************************)
(* Proofs about TestExchange for every command line of the client, every   *)
(* plain server, every buffer size, rate, time and amount.                 *)
(*                                                                         *)
(* The settings come first: what no option undoes (Raw), what              *)
(* Settings_ModalOptions leaves of a client it does not refuse (Agreed)    *)
(* and of a server (Listens).  Then the header, flag by flag, and what the *)
(* Listener makes of it (ServerAsked, ServerAlone).  None of the           *)
(* properties is inductive, as they speak of the two ends of a stream and  *)
(* not of the way the settings take from one to the other:                 *)
(*                                                                         *)
(* SetupInv follows the settings through the header to every thread that   *)
(* is started;                                                             *)
(*                                                                         *)
(* StreamsInv says what is on each direction of the client's connection,   *)
(* for each place of the client, the Listener and the reader.              *)
(***************************************************************************)
EXTENDS TestExchange, TLAPS

-----------------------------------------------------------------------------
\* The settings: what no option of a command line can undo.

\* The fields of struct thread_Settings.
Fields ==
    {"flags", "mThreadMode", "mMode", "mThreads", "mAmount", "infinite", "mAppRate", "pps",
     "mBufLen", "mBurstSize", "mFPS", "mPermitKey", "mLocalhost", "mListenPort",
     "mConnectRetries", "mInterval", "mTTL", "start", "hold", "mListenerTimeout", "group", "bail"}
IsSettings(s) == s = [f \in Fields |-> s[f]]

\* The settings while options are read: there is an amount, a rate is there only
\* when one was asked for, and no option sets the flags that are set at the end.
Raw(s) ==
    /\ IsSettings(s)
    /\ s.mAmount \in Nat \ {0} /\ s.mAppRate \in Nat /\ s.mBufLen \in Nat
    /\ s.mBurstSize \in Nat /\ s.pps \in BOOLEAN
    /\ s.mMode \in {"Normal", "DualTest", "TradeOff"}
    /\ s.pps \/ s.mAppRate # 0 => Is(s, "BWSet")
    /\ s.flags \cap {"SmallTripTime", "Multicast", "ServerReverse"} = {}

\* Before the first option.
LEMMA InitializeRaw == Raw(Initialize)
  BY SettingsAssumption DEF Initialize, Raw, IsSettings, Fields, Is

\* Flags that are set.
LEMMA RawSet ==
  ASSUME NEW s, Raw(s), NEW T, T \cap {"SmallTripTime", "Multicast", "ServerReverse"} = {}
  PROVE  Raw(Set(s, T)) /\ ("BWSet" \in T => Is(Set(s, T), "BWSet"))
  BY DEF Raw, IsSettings, Fields, Is, Set

\* Flags that are reset.
LEMMA RawUnset ==
  ASSUME NEW s, Raw(s), NEW T, "BWSet" \notin T
  PROVE  Raw(Unset(s, T))
  BY DEF Raw, IsSettings, Fields, Is, Unset

\* Fields of which nothing is said.
LEMMA RawOther ==
  ASSUME NEW s, Raw(s), NEW v,
         NEW f \in {"mThreadMode", "mThreads", "infinite", "mFPS", "mPermitKey", "mLocalhost",
                    "mListenPort", "mConnectRetries", "mInterval", "mTTL", "start", "hold",
                    "mListenerTimeout", "group", "bail"}
  PROVE  Raw([s EXCEPT ![f] = v])
  BY DEF Raw, IsSettings, Fields, Is

\* An amount, a length or a rate.
LEMMA RawNumber ==
  ASSUME NEW s, Raw(s), NEW n \in Nat
  PROVE  /\ n # 0 => Raw([s EXCEPT !.mAmount = n])
         /\ Raw([s EXCEPT !.mBufLen = n]) /\ Raw([s EXCEPT !.mBurstSize = n])
         /\ Is(s, "BWSet") => /\ Raw([s EXCEPT !.mAppRate = n, !.pps = TRUE])
                              /\ Raw([s EXCEPT !.mAppRate = n, !.pps = FALSE])
  BY DEF Raw, IsSettings, Fields, Is

\* Another test.
LEMMA RawMode ==
  ASSUME NEW s, Raw(s), NEW m \in {"Normal", "DualTest", "TradeOff"}
  PROVE  Raw([s EXCEPT !.mMode = m])
  BY DEF Raw, IsSettings, Fields, Is


\* Every option keeps this: -1 to -m,
LEMMA RawOptionsAtoM ==
  ASSUME NEW s, Raw(s), NEW n \in Nat
  PROVE  \A x \in DOMAIN OptionsAtoM(s, n) : Raw(OptionsAtoM(s, n)[x])
<1> DEFINE o == OptionsAtoM(s, n)
<1>1. DOMAIN o = {"singleclient", "bandwidth", "packetrate", "variance", "client", "dualtest",
                  "enhanced", "help", "interval", "frames", "len", "print_mss"}
  BY DEF OptionsAtoM
<1>2. Raw(o.singleclient) /\ Raw(o.enhanced) /\ Raw(o.frames) /\ Raw(o.print_mss)
  BY RawSet DEF OptionsAtoM
<1>3. Raw(o.bandwidth)
  BY RawSet, RawNumber DEF OptionsAtoM
<1>4. Raw(o.packetrate)
  BY RawSet, RawNumber DEF OptionsAtoM
<1>5. Raw(o.variance)
  BY RawSet, RawNumber DEF OptionsAtoM
<1>6. Raw(o.client)
  BY RawOther DEF OptionsAtoM
<1>7. Raw(o.dualtest)
  BY RawMode DEF OptionsAtoM
<1>8. Raw(o.help)
  BY RawOther DEF OptionsAtoM, Bail
<1>9. Raw(o.interval)
  BY RawOther DEF OptionsAtoM, Bail
<1>10. Raw(o.len)
  BY RawSet, RawNumber DEF OptionsAtoM
<1> QED BY <1>1, <1>2, <1>3, <1>4, <1>5, <1>6, <1>7, <1>8, <1>9, <1>10


\* -n to -y,
LEMMA RawOptionsNtoZ ==
  ASSUME NEW s, Raw(s), NEW n \in Nat
  PROVE  \A x \in DOMAIN OptionsNtoZ(s, n) : Raw(OptionsNtoZ(s, n)[x])
<1> DEFINE o == OptionsNtoZ(s, n)
<1>1. DOMAIN o = {"num", "output", "portrange", "tradeoff", "server", "time", "udp", "version",
                  "nosettings", "noconnection", "nodata", "noserver", "nomulti", "realtime",
                  "csv"}
  BY DEF OptionsNtoZ
<1>2. Raw(o.portrange) /\ Raw(o.udp) /\ Raw(o.nosettings) /\ Raw(o.noconnection)
      /\ Raw(o.nodata) /\ Raw(o.noserver) /\ Raw(o.nomulti) /\ Raw(o.realtime) /\ Raw(o.csv)
  BY RawSet DEF OptionsNtoZ
<1>3. Raw(o.num)
  BY RawUnset, RawOther, RawNumber DEF OptionsNtoZ, Bail
<1>4. Raw(o.output)
  BY RawUnset DEF OptionsNtoZ
<1>5. Raw(o.tradeoff)
  BY RawMode DEF OptionsNtoZ
<1>6. Raw(o.server)
  BY RawOther DEF OptionsNtoZ
<1>7. Raw(o.time)
  <2>1. Raw(Set(s, {"ModeTime", "ServerModeTime"}))
    BY RawSet
  <2>2. CASE n > 0
    <3>1. o.time = [Set(s, {"ModeTime", "ServerModeTime"}) EXCEPT !.mAmount = n]
      BY <2>2 DEF OptionsNtoZ
    <3>2. Raw([Set(s, {"ModeTime", "ServerModeTime"}) EXCEPT !.mAmount = n])
      <4>1. n # 0 /\ n \in Nat
        BY <2>2
      <4> QED BY <2>1, <4>1, RawNumber, Zenon
    <3> QED BY <3>1, <3>2
  <2>3. CASE ~(n > 0)
    <3>1. o.time = [Set(s, {"ModeTime", "ServerModeTime"}) EXCEPT !.infinite = TRUE]
      BY <2>3 DEF OptionsNtoZ
    <3>2. Raw([Set(s, {"ModeTime", "ServerModeTime"}) EXCEPT !.infinite = TRUE])
      BY <2>1, RawOther
    <3> QED BY <3>1, <3>2
  <2> QED BY <2>2, <2>3
<1>8. Raw(o.version)
  BY RawOther DEF OptionsNtoZ, Bail
<1> QED BY <1>1, <1>2, <1>3, <1>4, <1>5, <1>6, <1>7, <1>8


\* -B to -Z
LEMMA RawUpperOptions ==
  ASSUME NEW s, Raw(s), NEW n \in Nat
  PROVE  \A x \in DOMAIN UpperOptions(s, n) : Raw(UpperOptions(s, n)[x])
<1> DEFINE o == UpperOptions(s, n)
<1>1. DOMAIN o = {"bind", "compat", "daemon", "fileinput", "ssm_host", "stdin", "listenport",
                  "mss", "nodelay", "parallel", "reverse", "ttl", "single_udp", "ipv6_domain",
                  "peer_detect", "congestion"}
  BY DEF UpperOptions
<1>2. Raw(o.daemon) /\ Raw(o.mss) /\ Raw(o.nodelay) /\ Raw(o.reverse) /\ Raw(o.single_udp)
      /\ Raw(o.ipv6_domain) /\ Raw(o.peer_detect) /\ Raw(o.congestion)
  BY RawSet DEF UpperOptions
<1>3. Raw(o.bind)
  BY RawOther DEF UpperOptions
<1>4. Raw(o.compat)
  BY RawSet, RawMode DEF UpperOptions
<1>5. Raw(o.fileinput)
  BY RawSet DEF UpperOptions
<1>6. Raw(o.ssm_host)
  BY RawSet DEF UpperOptions
<1>7. Raw(o.stdin)
  BY RawSet DEF UpperOptions
<1>8. Raw(o.listenport)
  BY RawOther DEF UpperOptions
<1>9. Raw(o.parallel)
  BY RawOther DEF UpperOptions
<1>10. Raw(o.ttl)
  BY RawOther DEF UpperOptions
<1> QED BY <1>1, <1>2, <1>3, <1>4, <1>5, <1>6, <1>7, <1>8, <1>9, <1>10


\* and the long options.
LEMMA RawLongOptions ==
  ASSUME NEW s, Raw(s), NEW n
  PROVE  \A x \in DOMAIN LongOptions(s, n) : Raw(LongOptions(s, n)[x])
<1> DEFINE o == LongOptions(s, n)
<1>1. DOMAIN o = {"incr_dstip", "incr_srcip", "sum_dstip", "txstart_time", "no_connect_sync",
                  "txdelay_time", "trip_times", "no_udp_fin", "connect_only",
                  "connect_retries", "sum_only", "local_only", "near_congestion", "permit_key",
                  "permit_key_timeout"}
  BY DEF LongOptions
<1>2. Raw(o.incr_dstip) /\ Raw(o.incr_srcip) /\ Raw(o.sum_dstip) /\ Raw(o.no_connect_sync)
      /\ Raw(o.trip_times) /\ Raw(o.no_udp_fin) /\ Raw(o.sum_only) /\ Raw(o.near_congestion)
  BY RawSet DEF LongOptions
<1>3. Raw(o.txstart_time)
  BY RawSet, RawOther DEF LongOptions
<1>4. Raw(o.txdelay_time)
  BY RawSet, RawOther DEF LongOptions
<1>5. Raw(o.connect_only)
  BY RawSet, RawUnset DEF LongOptions
<1>6. Raw(o.connect_retries)
  BY RawOther DEF LongOptions
<1>7. Raw(o.local_only)
  BY RawSet, RawUnset DEF LongOptions
<1>8. Raw(o.permit_key)
  BY RawSet, RawOther DEF LongOptions
<1>9. Raw(o.permit_key_timeout)
  BY RawOther DEF LongOptions
<1> QED BY <1>1, <1>2, <1>3, <1>4, <1>5, <1>6, <1>7, <1>8, <1>9


\* The rest of the long options.
LEMMA RawMoreLongOptions ==
  ASSUME NEW s, Raw(s), NEW n \in Nat
  PROVE  \A x \in DOMAIN MoreLongOptions(s, n) : Raw(MoreLongOptions(s, n)[x])
<1> DEFINE o == MoreLongOptions(s, n)
<1>1. DOMAIN o = {"histograms", "full_duplex", "fq_rate", "isochronous", "ipg", "rx_clamp",
                  "burst_period", "burst_size", "hide_ips"}
  BY DEF MoreLongOptions
<1>2. Raw(o.histograms) /\ Raw(o.full_duplex) /\ Raw(o.fq_rate) /\ Raw(o.ipg)
      /\ Raw(o.rx_clamp) /\ Raw(o.hide_ips)
  BY RawSet DEF MoreLongOptions
<1>3. Raw(o.isochronous)
  BY RawSet, RawOther DEF MoreLongOptions
<1>4. Raw(o.burst_period)
  BY RawSet, RawOther DEF MoreLongOptions
<1>5. Raw(o.burst_size)
  BY RawNumber DEF MoreLongOptions
<1> QED BY <1>1, <1>2, <1>3, <1>4, <1>5

\* Settings_Interpret keeps it.
LEMMA InterpretRaw ==
  ASSUME NEW s, Raw(s), NEW o, o.name \in OptionNames,
         o.arg \in (IF o.name = "txstart_time" THEN Int ELSE Nat)
  PROVE  Raw(Interpret(o, s))
<1> DEFINE n == o.arg
           a == OptionsAtoM(s, n)
           b == OptionsNtoZ(s, n)
           c == UpperOptions(s, n)
           d == LongOptions(s, n)
           e == MoreLongOptions(s, n)
           list == CHOOSE l \in {a, b, c, d, e} : o.name \in DOMAIN l
<1>1. Interpret(o, s) = list[o.name]
  BY DEF Interpret
<1>2. /\ DOMAIN a = DOMAIN OptionsAtoM(Initialize, 0)
      /\ DOMAIN b = DOMAIN OptionsNtoZ(Initialize, 0)
      /\ DOMAIN c = DOMAIN UpperOptions(Initialize, 0)
  BY DEF OptionsAtoM, OptionsNtoZ, UpperOptions
<1>3. /\ DOMAIN d = DOMAIN LongOptions(Initialize, 0)
      /\ DOMAIN e = DOMAIN MoreLongOptions(Initialize, 0)
  BY DEF LongOptions, MoreLongOptions
<1>4. o.name \in DOMAIN a \cup DOMAIN b \cup DOMAIN c \cup DOMAIN d \cup DOMAIN e
  BY <1>2, <1>3, Zenon DEF OptionNames
<1>5. \A x \in DOMAIN d : Raw(d[x])
  BY RawLongOptions
<1>6. n \notin Nat => o.name = "txstart_time"
  OBVIOUS
<1>7. o.name = "txstart_time" =>
         o.name \notin DOMAIN a /\ o.name \notin DOMAIN b /\ o.name \notin DOMAIN c
         /\ o.name \notin DOMAIN e
  BY DEF OptionsAtoM, OptionsNtoZ, UpperOptions, MoreLongOptions
<1>8. n \in Nat =>
         /\ \A x \in DOMAIN a : Raw(a[x])
         /\ \A x \in DOMAIN b : Raw(b[x])
         /\ \A x \in DOMAIN c : Raw(c[x])
         /\ \A x \in DOMAIN e : Raw(e[x])
  BY RawOptionsAtoM, RawOptionsNtoZ, RawUpperOptions, RawMoreLongOptions
<1> HIDE DEF n, a, b, c, d, e
<1>9. list \in {a, b, c, d, e} /\ o.name \in DOMAIN list
  BY <1>4
<1> QED BY <1>1, <1>5, <1>6, <1>7, <1>8, <1>9

-----------------------------------------------------------------------------
\* The end of the command line.

\* t differs from s in the fields F and the flags X only.
Alters(s, t, F, X) ==
    /\ IsSettings(s) /\ IsSettings(t)
    /\ \A f \in Fields \ (F \cup {"flags"}) : t[f] = s[f]
    /\ \A x : x \notin X => (x \in t.flags <=> x \in s.flags)

\* The steps of Settings_ModalOptions: the defaults,
LEMMA DefaultsAlter ==
  ASSUME NEW s, IsSettings(s)
  PROVE  /\ Alters(s, Defaults(s), {"mBufLen", "mAppRate"},
                   {"ModeTime", "ModeInfinite", "Enhanced"})
         /\ Defaults(s).mAppRate =
               IF Is(s, "UDP") /\ ~Is(s, "BWSet") THEN UdpRate ELSE s.mAppRate
         /\ s.mBufLen \in Nat => Defaults(s).mBufLen \in Nat
<1>1. Alters(s, Defaults(s), {"mBufLen", "mAppRate"}, {"ModeTime", "ModeInfinite", "Enhanced"})
  BY DEF Defaults, Alters, IsSettings, Fields, When
<1>2. Defaults(s).mAppRate = IF Is(s, "UDP") /\ ~Is(s, "BWSet") THEN UdpRate ELSE s.mAppRate
  BY DEF Defaults, IsSettings, Fields
<1>3. s.mBufLen \in Nat => Defaults(s).mBufLen \in Nat
  BY SettingsAssumption DEF Defaults, IsSettings, Fields
<1> QED BY <1>1, <1>2, <1>3

\* the bursts of a client,
LEMMA BurstsAlter ==
  ASSUME NEW s, IsSettings(s)
  PROVE  Alters(s, ClientBursts(s), {"mBurstSize", "mFPS"},
                {"RxClamp", "Enhanced", "FrameInterval", "PeriodicBurst"})
  BY DEF ClientBursts, Alters, IsSettings, Fields, When, Unset

\* the settings of a listener,
LEMMA ListenerAlter ==
  ASSUME NEW s, IsSettings(s)
  PROVE  Alters(s, ListenerModal(s), {"mPermitKey", "mListenerTimeout"}, {"RxClamp"})
  BY DEF ListenerModal, Alters, IsSettings, Fields, When, Unset

\* the last two settings,
LEMMA FinishAlter ==
  ASSUME NEW s, IsSettings(s)
  PROVE  /\ Alters(s, Finish(s), {"mBurstSize"}, {"NoUDPfin"})
         /\ Is(Finish(s), "NoUDPfin")
               <=> Is(s, "NoUDPfin") \/ (Is(s, "UDP") /\ Is(s, "FullDuplex"))
  BY DEF Finish, Alters, IsSettings, Fields, When, Set, Is

\* and flags that are set or reset.
LEMMA FlagsAlter ==
  ASSUME NEW s, IsSettings(s), NEW T
  PROVE  /\ Alters(s, Set(s, T), {}, T) /\ Alters(s, Unset(s, T), {}, T)
         /\ \A x : Is(Set(s, T), x) <=> Is(s, x) \/ x \in T
         /\ \A x : Is(Unset(s, T), x) <=> Is(s, x) /\ x \notin T
  BY DEF Alters, IsSettings, Fields, Set, Unset, Is

\* A client that runs: what Settings_ModalOptions has seen to.
Agreed(c) ==
    /\ IsSettings(c)
    /\ c.mAmount \in Nat \ {0} /\ c.mAppRate \in Nat /\ c.mBufLen \in Nat /\ c.pps \in BOOLEAN
    /\ c.mMode \in {"Normal", "DualTest", "TradeOff"}
    /\ Is(c, "Compat") => ~BothWays(c)
    /\ ~MoreThanOneTest(c)
    /\ ~Is(c, "UDP") => ~c.pps /\ (c.mAppRate # 0 => Is(c, "BWSet"))
    /\ Is(c, "UDP") /\ ~Is(c, "BWSet") => c.mAppRate = UdpRate /\ ~c.pps
    /\ Is(c, "UDP") /\ Is(c, "BWSet") /\ ~Is(c, "IPG") /\ c.mBufLen > 0 => c.mAppRate > 0
    /\ Is(c, "UDP") => ~Is(c, "PeerVerDetect")
    /\ Is(c, "UDP") /\ Is(c, "FullDuplex") => Is(c, "NoUDPfin")
    /\ Is(c, "SmallTripTime") => Is(c, "UDP") /\ ~BothWays(c)
    /\ BothWays(c) => ~Is(c, "Multicast")
    /\ Is(c, "BWSet") => ~Is(c, "Isochronous")
    /\ ~Is(c, "ServerReverse")

\* The conditions of a client that is not refused, of the settings d with their
\* defaults.
LEMMA NotRefused ==
  ASSUME NEW d, IsSettings(d), d.mAppRate \in Nat, d.mBufLen \in Nat,
         ~RefusedFirst(d), ~OthersRefused(d), ~GroupRefused(d),
         Is(d, "UDP") => ~UdpRefused(d), ~Is(d, "UDP") => ~TcpRefused(d)
  PROVE  /\ Is(d, "Compat") => ~BothWays(d)
         /\ ~MoreThanOneTest(d)
         /\ ~Is(d, "UDP") => ~d.pps
         /\ Is(d, "UDP") => ~Is(d, "PeerVerDetect")
         /\ Is(d, "UDP") /\ ~Is(d, "IPG") /\ d.mBufLen > 0 => d.mAppRate > 0
         /\ Is(d, "UDP") /\ Is(d, "TripTime") /\ d.mBufLen < MinTripTime => ~BothWays(d)
         /\ BothWays(d) => ~d.group
         /\ Is(d, "BWSet") => ~Is(d, "Isochronous")
<1>1. Is(d, "UDP") /\ ~Is(d, "IPG") /\ d.mBufLen > 0 => d.mAppRate > 0
  BY DEF UdpRefused, MaxIpgSecs
<1>2. Is(d, "UDP") => ~Is(d, "PeerVerDetect")
  BY DEF UdpRefused, Is
<1> QED BY <1>1, <1>2 DEF RefusedFirst, OthersRefused, GroupRefused, UdpRefused, TcpRefused

\* Settings_ModalOptions of a client's settings.
LEMMA ModalAgreed ==
  ASSUME NEW s, Raw(s), IsClient(ModalOptions(s)), ModalOptions(s).bail # TRUE
  PROVE  Agreed(ModalOptions(s)) /\ (Is(ModalOptions(s), "UDP") <=> Is(s, "UDP"))
<1> DEFINE d == Defaults(s)
           c == ClientBursts(d)
           small == Is(d, "UDP") /\ Is(d, "TripTime") /\ d.mBufLen < MinTripTime
           T == When(small, {"SmallTripTime"}) \cup When(d.group, {"Multicast"})
           g == Set(c, T)
           refused == \/ RefusedFirst(d)
                      \/ IsClient(d) /\ \/ ClientRefused(d, c)
                                        \/ Is(d, "UDP") /\ UdpRefused(d)
                                        \/ ~Is(d, "UDP") /\ TcpRefused(d)
                                        \/ OthersRefused(d)
                                        \/ GroupRefused(d)
<1>1. ModalOptions(s) = IF d.bail \/ refused THEN Bail(d)
                        ELSE Finish(IF IsClient(d) THEN g ELSE ListenerModal(d))
  BY DEF ModalOptions
<1>2. /\ Alters(s, d, {"mBufLen", "mAppRate"}, {"ModeTime", "ModeInfinite", "Enhanced"})
      /\ d.mAppRate = IF Is(s, "UDP") /\ ~Is(s, "BWSet") THEN UdpRate ELSE s.mAppRate
      /\ d.mBufLen \in Nat
  BY DefaultsAlter DEF Raw
<1>3. Alters(d, c, {"mBurstSize", "mFPS"},
             {"RxClamp", "Enhanced", "FrameInterval", "PeriodicBurst"})
  BY <1>2, BurstsAlter DEF Alters
<1> HIDE DEF d, c
<1>4. Alters(c, g, {}, T) /\ \A x : Is(g, x) <=> Is(c, x) \/ x \in T
  BY <1>3, FlagsAlter DEF Alters
<1>5. Bail(d).bail = TRUE
  BY <1>2 DEF Bail, Alters, IsSettings, Fields
<1>6. /\ ~(d.bail \/ refused)
      /\ ModalOptions(s) = Finish(IF IsClient(d) THEN g ELSE ListenerModal(d))
  BY <1>1, <1>5
<1>7. IsClient(d)
  <2>1. CASE ~IsClient(d)
    <3>1. IsSettings(ListenerModal(d)) /\ ListenerModal(d).mThreadMode = d.mThreadMode
      BY <1>2, ListenerAlter DEF Alters, Fields
    <3>2. ModalOptions(s).mThreadMode = d.mThreadMode
      BY <1>6, <2>1, <3>1, FinishAlter DEF Alters, Fields
    <3> QED BY <2>1, <3>2 DEF IsClient
  <2> QED BY <2>1
<1> DEFINE m == ModalOptions(s)
<1>8. /\ Alters(g, m, {"mBurstSize"}, {"NoUDPfin"})
      /\ Is(m, "NoUDPfin") <=> Is(g, "NoUDPfin") \/ (Is(g, "UDP") /\ Is(g, "FullDuplex"))
  BY <1>4, <1>6, <1>7, FinishAlter DEF Alters
<1>9. /\ ~RefusedFirst(d) /\ ~OthersRefused(d) /\ ~GroupRefused(d)
      /\ Is(d, "UDP") => ~UdpRefused(d)
      /\ ~Is(d, "UDP") => ~TcpRefused(d)
  BY <1>6, <1>7
<1> HIDE DEF m, g, refused
<1>10. IsSettings(d) /\ d.mAppRate \in Nat /\ d.mBufLen \in Nat
  BY <1>2, SettingsAssumption DEF Raw, Alters
<1>11. /\ Is(d, "Compat") => ~BothWays(d)
       /\ ~MoreThanOneTest(d)
       /\ ~Is(d, "UDP") => ~d.pps
       /\ Is(d, "UDP") => ~Is(d, "PeerVerDetect")
       /\ Is(d, "UDP") /\ ~Is(d, "IPG") /\ d.mBufLen > 0 => d.mAppRate > 0
       /\ small => ~BothWays(d)
       /\ BothWays(d) => ~d.group
       /\ Is(d, "BWSet") => ~Is(d, "Isochronous")
  BY <1>9, <1>10, NotRefused
<1>12. /\ IsSettings(m)
       /\ m.mAmount = d.mAmount /\ m.mAppRate = d.mAppRate /\ m.mBufLen = d.mBufLen
       /\ m.pps = d.pps /\ m.mMode = d.mMode
  BY <1>3, <1>4, <1>8 DEF Alters, Fields
<1>13. /\ d.mAmount = s.mAmount /\ d.pps = s.pps /\ d.mMode = s.mMode
  BY <1>2 DEF Alters, Fields
<1>14. \A x \in {"UDP", "Compat", "Reverse", "FullDuplex", "BWSet", "IPG", "PeerVerDetect",
                 "Isochronous", "ServerReverse"} :
          /\ Is(m, x) <=> Is(d, x)
          /\ Is(d, x) <=> Is(s, x)
  BY <1>2, <1>3, <1>4, <1>8 DEF Alters, Is, When
<1>15. /\ Is(m, "SmallTripTime") => small
       /\ Is(m, "Multicast") => d.group
       /\ Is(m, "UDP") /\ Is(m, "FullDuplex") => Is(m, "NoUDPfin")
  BY <1>2, <1>3, <1>4, <1>8 DEF Alters, Is, When, Raw
<1> HIDE DEF small
<1>16. BothWays(m) <=> BothWays(d)
  BY <1>12, <1>14 DEF BothWays
<1>17. MoreThanOneTest(m) <=> MoreThanOneTest(d)
  BY <1>12, <1>14 DEF MoreThanOneTest
<1>18. small => Is(m, "UDP")
  BY <1>14 DEF small
<1>19. /\ s.mAmount \in Nat \ {0} /\ s.pps \in BOOLEAN
       /\ s.mMode \in {"Normal", "DualTest", "TradeOff"}
       /\ s.pps \/ s.mAppRate # 0 => Is(s, "BWSet")
       /\ ~Is(s, "ServerReverse")
  BY DEF Raw, Is
<1>20. /\ ~Is(m, "UDP") => ~m.pps /\ (m.mAppRate # 0 => Is(m, "BWSet"))
       /\ Is(m, "UDP") /\ ~Is(m, "BWSet") => m.mAppRate = UdpRate /\ ~m.pps
       /\ Is(m, "UDP") /\ Is(m, "BWSet") /\ ~Is(m, "IPG") /\ m.mBufLen > 0 => m.mAppRate > 0
  BY <1>2, <1>11, <1>12, <1>13, <1>14, <1>19
<1>21. /\ Is(m, "Compat") => ~BothWays(m)
       /\ ~MoreThanOneTest(m)
       /\ Is(m, "UDP") => ~Is(m, "PeerVerDetect")
       /\ Is(m, "SmallTripTime") => Is(m, "UDP") /\ ~BothWays(m)
       /\ BothWays(m) => ~Is(m, "Multicast")
       /\ Is(m, "BWSet") => ~Is(m, "Isochronous")
       /\ ~Is(m, "ServerReverse")
  BY <1>11, <1>14, <1>15, <1>16, <1>17, <1>18, <1>19
<1>22. Agreed(m)
  BY <1>10, <1>12, <1>13, <1>15, <1>19, <1>20, <1>21 DEF Agreed
<1> QED BY <1>14, <1>22 DEF m

\* Client::Client leaves this as it is.
LEMMA ConstructedAgreed ==
  ASSUME NEW c, Agreed(c)
  PROVE  /\ Agreed(Constructed(c))
         /\ Is(Constructed(c), "UDP") <=> Is(c, "UDP")
         /\ Is(Constructed(c), "PeerVerDetect") => ~Is(Constructed(c), "Compat")
<1> DEFINE k == Constructed(c)
<1>1. /\ Alters(c, k, {}, {"PeerVerDetect"})
      /\ Is(k, "PeerVerDetect") <=> Is(c, "PeerVerDetect") /\ ~Is(c, "Compat")
  <2>1. IsSettings(c)
    BY DEF Agreed
  <2>2. k = Unset(c, When(Is(c, "Compat"), {"PeerVerDetect"}))
    BY DEF Constructed
  <2> QED BY <2>1, <2>2, FlagsAlter DEF Alters, When
<1> HIDE DEF k
<1>2. /\ IsSettings(k)
      /\ k.mAmount = c.mAmount /\ k.mAppRate = c.mAppRate /\ k.mBufLen = c.mBufLen
      /\ k.pps = c.pps /\ k.mMode = c.mMode
  BY <1>1 DEF Alters, Fields
<1>3. \A x : x # "PeerVerDetect" => (Is(k, x) <=> Is(c, x))
  BY <1>1 DEF Alters, Is
<1>4. BothWays(k) <=> BothWays(c)
  BY <1>2, <1>3 DEF BothWays
<1>5. MoreThanOneTest(k) <=> MoreThanOneTest(c)
  BY <1>2, <1>3 DEF MoreThanOneTest
<1>6. Agreed(k)
  BY <1>1, <1>2, <1>3, <1>4, <1>5 DEF Agreed
<1> QED BY <1>1, <1>3, <1>6 DEF k

\* The settings of the Listener of a test with protocol u.
Listens(l, u) ==
    /\ IsSettings(l) /\ l.mMode = "Normal"
    /\ Is(l, "UDP") <=> u
    /\ l.flags \cap ClientFlags = {}

\* Settings_ModalOptions of such a server.
LEMMA ModalListens ==
  ASSUME NEW s, IsSettings(s), Plain(s), NEW u, u \in BOOLEAN, NEW l,
         l = ModalOptions(Set(s, When(u, {"UDP"}))), ~l.bail
  PROVE  Listens(l, u)
<1> DEFINE a == Set(s, When(u, {"UDP"}))
           d == Defaults(a)
<1>1. Alters(s, a, {}, {"UDP"}) /\ (Is(a, "UDP") <=> u)
  BY FlagsAlter DEF When, Alters, Plain, Is
<1>2. Alters(a, d, {"mBufLen", "mAppRate"}, {"ModeTime", "ModeInfinite", "Enhanced"})
  BY <1>1, DefaultsAlter DEF Alters
<1>3. a.mThreadMode # "Client" /\ d.mThreadMode # "Client" /\ d.mMode = "Normal"
  BY <1>1, <1>2 DEF Alters, Fields, Plain
<1>4. l = Bail(d) \/ l = Finish(ListenerModal(d))
  BY <1>3 DEF ModalOptions, IsClient
<1> HIDE DEF a, d
<1>5. l = Finish(ListenerModal(d))
  BY <1>2, <1>4 DEF Bail, Alters, IsSettings, Fields
<1>6. Alters(d, ListenerModal(d), {"mPermitKey", "mListenerTimeout"}, {"RxClamp"})
  BY <1>2, ListenerAlter DEF Alters
<1>7. /\ Alters(ListenerModal(d), l, {"mBurstSize"}, {"NoUDPfin"})
      /\ Is(l, "NoUDPfin") <=> \/ Is(ListenerModal(d), "NoUDPfin")
                               \/ /\ Is(ListenerModal(d), "UDP")
                                  /\ Is(ListenerModal(d), "FullDuplex")
  BY <1>5, <1>6, FinishAlter DEF Alters
<1>8. IsSettings(l) /\ l.mMode = "Normal"
  BY <1>3, <1>6, <1>7 DEF Alters, Fields
<1>9. \A x \in ClientFlags : ~Is(s, x)
  BY DEF Plain, Is
<1>10. \A x \in ClientFlags : ~Is(ListenerModal(d), x)
  BY <1>1, <1>2, <1>6, <1>9 DEF Alters, Is, ClientFlags
<1>11. \A x \in ClientFlags : ~Is(l, x)
  BY <1>7, <1>10 DEF Alters, Is, ClientFlags
<1>12. Is(l, "UDP") <=> u
  BY <1>1, <1>2, <1>6, <1>7 DEF Alters, Is
<1> QED BY <1>8, <1>11, <1>12 DEF Listens, Is

-----------------------------------------------------------------------------
\* The test header.

\* What the header of a client c says, flag by flag.
HeaderFlags(h, c) ==
    /\ "EXTEND" \in h.flags /\ "SMALL_TRIPTIMES" \notin h.flags
    /\ "VERSION1" \in h.flags <=> c.mMode # "Normal"
    /\ "RUN_NOW" \in h.flags <=> c.mMode = "DualTest"
    /\ "VERSION2" \in h.flags <=> SameSocketBack(c) \/ Is(c, "PeerVerDetect")
    /\ "V2PEERDETECT" \in h.flags <=> Is(c, "PeerVerDetect")
    /\ "KEYCHECK" \in h.flags => h.key # 0
    /\ Is(c, "Isochronous") \/ Is(c, "NoUDPfin") => "UDPTESTS" \in h.flags \/ ~Is(c, "UDP")
HeaderUpper(h, c) ==
    /\ "REVERSE" \in h.upper <=> Is(c, "Reverse")
    /\ "FULLDUPLEX" \in h.upper <=> Is(c, "FullDuplex")
    /\ "EPOCH_START" \in h.upper <=> Is(c, "TxStartTime")
    /\ "TRIPTIME" \in h.upper <=> Is(c, "TripTime")
    /\ "ISOCH" \in h.upper <=> Is(c, "Isochronous") /\ (Is(c, "UDP") \/ ~Is(c, "PeriodicBurst"))
    /\ "PERIODICBURST" \in h.upper <=> Is(c, "PeriodicBurst") /\ ~Is(c, "UDP")
    /\ "NOUDPFIN" \in h.upper <=> Is(c, "NoUDPfin") /\ Is(c, "UDP")
HeaderNumbers(h, c) ==
    /\ h.v1 = HdrV1(c)
    /\ BothWays(c) /\ ~Is(c, "IPG") /\ c.mBufLen > 0 =>
          h.rate = IF c.pps THEN c.mAppRate * 8 * c.mBufLen ELSE c.mAppRate
    /\ ~Is(c, "UDP") => h.rate = c.mAppRate
    /\ SameSocketBack(c) /\ Is(c, "Isochronous") => h.fps = c.mFPS
    /\ ~Is(c, "UDP") /\ Is(c, "PeriodicBurst") => h.fps = c.mFPS
    /\ ~SameSocketBack(c) /\ (Is(c, "UDP") \/ ~Is(c, "PeriodicBurst")) => h.fps = 0

\* Settings_GenerateClientHdr over TCP,
LEMMA TcpHeader ==
  ASSUME NEW c, Agreed(c), ~Is(c, "UDP"), NEW h, h = GenerateClientHdr(c)
  PROVE  HeaderFlags(h, c) /\ HeaderUpper(h, c) /\ HeaderNumbers(h, c)
<1>1. h = TcpHdr(c)
  BY DEF GenerateClientHdr
<1>2. Is(c, "Compat") => c.mMode = "Normal" /\ ~Is(c, "Reverse") /\ ~Is(c, "FullDuplex")
  BY DEF Agreed, BothWays
<1>3. c.mMode \in {"Normal", "DualTest", "TradeOff"} /\ ~c.pps /\ c.mAppRate \in Nat
      /\ (c.mAppRate # 0 => Is(c, "BWSet"))
  BY DEF Agreed
<1>4. HeaderFlags(h, c)
  BY <1>1, <1>2, <1>3 DEF TcpHdr, HeaderFlags, V1Flags, When, SameSocketBack
<1>5. HeaderUpper(h, c)
  BY <1>1, <1>2 DEF TcpHdr, HeaderUpper, CommonUpper, When
<1>6. HeaderNumbers(h, c)
  BY <1>1, <1>3 DEF TcpHdr, HeaderNumbers, SameSocketBack
<1> QED BY <1>4, <1>5, <1>6

\* and over UDP, but for the short datagrams with trip times.
LEMMA UdpHeader ==
  ASSUME NEW c, Agreed(c), Is(c, "UDP"), ~Is(c, "SmallTripTime"), NEW h, h = GenerateClientHdr(c)
  PROVE  HeaderFlags(h, c) /\ HeaderUpper(h, c) /\ HeaderNumbers(h, c)
<1>1. h = UdpHdr(c)
  BY DEF GenerateClientHdr
<1>2. Is(c, "Compat") => c.mMode = "Normal" /\ ~Is(c, "Reverse") /\ ~Is(c, "FullDuplex")
  BY DEF Agreed, BothWays
<1>3. c.mMode \in {"Normal", "DualTest", "TradeOff"} /\ ~Is(c, "PeerVerDetect")
  BY DEF Agreed
<1>4. HeaderFlags(h, c)
  BY <1>1, <1>2, <1>3 DEF UdpHdr, HeaderFlags, V1Flags, When, SameSocketBack, Is
<1>5. HeaderUpper(h, c)
  BY <1>1, <1>2 DEF UdpHdr, HeaderUpper, CommonUpper, When
<1>6. HeaderNumbers(h, c)
  <2>1. BothWays(c) /\ ~Is(c, "IPG") /\ c.mBufLen > 0 =>
           h.rate = IF c.pps THEN c.mAppRate * 8 * c.mBufLen ELSE c.mAppRate
    BY <1>1 DEF UdpHdr, Agreed
  <2> QED BY <1>1, <2>1 DEF UdpHdr, HeaderNumbers, SameSocketBack
<1> QED BY <1>4, <1>5, <1>6

\* The amount of a test survives the header: 32 bits, negative for a time.
LEMMA AmountKept ==
  ASSUME NEW c, Agreed(c), c.mAmount <= HalfWord - 1, NEW s, IsSettings(s)
  PROVE  LET r == ReadV1(s, HdrV1(c))
         IN  r.mAmount = c.mAmount /\ (Is(r, "ModeTime") <=> Is(c, "ModeTime"))
<1>1. c.mAmount \in Nat /\ c.mAmount # 0 /\ HalfWord \in Nat
  BY SettingsAssumption DEF Agreed
<1>2. CASE Is(c, "ModeTime")
  <2>1. HdrAmount(c) = 2 * HalfWord - c.mAmount
    BY <1>1, <1>2 DEF HdrAmount
  <2> QED BY <1>1, <1>2, <2>1 DEF ReadV1, HdrV1, IsSettings, Fields, Is
<1>3. CASE ~Is(c, "ModeTime")
  <2>1. HdrAmount(c) = c.mAmount
    BY <1>1, <1>3 DEF HdrAmount
  <2> QED BY <1>1, <1>3, <2>1 DEF ReadV1, HdrV1, IsSettings, Fields, Is
<1> QED BY <1>2, <1>3

-----------------------------------------------------------------------------
\* The server's settings.

ServerOf(l) == [l EXCEPT !.mThreadMode = "Server"]

\* What the Listener makes of the header h: apply_client_settings.
Applied(l, u, h, k) ==
    IF u THEN ApplyUdp(ServerOf(l), h, k)
    ELSE IF HasTestHdr(h, ServerOf(l)) THEN ApplyTcp(ServerOf(l), h, k) ELSE ServerOf(l)

\* The server does what client c asked for,
ServerAsked(a, l, c, k) ==
    /\ IsSettings(a) /\ (Is(a, "UDP") <=> Is(c, "UDP")) /\ (Is(a, "Compat") <=> Is(l, "Compat"))
    /\ Is(a, "ServerModeTime") <=> Is(l, "ServerModeTime")
    /\ a.mMode = IF Is(c, "PeerVerDetect") THEN "Normal" ELSE c.mMode
    /\ a.mThreadMode = IF Is(c, "Reverse") THEN "Client" ELSE "Server"
    /\ Is(a, "FullDuplex") <=> Is(c, "FullDuplex")
    /\ Is(a, "ServerReverse") <=> Is(c, "FullDuplex") \/ Is(c, "Reverse")
    /\ Is(a, "Isochronous") <=> Is(c, "Isochronous") /\ (Is(c, "UDP") \/ ~Is(c, "PeriodicBurst"))
    /\ Is(a, "PeriodicBurst") <=> Is(c, "PeriodicBurst") /\ ~Is(c, "UDP")
    /\ Is(a, "TripTime") => Is(c, "TripTime")
    /\ k = "close" /\ Is(c, "TripTime") => Is(a, "TripTime")
    /\ Is(a, "NoUDPfin") <=> Is(c, "UDP") /\ (Is(c, "NoUDPfin") \/ Is(c, "Reverse"))
    /\ ~Is(a, "Reverse") /\ ~Is(a, "Multicast")
    /\ a.mBurstSize = l.mBurstSize

\* or it only listens.
ServerAlone(a, l, u) ==
    /\ IsSettings(a) /\ (Is(a, "UDP") <=> u) /\ (Is(a, "Compat") <=> Is(l, "Compat"))
    /\ Is(a, "ServerModeTime") <=> Is(l, "ServerModeTime")
    /\ a.mMode = "Normal" /\ a.mThreadMode = "Server"
    /\ \A x \in ClientFlags : Is(a, x) => x = "TripTime" /\ u

\* The server thread before it knows of the test.
LEMMA ServerOfListens ==
  ASSUME NEW l, NEW u, u \in BOOLEAN, Listens(l, u)
  PROVE  /\ ServerAlone(ServerOf(l), l, u)
         /\ \A x : Is(ServerOf(l), x) <=> Is(l, x)
         /\ \A x \in ClientFlags : ~Is(ServerOf(l), x)
         /\ ServerOf(l).mBurstSize = l.mBurstSize
  BY DEF Listens, ServerOf, ServerAlone, IsSettings, Fields, Is

\* Over TCP, with the header of the client,
LEMMA TcpApplied ==
  ASSUME NEW l, NEW c, Agreed(c), ~Is(c, "UDP"), Listens(l, FALSE), NEW k,
         NEW h, h = GenerateClientHdr(c)
  PROVE  ServerAsked(Applied(l, FALSE, h, k), l, c, k)
<1> DEFINE s == ServerOf(l)
           a == Applied(l, FALSE, h, k)
<1>1. HeaderFlags(h, c) /\ HeaderUpper(h, c)
  BY TcpHeader
<1>2. a = ApplyTcp(s, h, k)
  BY <1>1 DEF Applied, HasTestHdr, HeaderFlags
<1>3. /\ IsSettings(s) /\ ~Is(s, "UDP") /\ (Is(s, "Compat") <=> Is(l, "Compat"))
      /\ Is(s, "ServerModeTime") <=> Is(l, "ServerModeTime")
      /\ s.mMode = "Normal" /\ s.mThreadMode = "Server" /\ s.mBurstSize = l.mBurstSize
      /\ \A x \in ClientFlags : ~Is(s, x)
  BY ServerOfListens DEF ServerAlone
<1> DEFINE F == s.flags \cup When("ISOCH" \in h.upper, {"Isochronous"})
                \cup TimeFlags(h, k)
                \cup When("PERIODICBURST" \in h.upper,
                          {"Enhanced", "FrameInterval", "PeriodicBurst"})
                \cup When("VERSION2" \in h.flags /\ "FULLDUPLEX" \in h.upper,
                          {"FullDuplex", "ServerReverse"})
                \cup When("VERSION2" \in h.flags /\ "REVERSE" \in h.upper, {"ServerReverse"})
<1> HIDE DEF s
<1>4. /\ IsSettings(a) /\ a.flags = F /\ a.mMode = V1Mode(h, s)
      /\ a.mBurstSize = s.mBurstSize
      /\ a.mThreadMode = IF "VERSION2" \in h.flags /\ "REVERSE" \in h.upper THEN "Client"
                         ELSE s.mThreadMode
  BY <1>1, <1>2, <1>3 DEF ApplyTcp, HeaderFlags, IsSettings, Fields
<1> HIDE DEF a
<1>5. /\ "VERSION2" \in h.flags /\ "REVERSE" \in h.upper <=> Is(c, "Reverse")
      /\ "VERSION2" \in h.flags /\ "FULLDUPLEX" \in h.upper <=> Is(c, "FullDuplex")
  BY <1>1 DEF HeaderFlags, HeaderUpper, SameSocketBack
<1>6. a.mMode = IF Is(c, "PeerVerDetect") THEN "Normal" ELSE c.mMode
  <2>1. SameSocketBack(c) => c.mMode = "Normal"
    BY DEF Agreed, MoreThanOneTest, SameSocketBack
  <2>2. c.mMode \in {"Normal", "DualTest", "TradeOff"}
    BY DEF Agreed
  <2> QED BY <1>1, <1>3, <1>4, <2>1, <2>2 DEF V1Mode, V1Test, HeaderFlags
<1>7. /\ "TripTime" \in F => Is(c, "TripTime")
      /\ k = "close" /\ Is(c, "TripTime") => "TripTime" \in F
  BY <1>1, <1>3 DEF HeaderUpper, TimeFlags, TripKept, StartKept, When, Is, ClientFlags
<1>8. /\ "FullDuplex" \in F <=> Is(c, "FullDuplex")
      /\ "ServerReverse" \in F <=> Is(c, "FullDuplex") \/ Is(c, "Reverse")
      /\ "Isochronous" \in F <=> Is(c, "Isochronous") /\ ~Is(c, "PeriodicBurst")
      /\ "PeriodicBurst" \in F <=> Is(c, "PeriodicBurst")
  BY <1>1, <1>3, <1>5 DEF HeaderUpper, TimeFlags, When, Is, ClientFlags
<1>9. /\ "NoUDPfin" \notin F /\ "Reverse" \notin F /\ "Multicast" \notin F /\ "UDP" \notin F
      /\ "Compat" \in F <=> Is(l, "Compat")
      /\ "ServerModeTime" \in F <=> Is(l, "ServerModeTime")
  BY <1>3 DEF TimeFlags, When, Is, ClientFlags
<1> HIDE DEF F
<1>10. ServerAsked(a, l, c, k)
  BY <1>3, <1>4, <1>5, <1>6, <1>7, <1>8, <1>9 DEF ServerAsked, Is
<1> QED BY <1>10 DEF a

\* over UDP, with the header of the client,
LEMMA UdpApplied ==
  ASSUME NEW l, NEW c, Agreed(c), Is(c, "UDP"), ~Is(c, "SmallTripTime"), Listens(l, TRUE), NEW k,
         NEW h, h = GenerateClientHdr(c)
  PROVE  ServerAsked(Applied(l, TRUE, h, k), l, c, k)
<1> DEFINE s == ServerOf(l)
           a == Applied(l, TRUE, h, k)
           tests == "UDPTESTS" \in h.flags
           q == Set(s, When("SEQNO64B" \in h.flags, {"SeqNo64b"}))
<1>1. HeaderFlags(h, c) /\ HeaderUpper(h, c)
  BY UdpHeader
<1>2. a = ApplyUdp(s, h, k)
  BY DEF Applied
<1>3. /\ IsSettings(s) /\ Is(s, "UDP") /\ (Is(s, "Compat") <=> Is(l, "Compat"))
      /\ Is(s, "ServerModeTime") <=> Is(l, "ServerModeTime")
      /\ s.mMode = "Normal" /\ s.mThreadMode = "Server" /\ s.mBurstSize = l.mBurstSize
      /\ \A x \in ClientFlags : ~Is(s, x)
  BY ServerOfListens DEF ServerAlone
<1> HIDE DEF s
<1>31. /\ IsSettings(q) /\ q.mThreadMode = s.mThreadMode /\ q.mBurstSize = s.mBurstSize
       /\ \A x : x # "SeqNo64b" => (Is(q, x) <=> Is(s, x))
  BY <1>3, FlagsAlter DEF Alters, Fields, When
<1> DEFINE F == (q.flags \ When(tests, {"IPV6"}))
                \cup When(tests /\ "ISOCH" \in h.upper, {"Isochronous"})
                \cup When(tests /\ "L2ETHPIPV6" \in h.upper, {"IPV6"})
                \cup When(tests /\ "L2LENCHECK" \in h.upper, {"L2LengthCheck"})
                \cup When(tests /\ "NOUDPFIN" \in h.upper, {"NoUDPfin"})
                \cup TimeFlags(h, k)
                \cup When("VERSION2" \in h.flags /\ "FULLDUPLEX" \in h.upper,
                          {"FullDuplex", "ServerReverse"})
                \cup When("VERSION2" \in h.flags /\ "REVERSE" \in h.upper,
                          {"ServerReverse", "NoUDPfin"})
<1>4. /\ IsSettings(a) /\ a.flags = F /\ a.mMode = V1Mode(h, s)
      /\ a.mBurstSize = s.mBurstSize
      /\ a.mThreadMode = IF "VERSION2" \in h.flags /\ "REVERSE" \in h.upper THEN "Client"
                         ELSE q.mThreadMode
  <2> HIDE DEF q
  <2>1. "SMALL_TRIPTIMES" \notin h.flags
    BY <1>1 DEF HeaderFlags
  <2> QED BY <1>2, <1>31, <2>1 DEF ApplyUdp, q, IsSettings, Fields
<1> HIDE DEF a, q
<1>5. /\ "VERSION2" \in h.flags /\ "REVERSE" \in h.upper <=> Is(c, "Reverse")
      /\ "VERSION2" \in h.flags /\ "FULLDUPLEX" \in h.upper <=> Is(c, "FullDuplex")
  BY <1>1 DEF HeaderFlags, HeaderUpper, SameSocketBack
<1>6. a.mMode = IF Is(c, "PeerVerDetect") THEN "Normal" ELSE c.mMode
  <2>1. SameSocketBack(c) => c.mMode = "Normal"
    BY DEF Agreed, MoreThanOneTest, SameSocketBack
  <2>2. c.mMode \in {"Normal", "DualTest", "TradeOff"}
    BY DEF Agreed
  <2> QED BY <1>1, <1>3, <1>4, <2>1, <2>2 DEF V1Mode, V1Test, HeaderFlags
<1>61. /\ \A x \in ClientFlags : ~Is(q, x)
       /\ Is(q, "UDP") /\ (Is(q, "Compat") <=> Is(l, "Compat"))
       /\ Is(q, "ServerModeTime") <=> Is(l, "ServerModeTime")
  BY <1>3, <1>31 DEF ClientFlags
<1>7. /\ "TripTime" \in F => Is(c, "TripTime")
      /\ k = "close" /\ Is(c, "TripTime") => "TripTime" \in F
  BY <1>1, <1>61 DEF HeaderUpper, TimeFlags, TripKept, StartKept, When, Is, ClientFlags
<1>8. /\ "FullDuplex" \in F <=> Is(c, "FullDuplex")
      /\ "ServerReverse" \in F <=> Is(c, "FullDuplex") \/ Is(c, "Reverse")
      /\ "Isochronous" \in F <=> Is(c, "Isochronous")
      /\ "NoUDPfin" \in F <=> Is(c, "NoUDPfin") \/ Is(c, "Reverse")
  BY <1>1, <1>61, <1>5 DEF HeaderFlags, HeaderUpper, TimeFlags, When, Is, ClientFlags
<1>9. /\ "PeriodicBurst" \notin F /\ "Reverse" \notin F /\ "Multicast" \notin F /\ "UDP" \in F
      /\ "Compat" \in F <=> Is(l, "Compat")
      /\ "ServerModeTime" \in F <=> Is(l, "ServerModeTime")
  BY <1>61 DEF TimeFlags, When, Is, ClientFlags
<1> HIDE DEF F
<1>10. ServerAsked(a, l, c, k)
  BY <1>3, <1>31, <1>4, <1>5, <1>6, <1>7, <1>8, <1>9 DEF ServerAsked, Is
<1> QED BY <1>10 DEF a

\* and without it: from the pattern of a client in compatibility mode, or the
\* header of short datagrams.
LEMMA NotAsked ==
  ASSUME NEW l, NEW c, Agreed(c), NEW u, u \in BOOLEAN, u <=> Is(c, "UDP"), Listens(l, u),
         NEW k, NEW h,
         \/ h = PatternHdr(c)
         \/ h = GenerateClientHdr(c) /\ Is(c, "SmallTripTime")
  PROVE  ServerAlone(Applied(l, u, h, k), l, u)
<1> DEFINE s == ServerOf(l)
           a == Applied(l, u, h, k)
<1>1. /\ ServerAlone(s, l, u) /\ IsSettings(s)
      /\ \A x \in ClientFlags : ~Is(s, x)
  BY ServerOfListens DEF ServerAlone
<1> HIDE DEF s
<1>2. CASE u
  <2>1. "SMALL_TRIPTIMES" \in h.flags
    BY <1>2 DEF PatternHdr, GenerateClientHdr, UdpHdr
  <2> DEFINE q == Set(s, When("SEQNO64B" \in h.flags, {"SeqNo64b"}))
  <2>2. a = Set(q, {"TripTime", "Enhanced"})
    BY <1>2, <2>1 DEF Applied, ApplyUdp, s
  <2>3. Alters(s, q, {}, {"SeqNo64b"})
    BY <1>1, FlagsAlter DEF Alters, When
  <2>4. Alters(q, a, {}, {"TripTime", "Enhanced"})
    BY <2>2, <2>3, FlagsAlter DEF Alters
  <2> HIDE DEF a, q
  <2>5. IsSettings(a) /\ a.mMode = s.mMode /\ a.mThreadMode = s.mThreadMode
    BY <2>3, <2>4 DEF Alters, Fields
  <2>6. \A x : x \notin {"TripTime", "Enhanced", "SeqNo64b"} => (Is(a, x) <=> Is(s, x))
    BY <2>3, <2>4 DEF Alters, Is
  <2>7. \A x \in ClientFlags : Is(a, x) => x = "TripTime"
    BY <1>1, <2>6 DEF ClientFlags
  <2>8. ServerAlone(a, l, u)
    BY <1>1, <1>2, <2>5, <2>6, <2>7 DEF ServerAlone
  <2> QED BY <2>8 DEF a
<1>3. CASE ~u
  <2>1. h = PatternHdr(c) /\ h.flags \cap {"EXTEND", "VERSION1", "VERSION2"} = {}
    BY <1>3 DEF Agreed, PatternHdr
  <2>2. a = s \/ a = [s EXCEPT !.mMode = V1Mode(h, s)]
    BY <1>3, <2>1 DEF Applied, ApplyTcp, s
  <2>3. V1Mode(h, s) = s.mMode
    BY <2>1 DEF V1Mode, V1Test
  <2>4. a = s
    BY <1>1, <2>2, <2>3 DEF IsSettings, Fields
  <2> QED BY <1>1, <2>4
<1> QED BY <1>2, <1>3

-----------------------------------------------------------------------------
\* The client that sends traffic back.

\* r has what client c asked for, and the flags of the server's settings a.
ReverseAsked(r, a, h, c) ==
    /\ IsSettings(r) /\ r.mThreadMode = "Client"
    /\ r.mMode = IF Is(c, "PeerVerDetect") THEN "Normal" ELSE c.mMode
    /\ c.mAmount <= HalfWord - 1 =>
          r.mAmount = c.mAmount /\ (Is(r, "ModeTime") <=> Is(c, "ModeTime"))
    /\ r.mAppRate = h.rate /\ r.mBurstSize = a.mBurstSize
    /\ Is(c, "BuflenSet") /\ c.mBufLen > 0 => r.mBufLen = c.mBufLen
    /\ Is(a, "Isochronous") \/ (~Is(a, "UDP") /\ Is(a, "PeriodicBurst")) => r.mFPS = h.fps
    /\ \A x \in {"Isochronous", "PeriodicBurst", "TripTime", "UDP", "Multicast"} :
          Is(r, x) <=> Is(a, x)
    /\ Is(r, "NoUDPfin") <=> Is(a, "NoUDPfin") \/ (Is(a, "UDP") /\ "NOUDPFIN" \in h.upper)

\* Settings_GenerateClientSettings.
LEMMA ReversedAsked ==
  ASSUME NEW c, Agreed(c), NEW a, IsSettings(a), NEW h,
         HeaderFlags(h, c), HeaderNumbers(h, c), a.mMode = V1Mode(h, a)
  PROVE  ReverseAsked(ReversedClient(a, h), a, h, c)
<1> DEFINE v1 == V1Test(h)
           b == [a EXCEPT !.mThreadMode = "Client",
                          !.flags = IF Is(a, "FullDuplex") /\ "VERSION1" \notin h.flags
                                    THEN @ ELSE @ \ {"FullDuplex"}]
           d == ReadV1(b, h.v1)
           r == ReversedClient(a, h)
           F == (d.flags \cup {"NoSettReport", "NoConnectSync"}
                         \cup When(v1, {"ServerReverse"})
                         \cup When(Is(a, "UDP") /\ "NOUDPFIN" \in h.upper, {"NoUDPfin"})
                         \cup When("FQRATESET" \in h.upper, {"FQPacing"}))
                      \ {"TxHoldback"}
<1>1. "EXTEND" \in h.flags /\ h.v1 = HdrV1(c)
  BY DEF HeaderFlags, HeaderNumbers
<1>2. /\ IsSettings(b) /\ b.mThreadMode = "Client" /\ b.mBurstSize = a.mBurstSize
      /\ \A x : x # "FullDuplex" => (Is(b, x) <=> Is(a, x))
  BY DEF IsSettings, Fields, Is
<1> HIDE DEF b
<1>3. /\ IsSettings(d) /\ d.mThreadMode = "Client" /\ d.mBurstSize = a.mBurstSize
      /\ \A x : x # "ModeTime" => (Is(d, x) <=> Is(b, x))
      /\ HdrV1(c).bufLen # 0 => d.mBufLen = HdrV1(c).bufLen
  BY <1>1, <1>2 DEF ReadV1, IsSettings, Fields, Is
<1>4. c.mAmount <= HalfWord - 1 =>
         d.mAmount = c.mAmount /\ (Is(d, "ModeTime") <=> Is(c, "ModeTime"))
  BY <1>1, <1>2, AmountKept
<1> HIDE DEF d
<1>5. /\ IsSettings(r) /\ r.mThreadMode = "Client" /\ r.flags = F
      /\ r.mMode = IF v1 THEN V1Mode(h, a) ELSE "Normal"
      /\ r.mAmount = d.mAmount /\ r.mBufLen = d.mBufLen /\ r.mAppRate = h.rate
      /\ r.mBurstSize = a.mBurstSize
      /\ Is(a, "Isochronous") \/ (~Is(a, "UDP") /\ Is(a, "PeriodicBurst")) => r.mFPS = h.fps
  <2> DEFINE fps == "EXTEND" \in h.flags /\ (\/ Is(a, "Isochronous")
                                             \/ ~Is(a, "UDP") /\ Is(a, "PeriodicBurst"))
             extend == "EXTEND" \in h.flags
  <2>1. r = [d EXCEPT !.mMode = IF v1 THEN V1Mode(h, a) ELSE "Normal",
                      !.mAppRate = IF extend THEN h.rate ELSE @,
                      !.pps = IF extend /\ Is(a, "UDP") THEN FALSE ELSE @,
                      !.mFPS = IF fps THEN h.fps ELSE @,
                      !.flags = (@ \cup {"NoSettReport", "NoConnectSync"}
                                   \cup When(v1, {"ServerReverse"})
                                   \cup When(extend /\ Is(a, "UDP") /\ "NOUDPFIN" \in h.upper,
                                             {"NoUDPfin"})
                                   \cup When(extend /\ "FQRATESET" \in h.upper, {"FQPacing"}))
                                \ {"TxHoldback"}]
    BY DEF ReversedClient, d, b
  <2> HIDE DEF r, v1
  <2>2. /\ IsSettings(r) /\ r.mThreadMode = "Client"
        /\ r.mMode = IF v1 THEN V1Mode(h, a) ELSE "Normal"
        /\ r.mAmount = d.mAmount /\ r.mBufLen = d.mBufLen
        /\ r.mBurstSize = d.mBurstSize
    BY <1>3, <2>1 DEF IsSettings, Fields
  <2>3. r.mAppRate = h.rate /\ (fps => r.mFPS = h.fps)
    BY <1>1, <1>3, <2>1 DEF IsSettings, Fields
  <2>4. r.flags = F
    BY <1>1, <1>3, <2>1 DEF IsSettings, Fields
  <2> QED BY <1>1, <1>3, <2>2, <2>3, <2>4
<1> HIDE DEF r
<1>6. r.mMode = IF Is(c, "PeerVerDetect") THEN "Normal" ELSE c.mMode
  <2>1. SameSocketBack(c) => c.mMode = "Normal"
    BY DEF Agreed, MoreThanOneTest, SameSocketBack
  <2>2. c.mMode \in {"Normal", "DualTest", "TradeOff"}
    BY DEF Agreed
  <2> QED BY <1>5, <2>1, <2>2 DEF V1Mode, V1Test, HeaderFlags
<1>7. /\ \A x \in {"Isochronous", "PeriodicBurst", "TripTime", "UDP", "Multicast", "NoUDPfin"} :
            x \in d.flags <=> Is(a, x)
      /\ "ModeTime" \in F <=> Is(d, "ModeTime")
  BY <1>2, <1>3 DEF When, Is
<1>8. \A x \in {"Isochronous", "PeriodicBurst", "TripTime", "UDP", "Multicast"} :
            Is(r, x) <=> Is(a, x)
  BY <1>5, <1>7 DEF When, Is
<1>9. Is(r, "NoUDPfin") <=> Is(a, "NoUDPfin") \/ (Is(a, "UDP") /\ "NOUDPFIN" \in h.upper)
  BY <1>5, <1>7 DEF When, Is
<1>10. Is(r, "ModeTime") <=> Is(d, "ModeTime")
  BY <1>5, <1>7 DEF Is
<1>11. Is(c, "BuflenSet") /\ c.mBufLen > 0 => r.mBufLen = c.mBufLen
  <2>1. Is(c, "BuflenSet") => HdrV1(c).bufLen = c.mBufLen
    BY DEF HdrV1
  <2>2. c.mBufLen > 0 => c.mBufLen # 0
    BY DEF Agreed
  <2> QED BY <1>3, <1>5, <2>1, <2>2
<1>12. ReverseAsked(r, a, h, c)
  BY <1>4, <1>5, <1>6, <1>8, <1>9, <1>10, <1>11 DEF ReverseAsked
<1> QED BY <1>12 DEF r

\* The server of a test both ways has more time than the client.
LEMMA ServerTime ==
  ASSUME NEW c, Agreed(c), NEW a, IsSettings(a), NEW h, HeaderNumbers(h, c),
         c.mAmount <= HalfWord - 1
  PROVE  Is(a, "FullDuplex") \/ V1Test(h) => ServerAmount(a, h) = c.mAmount + Slop
  BY AmountKept DEF ServerAmount, HeaderNumbers

-----------------------------------------------------------------------------
\* The exchange.

\* The settings of the two programs, and the places of the client and the
\* Listener.
SettingsRight ==
    /\ cpc = "options" => Raw(cl) /\ IsSettings(ls) /\ Plain(ls)
    /\ cpc \notin {"options", "exit"} => Agreed(cl) /\ Listens(ls, IsUDP)
    /\ cpc \in {"options", "exit", "connect"} <=> lpc = "off"
    /\ lpc = "off" =>
          /\ DOMAIN wrote = {} /\ DOMAIN readers = {} /\ writers = {} /\ firstRead = {}
          /\ up = <<>> /\ down = <<>> /\ back = <<>> /\ misread = {}

\* The header the Listener has read, and what it has made of it.
Heard == hdr = GenerateClientHdr(cl) \/ hdr = PatternHdr(cl)
ServerRight ==
    /\ lpc \in {"key", "apply"} => ~Is(ls, "Compat") /\ sv = ServerOf(ls) /\ Heard
    /\ lpc = "start" =>
          IF Is(ls, "Compat") THEN sv = ServerOf(ls)
          ELSE Heard /\ sv = Applied(ls, IsUDP, hdr, clocks)

\* The client that writes stream d back to the client.
Reversed(d, r) ==
    /\ IF d = "back" THEN cl.mMode # "Normal" ELSE SameSocketBack(cl)
    /\ cl.mAmount <= HalfWord - 1 =>
          r.mAmount = cl.mAmount /\ (Is(r, "ModeTime") <=> Is(cl, "ModeTime"))
    /\ ~Is(cl, "IPG") /\ cl.mBufLen > 0 =>
          r.mAppRate = IF cl.pps THEN cl.mAppRate * 8 * cl.mBufLen ELSE cl.mAppRate
    /\ Is(cl, "BuflenSet") /\ cl.mBufLen > 0 => r.mBufLen = cl.mBufLen
    /\ Is(r, "Isochronous") <=> Is(cl, "Isochronous") /\ (IsUDP \/ ~Is(cl, "PeriodicBurst"))
    /\ Is(r, "PeriodicBurst") <=> Is(cl, "PeriodicBurst") /\ ~IsUDP
    /\ Is(r, "Isochronous") \/ Is(r, "PeriodicBurst") => r.mFPS = cl.mFPS
    /\ r.mBurstSize = ls.mBurstSize
    /\ Is(r, "UDP") <=> IsUDP
    /\ Is(r, "NoUDPfin") <=> IsUDP /\ (Is(cl, "NoUDPfin") \/ Is(cl, "Reverse"))
    /\ clocks = "close" /\ Is(cl, "TripTime") => Is(r, "TripTime")
    /\ ~IsUDP => r.mAppRate = cl.mAppRate

\* The server thread of the test.
ServerReads(s) ==
    /\ ~Is(ls, "ServerModeTime") /\ cl.mAmount <= HalfWord - 1 =>
          TimeLimit(s) = 0 \/ TimeLimit(s) > cl.mAmount
    /\ AwaitsFin(cl) => AwaitsFin(s)

\* The threads that write and read the streams.
ThreadsRight ==
    /\ DOMAIN wrote \subseteq {"up", "down", "back"}
    /\ DOMAIN readers \subseteq {"up", "down", "back"}
    /\ "up" \in DOMAIN wrote => wrote["up"] = cl
    /\ \A d \in DOMAIN wrote \ {"up"} : Reversed(d, wrote[d])
    /\ "up" \in DOMAIN readers => ServerReads(readers["up"])
    /\ "down" \in DOMAIN readers => readers["down"] = ClientSideServer(cl)
    /\ "back" \in DOMAIN readers => readers["back"] = BackServer(cl) /\ cl.mMode # "Normal"

SetupInv == SettingsRight /\ ServerRight /\ ThreadsRight

\* What the runs check follows: of the client that writes back,
LEMMA SetupReversed == ASSUME SetupInv PROVE ReversedAsAsked
  BY DEF SetupInv, ThreadsRight, ReversedAsAsked, Reversed, SizedIsoch

\* and of the readers.
LEMMA SetupOutlasts == ASSUME SetupInv PROVE ReaderOutlasts
<1> SUFFICES ASSUME NEW d \in DOMAIN wrote \cap DOMAIN readers
             PROVE  /\ Is(wrote[d], "ModeTime") /\ ~Is(ls, "ServerModeTime")
                       /\ Is(cl, "ModeTime") /\ cl.mAmount < HalfWord
                        => TimeLimit(readers[d]) = 0 \/ TimeLimit(readers[d]) > wrote[d].mAmount
                    /\ AwaitsFin(wrote[d]) => AwaitsFin(readers[d])
  BY DEF ReaderOutlasts
<1>1. /\ Agreed(cl) /\ IsSettings(cl) /\ cl.mAmount \in Nat /\ Slop \in Nat \ {0}
      /\ DualTimer \in Nat \ {0} /\ HalfWord \in Nat
  BY SettingsAssumption DEF SetupInv, SettingsRight, Agreed
<1>2. cl.mAmount < HalfWord => cl.mAmount <= HalfWord - 1
  BY <1>1
<1>3. CASE d = "up"
  BY <1>2, <1>3 DEF SetupInv, ThreadsRight, ServerReads
<1>4. CASE d = "down"
  <2> DEFINE s == ClientSideServer(cl)
  <2>1. readers[d] = s /\ Reversed(d, wrote[d])
    BY <1>4 DEF SetupInv, ThreadsRight
  <2>2. /\ s.mAmount \in Nat /\ s.mAmount >= cl.mAmount
        /\ Is(s, "Reverse") /\ (Is(cl, "ModeTime") => Is(s, "ModeTime"))
    BY <1>1 DEF ClientSideServer, Set, When, Is, IsSettings, Fields
  <2>3. Is(cl, "ModeTime") => TimeLimit(s) = s.mAmount + Slop
    BY <2>2 DEF TimeLimit
  <2>4. ~AwaitsFin(wrote[d])
    BY <1>1, <1>4, <2>1 DEF Reversed, AwaitsFin, SameSocketBack, Agreed, IsUDP
  <2> HIDE DEF s
  <2>5. Is(cl, "ModeTime") => TimeLimit(s) > cl.mAmount
    BY <1>1, <2>2, <2>3
  <2> QED BY <1>2, <2>1, <2>4, <2>5 DEF Reversed
<1>5. CASE d = "back"
  <2> DEFINE s == BackServer(cl)
  <2>1. readers[d] = s /\ Reversed(d, wrote[d]) /\ cl.mMode # "Normal"
    BY <1>5 DEF SetupInv, ThreadsRight
  <2>2. s.mAmount \in Nat /\ s.mAmount > cl.mAmount
    BY <1>1 DEF BackServer, ListenerSettings, IsSettings, Fields
  <2>3. \A x \in {"UDP", "Multicast", "NoUDPfin"} : Is(s, x) <=> Is(cl, x)
    BY <1>1 DEF BackServer, ListenerSettings, IsSettings, Fields, Is
  <2> HIDE DEF s
  <2>4. TimeLimit(s) = 0 \/ TimeLimit(s) > cl.mAmount
    BY <1>1, <2>2 DEF TimeLimit
  <2>5. ~Is(cl, "Multicast")
    BY <1>1, <2>1 DEF Agreed, BothWays
  <2> QED BY <1>2, <2>1, <2>3, <2>4, <2>5 DEF Reversed, AwaitsFin, IsUDP
<1> QED BY <1>3, <1>4, <1>5 DEF SetupInv, ThreadsRight

\* Before the first option.
LEMMA SetupInit == ASSUME Init PROVE SetupInv
<1>1. IsSettings(ls) /\ Plain(ls)
  <2>1. PICK cmd \in ListenerCmds : ls = CommandLine(cmd)
    BY DEF Init
  <2>2. ls \in ThreadSettings /\ Plain(ls)
    BY <2>1, ExchangeAssumption
  <2>3. \A s \in ThreadSettings : IsSettings(s)
    BY DEF ThreadSettings, IsSettings, Fields
  <2> QED BY <2>2, <2>3
<1>2. Raw(cl)
  BY InitializeRaw DEF Init
<1>3. DOMAIN wrote = {} /\ DOMAIN readers = {}
  BY DEF Init
<1> QED BY <1>1, <1>2, <1>3 DEF Init, SetupInv, SettingsRight, ServerRight, ThreadsRight

\* What the Listener has made of the header when it starts the threads.
LEMMA StartFacts ==
  ASSUME SetupInv, lpc = "start"
  PROVE  /\ Agreed(cl) /\ Listens(ls, IsUDP)
         /\ \/ ServerAlone(sv, ls, IsUDP)
            \/ /\ ~Is(ls, "Compat") /\ hdr = GenerateClientHdr(cl)
               /\ HeaderFlags(hdr, cl) /\ HeaderUpper(hdr, cl) /\ HeaderNumbers(hdr, cl)
               /\ ServerAsked(sv, ls, cl, clocks)
<1>1. Agreed(cl) /\ Listens(ls, IsUDP) /\ IsUDP \in BOOLEAN
  BY DEF SetupInv, SettingsRight, IsUDP, Is
<1>2. CASE Is(ls, "Compat")
  <2>1. sv = ServerOf(ls)
    BY <1>2 DEF SetupInv, ServerRight
  <2> QED BY <1>1, <2>1, ServerOfListens
<1>3. CASE ~Is(ls, "Compat")
  <2>1. Heard /\ sv = Applied(ls, IsUDP, hdr, clocks)
    BY <1>3 DEF SetupInv, ServerRight
  <2>2. CASE hdr = PatternHdr(cl) \/ Is(cl, "SmallTripTime")
    BY <1>1, <2>1, <2>2, NotAsked DEF Heard, IsUDP
  <2>3. CASE hdr = GenerateClientHdr(cl) /\ ~Is(cl, "SmallTripTime")
    <3>1. HeaderFlags(hdr, cl) /\ HeaderUpper(hdr, cl) /\ HeaderNumbers(hdr, cl)
      BY <1>1, <2>3, TcpHeader, UdpHeader
    <3>2. CASE IsUDP
      <4>1. Listens(ls, TRUE) /\ sv = Applied(ls, TRUE, hdr, clocks) /\ Is(cl, "UDP")
        BY <1>1, <2>1, <3>2 DEF IsUDP
      <4>2. ServerAsked(sv, ls, cl, clocks)
        BY <1>1, <2>3, <4>1, UdpApplied
      <4> QED BY <1>1, <1>3, <2>3, <3>1, <4>2
    <3>3. CASE ~IsUDP
      <4>1. Listens(ls, FALSE) /\ sv = Applied(ls, FALSE, hdr, clocks) /\ ~Is(cl, "UDP")
        BY <1>1, <2>1, <3>3 DEF IsUDP, Listens, Applied
      <4>2. ServerAsked(sv, ls, cl, clocks)
        BY <1>1, <2>3, <4>1, TcpApplied
      <4> QED BY <1>1, <1>3, <2>3, <3>1, <4>2
    <3> QED BY <3>2, <3>3
  <2> QED BY <2>1, <2>2, <2>3 DEF Heard
<1> QED BY <1>2, <1>3

\* The test sends traffic back.
Back(s) ==
    ~Is(s, "Compat") /\ (Is(s, "FullDuplex") \/ Is(s, "ServerReverse") \/ s.mMode # "Normal")

\* The client that the Listener starts then.
LEMMA StartsReversed ==
  ASSUME SetupInv, lpc = "start", Back(sv),
         LET rc == ReversedClient(sv, hdr) IN ~(Is(rc, "Isochronous") /\ rc.mFPS = 0)
  PROVE  LET rc == ReversedClient(sv, hdr)
         IN  Reversed(IF rc.mMode # "Normal" THEN "back" ELSE "down", rc)
<1> DEFINE rc == ReversedClient(sv, hdr)
           d == IF rc.mMode # "Normal" THEN "back" ELSE "down"
<1>1. Agreed(cl) /\ Listens(ls, IsUDP) /\ ~ServerAlone(sv, ls, IsUDP)
  BY StartFacts DEF Back, ServerAlone, ClientFlags
<1>2. /\ hdr = GenerateClientHdr(cl) /\ ServerAsked(sv, ls, cl, clocks)
      /\ HeaderFlags(hdr, cl) /\ HeaderUpper(hdr, cl) /\ HeaderNumbers(hdr, cl)
  BY <1>1, StartFacts
<1>3. sv.mMode = V1Mode(hdr, sv)
  BY <1>1, <1>2 DEF ServerAsked, V1Mode, V1Test, HeaderFlags, Agreed
<1>4. ReverseAsked(rc, sv, hdr, cl)
  BY <1>1, <1>2, <1>3, ReversedAsked DEF ServerAsked
<1> HIDE DEF rc
<1>5. /\ IF d = "back" THEN cl.mMode # "Normal" ELSE SameSocketBack(cl)
      /\ BothWays(cl)
  BY <1>2, <1>4 DEF ServerAsked, ReverseAsked, SameSocketBack, Back, BothWays
<1>6. /\ Is(rc, "Isochronous") <=> Is(cl, "Isochronous") /\ (IsUDP \/ ~Is(cl, "PeriodicBurst"))
      /\ Is(rc, "PeriodicBurst") <=> Is(cl, "PeriodicBurst") /\ ~IsUDP
      /\ Is(rc, "UDP") <=> IsUDP
      /\ clocks = "close" /\ Is(cl, "TripTime") => Is(rc, "TripTime")
  BY <1>2, <1>4 DEF ServerAsked, ReverseAsked, IsUDP
<1>7. Is(rc, "NoUDPfin") <=> IsUDP /\ (Is(cl, "NoUDPfin") \/ Is(cl, "Reverse"))
  BY <1>2, <1>4 DEF ServerAsked, ReverseAsked, HeaderUpper, IsUDP
<1>8. Is(rc, "Isochronous") \/ Is(rc, "PeriodicBurst") => rc.mFPS = cl.mFPS
  <2>1. Is(rc, "Isochronous") \/ Is(rc, "PeriodicBurst") => rc.mFPS = hdr.fps
    BY <1>2, <1>4, <1>6 DEF ServerAsked, ReverseAsked, IsUDP
  <2>2. ~(Is(rc, "Isochronous") /\ rc.mFPS = 0)
    BY DEF rc
  <2> QED BY <1>2, <1>6, <2>1, <2>2 DEF HeaderNumbers, IsUDP
<1>9. /\ rc.mAppRate = hdr.rate /\ rc.mBurstSize = ls.mBurstSize
      /\ cl.mAmount <= HalfWord - 1 =>
            rc.mAmount = cl.mAmount /\ (Is(rc, "ModeTime") <=> Is(cl, "ModeTime"))
      /\ Is(cl, "BuflenSet") /\ cl.mBufLen > 0 => rc.mBufLen = cl.mBufLen
  BY <1>2, <1>4 DEF ServerAsked, ReverseAsked
<1>10. Reversed(d, rc)
  BY <1>2, <1>5, <1>6, <1>7, <1>8, <1>9 DEF Reversed, HeaderNumbers, IsUDP
<1> QED BY <1>10 DEF rc

\* The server thread that the Listener starts.
LEMMA StartsServer ==
  ASSUME SetupInv, lpc = "start", sv.mThreadMode = "Server", NEW s,
         s = [sv EXCEPT !.mAmount = IF Back(sv) THEN ServerAmount(sv, hdr) ELSE @]
  PROVE  ServerReads(s)
<1>1. Agreed(cl) /\ Listens(ls, IsUDP) /\ cl.mAmount \in Nat /\ Slop \in Nat \ {0}
  BY StartFacts, SettingsAssumption DEF Agreed
<1>2. IsSettings(sv)
  BY StartFacts DEF ServerAlone, ServerAsked
<1>3. /\ \A x : Is(s, x) <=> Is(sv, x)
      /\ Back(sv) => s.mAmount = ServerAmount(sv, hdr)
  BY <1>2 DEF IsSettings, Fields, Is
<1>4. CASE ServerAlone(sv, ls, IsUDP)
  <2>1. ~Is(ls, "ServerModeTime") => TimeLimit(s) = 0
    BY <1>3, <1>4 DEF ServerAlone, ClientFlags, TimeLimit
  <2>2. AwaitsFin(cl) => AwaitsFin(s)
    BY <1>3, <1>4 DEF ServerAlone, ClientFlags, AwaitsFin, IsUDP
  <2> QED BY <2>1, <2>2 DEF ServerReads
<1>5. CASE ServerAsked(sv, ls, cl, clocks) /\ ~Is(ls, "Compat") /\ HeaderNumbers(hdr, cl)
  <2>1. ~Is(cl, "Reverse")
    BY <1>5 DEF ServerAsked
  <2>2. AwaitsFin(cl) => AwaitsFin(s)
    BY <1>3, <1>5, <2>1 DEF ServerAsked, AwaitsFin
  <2>3. CASE Is(cl, "FullDuplex")
    <3>1. Back(sv) /\ Is(sv, "FullDuplex")
      BY <1>5, <2>3 DEF ServerAsked, Back
    <3>2. cl.mAmount <= HalfWord - 1 => s.mAmount = cl.mAmount + Slop
      BY <1>1, <1>2, <1>3, <1>5, <3>1, ServerTime
    <3>3. cl.mAmount <= HalfWord - 1 => TimeLimit(s) = 0 \/ TimeLimit(s) = s.mAmount + Slop
      BY <1>3, <3>1 DEF TimeLimit
    <3> QED BY <1>1, <2>2, <3>2, <3>3 DEF ServerReads
  <2>4. CASE ~Is(cl, "FullDuplex")
    <3>1. ~Is(ls, "ServerModeTime") => TimeLimit(s) = 0
      BY <1>3, <1>5, <2>1, <2>4 DEF ServerAsked, TimeLimit
    <3> QED BY <2>2, <3>1 DEF ServerReads
  <2> QED BY <2>3, <2>4
<1> QED BY <1>4, <1>5, StartFacts

\* The command line.
LEMMA OptionSetup == ASSUME SetupInv, GiveOption PROVE SetupInv'
<1>1. Raw(cl')
  <2>1. PICK o \in Options : cl' = Interpret(o, cl)
    BY DEF GiveOption
  <2>2. Raw(cl)
    BY DEF GiveOption, SetupInv, SettingsRight
  <2> QED BY <2>1, <2>2, InterpretRaw, ExchangeAssumption
<1>2. SettingsRight'
  BY <1>1 DEF GiveOption, SetupInv, SettingsRight, streamVars, threadVars
<1>3. ServerRight'
  BY DEF GiveOption, SetupInv, SettingsRight, ServerRight
<1>4. ThreadsRight'
  BY DEF GiveOption, SetupInv, SettingsRight, ThreadsRight, threadVars
<1> QED BY <1>2, <1>3, <1>4 DEF SetupInv

\* Its end.
LEMMA EndOptionsSetup == ASSUME SetupInv, EndOptions PROVE SetupInv'
<1> DEFINE c == ModalOptions(cl)
           l == ModalOptions(Set(ls, When(IsUDP, {"UDP"})))
<1>1. /\ cpc = "options" /\ lpc = "off" /\ lpc' = "off" /\ cl' = c /\ ls' = l
      /\ Raw(cl) /\ IsSettings(ls) /\ Plain(ls)
  BY DEF EndOptions, SetupInv, SettingsRight
<1>2. cpc' = "exit" \/ (cpc' = "connect" /\ IsClient(c) /\ ~c.bail /\ ~l.bail)
  BY DEF EndOptions
<1>3. cpc' = "connect" => Agreed(c) /\ (Is(c, "UDP") <=> IsUDP)
  BY <1>1, <1>2, ModalAgreed DEF IsUDP
<1>4. cpc' = "connect" => Listens(l, IsUDP)
  <2>1. IsUDP \in BOOLEAN
    BY DEF IsUDP, Is
  <2> QED BY <1>1, <1>2, <2>1, ModalListens
<1> HIDE DEF c, l
<1>5. cpc' = "connect" => Agreed(cl)' /\ Listens(ls, IsUDP)'
  BY <1>1, <1>3, <1>4 DEF Listens, IsUDP
<1>6. SettingsRight'
  BY <1>1, <1>2, <1>5 DEF EndOptions, SetupInv, SettingsRight, streamVars, threadVars
<1>7. ServerRight'
  BY <1>1 DEF ServerRight
<1>8. ThreadsRight'
  BY <1>1 DEF EndOptions, SetupInv, SettingsRight, ThreadsRight, threadVars
<1> QED BY <1>6, <1>7, <1>8 DEF SetupInv

\* The connection.
LEMMA ConnectSetup == ASSUME SetupInv, Connect PROVE SetupInv'
<1> DEFINE c == Constructed(cl)
<1>1. /\ cpc = "connect" /\ lpc = "off" /\ lpc' = "accept" /\ cl' = c /\ ls' = ls
      /\ cpc' \in {"ended", "ack", "run"}
      /\ Agreed(cl) /\ Listens(ls, IsUDP)
  BY DEF Connect, SetupInv, SettingsRight
<1>2. Agreed(c) /\ (Is(c, "UDP") <=> IsUDP)
  BY <1>1, ConstructedAgreed DEF IsUDP
<1>3. \/ wrote' = wrote /\ readers' = readers
      \/ wrote' = wrote /\ c.mMode # "Normal" /\ readers' = With(readers, "back", BackServer(c))
  BY DEF Connect, threadVars
<1> HIDE DEF c
<1>4. SettingsRight'
  BY <1>1, <1>2 DEF SettingsRight, Listens, IsUDP
<1>5. ServerRight'
  BY <1>1 DEF ServerRight
<1>6. DOMAIN wrote = {} /\ DOMAIN readers = {}
  BY <1>1 DEF SetupInv, SettingsRight
<1>7. /\ DOMAIN wrote' = {} /\ DOMAIN readers' \subseteq {"back"}
      /\ "back" \in DOMAIN readers' => readers'["back"] = BackServer(c) /\ c.mMode # "Normal"
  BY <1>3, <1>6 DEF With
<1>8. ThreadsRight'
  BY <1>1, <1>7 DEF ThreadsRight
<1> QED BY <1>4, <1>5, <1>8 DEF SetupInv

\* A step that leaves the settings and the threads alone.
LEMMA SameSetup ==
  ASSUME SetupInv, UNCHANGED <<cl, ls, clocks, readers, wrote>>
  PROVE  ThreadsRight'
  BY DEF SetupInv, ThreadsRight, Reversed, ServerReads, IsUDP

\* The Listener reads the header,
LEMMA HeaderSetup == ASSUME SetupInv, ReadHeader PROVE SetupInv'
<1>1. /\ lpc = "accept" /\ lpc' \in {"start", "rejected", "key", "apply"}
      /\ UNCHANGED <<cl, ls, clocks, cpc, readers, wrote>>
      /\ sv' = ServerOf(ls)
  BY DEF ReadHeader, threadVars, ServerOf
<1>2. lpc' \in {"key", "apply"} =>
         ~Is(ls, "Compat") /\ (hdr' = GenerateClientHdr(cl) \/ hdr' = PatternHdr(cl))
  BY DEF ReadHeader
<1>3. lpc' = "start" => Is(ls, "Compat")
  BY DEF ReadHeader
<1>4. SettingsRight'
  BY <1>1 DEF SetupInv, SettingsRight, IsUDP
<1>5. ServerRight'
  BY <1>1, <1>2, <1>3 DEF ServerRight, Heard
<1> QED BY <1>1, <1>4, <1>5, SameSetup DEF SetupInv

\* looks for the key,
LEMMA KeySetup == ASSUME SetupInv, TestPermitKey PROVE SetupInv'
<1>1. /\ lpc = "key" /\ lpc' \in {"rejected", "apply"}
      /\ UNCHANGED <<cl, ls, clocks, cpc, readers, wrote, sv, hdr>>
  BY DEF TestPermitKey, threadVars
<1>2. SettingsRight'
  BY <1>1 DEF SetupInv, SettingsRight, IsUDP
<1>3. ServerRight'
  BY <1>1 DEF SetupInv, ServerRight, Heard
<1> QED BY <1>1, <1>2, <1>3, SameSetup DEF SetupInv

\* applies the client's settings and acknowledges them,
LEMMA ApplySetup == ASSUME SetupInv, ApplyClientSettings PROVE SetupInv'
<1>1. /\ lpc = "apply" /\ lpc' = "start"
      /\ UNCHANGED <<cl, ls, clocks, cpc, readers, wrote, hdr>>
  BY DEF ApplyClientSettings, threadVars
<1>2. ~Is(ls, "Compat") /\ sv = ServerOf(ls) /\ Heard
  BY <1>1 DEF SetupInv, ServerRight
<1>3. sv' = Applied(ls, IsUDP, hdr, clocks)
  BY <1>2 DEF ApplyClientSettings, Applied
<1>4. SettingsRight'
  BY <1>1 DEF SetupInv, SettingsRight, IsUDP
<1>5. ServerRight'
  BY <1>1, <1>2, <1>3 DEF ServerRight, Heard, IsUDP
<1> QED BY <1>1, <1>4, <1>5, SameSetup DEF SetupInv

\* and the client reads the acknowledgement.
LEMMA PeerXchangeSetup == ASSUME SetupInv, PeerXchange PROVE SetupInv'
<1>1. /\ cpc = "ack" /\ cpc' = "run"
      /\ UNCHANGED <<cl, ls, clocks, lpc, readers, wrote, hdr, sv>>
  BY DEF PeerXchange, threadVars
<1>2. SettingsRight'
  BY <1>1 DEF SetupInv, SettingsRight, IsUDP
<1>3. ServerRight'
  BY <1>1 DEF SetupInv, ServerRight, Heard, IsUDP
<1> QED BY <1>1, <1>2, <1>3, SameSetup DEF SetupInv

\* The threads of the client.
LEMMA RunClientSetup == ASSUME SetupInv, RunClient PROVE SetupInv'
<1>1. /\ cpc = "run" /\ cpc' = "ended"
      /\ UNCHANGED <<cl, ls, clocks, lpc, hdr, sv>>
  BY DEF RunClient
<1>2. wrote' = wrote \/ wrote' = With(wrote, "up", cl)
  BY DEF RunClient, Writer
<1>3. readers' = readers \/ readers' = With(readers, "down", ClientSideServer(cl))
  BY DEF RunClient
<1>4. SettingsRight'
  BY <1>1 DEF SetupInv, SettingsRight, IsUDP
<1>5. ServerRight'
  BY <1>1 DEF SetupInv, ServerRight, Heard, IsUDP
<1>6. /\ DOMAIN wrote' \subseteq DOMAIN wrote \cup {"up"}
      /\ \A d \in DOMAIN wrote' : IF d \in DOMAIN wrote THEN wrote'[d] = wrote[d]
                                  ELSE wrote'[d] = cl
  BY <1>2 DEF With
<1>7. /\ DOMAIN readers' \subseteq DOMAIN readers \cup {"down"}
      /\ \A d \in DOMAIN readers' : IF d \in DOMAIN readers THEN readers'[d] = readers[d]
                                    ELSE readers'[d] = ClientSideServer(cl)
  BY <1>3 DEF With
<1>8. ThreadsRight'
  BY <1>1, <1>6, <1>7 DEF SetupInv, ThreadsRight, Reversed, ServerReads, IsUDP
<1> QED BY <1>4, <1>5, <1>8 DEF SetupInv

\* The threads of the server.
LEMMA StartThreadsSetup == ASSUME SetupInv, StartThreads PROVE SetupInv'
<1> DEFINE rc == ReversedClient(sv, hdr)
           d1 == IF rc.mMode # "Normal" THEN "back" ELSE "down"
           server == [sv EXCEPT !.mAmount = IF Back(sv) THEN ServerAmount(sv, hdr) ELSE @]
<1>1. /\ lpc = "start" /\ lpc' = "started"
      /\ UNCHANGED <<cl, ls, clocks, cpc, hdr>>
  BY DEF StartThreads
<1>2. readers' = IF sv.mThreadMode = "Server" THEN With(readers, "up", server) ELSE readers
  BY DEF StartThreads, Back
<1>3. \/ wrote' = wrote
      \/ /\ Back(sv) /\ ~(Is(rc, "Isochronous") /\ rc.mFPS = 0)
         /\ wrote' = With(wrote, d1, rc)
  BY DEF StartThreads, Back, Writer
<1>4. Back(sv) /\ ~(Is(rc, "Isochronous") /\ rc.mFPS = 0) => Reversed(d1, rc)
  BY <1>1, StartsReversed
<1>5. sv.mThreadMode = "Server" => ServerReads(server)
  BY <1>1, StartsServer
<1>6. d1 \in {"back", "down"}
  OBVIOUS
<1> HIDE DEF rc, d1, server
<1>7. SettingsRight'
  BY <1>1 DEF SetupInv, SettingsRight, IsUDP
<1>8. ServerRight'
  BY <1>1 DEF ServerRight
<1>9. /\ DOMAIN wrote' \subseteq DOMAIN wrote \cup {d1}
      /\ \A d \in DOMAIN wrote' : IF d \in DOMAIN wrote THEN wrote'[d] = wrote[d]
                                  ELSE d = d1 /\ wrote'[d] = rc /\ Reversed(d1, rc)
  BY <1>3, <1>4 DEF With
<1>10. /\ DOMAIN readers' \subseteq DOMAIN readers \cup {"up"}
       /\ \A d \in DOMAIN readers' : IF d \in DOMAIN readers THEN readers'[d] = readers[d]
                                     ELSE readers'[d] = server /\ ServerReads(server)
  BY <1>2, <1>5 DEF With
<1>11. \A d \in DOMAIN wrote' \ {"up"} : Reversed(d, wrote'[d])
  BY <1>6, <1>9 DEF SetupInv, ThreadsRight
<1>12. "up" \in DOMAIN readers' => ServerReads(readers'["up"])
  BY <1>10 DEF SetupInv, ThreadsRight
<1>13. ThreadsRight'
  <2>1. \A d, r : Reversed(d, r)' <=> Reversed(d, r)
    BY <1>1 DEF Reversed, IsUDP
  <2>2. \A s : ServerReads(s)' <=> ServerReads(s)
    BY <1>1 DEF ServerReads
  <2> QED BY <1>1, <1>6, <1>9, <1>10, <1>11, <1>12, <2>1, <2>2
          DEF SetupInv, ThreadsRight, Reversed, ServerReads, IsUDP
<1> QED BY <1>7, <1>8, <1>13 DEF SetupInv

\* The traffic.
LEMMA TrafficSetup ==
  ASSUME SetupInv, NEW d \in {"up", "down", "back"}, Write(d) \/ Read(d)
  PROVE  SetupInv'
<1>1. UNCHANGED <<cl, ls, clocks, cpc, lpc, hdr, sv, readers, wrote>>
  BY DEF Write, Read
<1>2. lpc # "off"
  <2>1. d \in writers \/ d \in DOMAIN readers
    BY DEF Write, Read
  <2> QED BY <2>1 DEF SetupInv, SettingsRight
<1>3. SettingsRight'
  BY <1>1, <1>2 DEF SetupInv, SettingsRight, IsUDP
<1>4. ServerRight'
  BY <1>1 DEF SetupInv, ServerRight, Heard, IsUDP
<1> QED BY <1>1, <1>3, <1>4, SameSetup DEF SetupInv

\* Every step keeps the invariant.
LEMMA SetupStep == ASSUME SetupInv, [Next]_vars PROVE SetupInv'
<1>1. CASE UNCHANGED vars
  BY <1>1 DEF vars, SetupInv, SettingsRight, ServerRight, ThreadsRight, Reversed, ServerReads,
              Heard, IsUDP
<1> QED BY <1>1, OptionSetup, EndOptionsSetup, ConnectSetup, HeaderSetup, KeySetup, ApplySetup,
          PeerXchangeSetup, RunClientSetup, StartThreadsSetup, TrafficSetup DEF Next

\* SetupInvariant: the settings of the client, the Listener and every thread they
\* start stay in step with the header that was sent.
THEOREM SetupInvariant == Spec => []SetupInv
<1>1. Init => SetupInv
  BY SetupInit
<1>2. SetupInv /\ [Next]_vars => SetupInv'
  BY SetupStep
<1> QED BY <1>1, <1>2, PTL DEF Spec

\* ReversedAsAskedAlways: the client that sends traffic back has the amount or
\* time, the rate, the length and the frame rate of the client that asked for it,
\* and the burst size of the Listener, for every command line, through Settings_GenerateClientHdr,
\* apply_client_settings and Settings_GenerateClientSettings.
THEOREM ReversedAsAskedAlways == Spec => []ReversedAsAsked
<1>1. SetupInv => ReversedAsAsked
  BY SetupReversed
<1> QED BY <1>1, SetupInvariant, PTL

\* ReaderOutlastsAlways: the reader of every stream ends after its writer, and a
\* writer that awaits the final report of a UDP test has a reader that sends it,
\* for every command line (Server::InitTrafficLoop).
THEOREM ReaderOutlastsAlways == Spec => []ReaderOutlasts
<1>1. SetupInv => ReaderOutlasts
  BY SetupOutlasts
<1> QED BY <1>1, SetupInvariant, PTL

-----------------------------------------------------------------------------
\* The streams.

\* What a client with settings s writes, the acknowledgement it waits for, and
\* the tests of which the code gets every header right.
Sends(s) == IF WritesBursts(s) THEN "burst" ELSE "data"
AckOf(s) == IF Is(s, "TripTime") THEN "longack" ELSE "ack"
Good == ~(DualBursts \/ TripIgnored \/ IsochBack \/ RateBursts)

Pieces == {"hdr", "key", "ack", "longack", "burst", "data"}
All(q, x) == \A k \in 1..Len(q) : q[k] = x

\* The threads: only the reader of traffic back on the client's connection reads
\* a test header.
ReadersRight ==
    /\ writers \subseteq DOMAIN wrote
    /\ firstRead \subseteq {"down"}
    /\ "up" \in DOMAIN readers => lpc = "started"
    /\ "down" \in DOMAIN readers => SameSocketBack(cl) /\ cpc = "ended" /\ ~Is(cl, "ConnectOnly")
    /\ "down" \in firstRead => "down" \in DOMAIN readers /\ ReadsFirst(ClientSideServer(cl))
    /\ cpc \in {"ack", "run"} => ~Is(cl, "ConnectOnly")
    /\ cpc \in {"options", "exit", "connect", "ack", "run", "ended"}

\* What the client writes: the header, the key and its traffic.  The Listener
\* that accepts the header accepts no key after it.
UpRight ==
    /\ up \in Seq(Pieces)
    /\ lpc = "accept" =>
          \A k \in 1..Len(up) :
              \/ up[k] = Sends(cl)
              \/ k = 1 /\ up[k] = "hdr"
              \/ k = 2 /\ up[1] = "hdr" /\ up[k] = "key" /\ GenerateClientHdr(cl).key # 0
    /\ lpc = "key" => \A k \in 1..Len(up) : up[k] = "key" => k = 1
    /\ lpc \in {"apply", "start"} /\ ~IsUDP =>
          hdr = PatternHdr(cl) \/ Is(ls, "Compat") \/ All(up, Sends(cl))
    /\ "up" \in DOMAIN readers /\ ~IsUDP /\ IsBurst(readers["up"]) =>
          IsBurst(cl) /\ All(up, Sends(cl))

\* The acknowledgement: it is sent to a client that waits for it, before anything
\* else.
AckRight ==
    /\ down \in Seq(Pieces)
    /\ cpc = "ack" => Is(cl, "PeerVerDetect")
    /\ lpc \in {"accept", "key", "apply"} /\ Is(cl, "PeerVerDetect") /\ ~Is(cl, "ConnectOnly")
          => cpc = "ack"
    /\ lpc \in {"accept", "key", "apply"} => down = <<>>
    /\ lpc \in {"accept", "key", "apply", "start"} => "down" \notin DOMAIN wrote
    /\ cpc = "ack" /\ Good /\ down # <<>> => Head(down) = AckOf(cl)
    /\ cpc = "ack" /\ "down" \in DOMAIN wrote => down # <<>>
    /\ cpc = "ack" /\ lpc = "start" => down # <<>> \/ hdr = PatternHdr(cl) \/ Is(ls, "Compat")

\* What comes back in a test with burst headers: the header and the bursts, of
\* which the reader has read as much as it says.
Bursty == ~IsUDP /\ Good /\ SameSocketBack(cl) /\ Bursts /\ ~Is(cl, "ConnectOnly")
Unwritten == "down" \notin DOMAIN wrote \/ "down" \in writers
DownRight ==
    Bursty =>
        /\ Unwritten =>
              /\ down = <<>> \/ (cpc = "ack" /\ down = <<AckOf(cl)>>)
              /\ cpc = "ended" => "down" \in firstRead
        /\ ~Unwritten =>
              /\ cpc = "ack" => down = <<AckOf(cl), "hdr", "burst", "burst">>
              /\ cpc = "run" \/ "down" \in firstRead => down = <<"hdr", "burst", "burst">>
              /\ cpc = "ended" /\ "down" \notin firstRead =>
                    down \in {<<>>, <<"burst">>, <<"burst", "burst">>}

StreamsInv == ReadersRight /\ UpRight /\ AckRight /\ DownRight /\ (Good => misread = {})

\* What is written comes after what is there,
LEMMA Written ==
  ASSUME NEW q \in Seq(Pieces), NEW t \in Seq(Pieces)
  PROVE  /\ q \o t \in Seq(Pieces) /\ Len(q \o t) = Len(q) + Len(t)
         /\ Len(q) \in Nat /\ Len(t) \in Nat
         /\ \A k \in 1..Len(q \o t) : (q \o t)[k] = IF k <= Len(q) THEN q[k] ELSE t[k - Len(q)]
<1>1. q \o t \in Seq(Pieces)
  OBVIOUS
<1>2. Len(q) \in Nat /\ Len(t) \in Nat /\ Len(q \o t) = Len(q) + Len(t)
  OBVIOUS
<1> QED BY <1>1, <1>2

\* and what is read comes first.
LEMMA Unread ==
  ASSUME NEW q \in Seq(Pieces), q # <<>>
  PROVE  /\ Len(q) \in Nat \ {0} /\ Head(q) = q[1]
         /\ Tail(q) \in Seq(Pieces) /\ Len(Tail(q)) = Len(q) - 1
         /\ \A k \in 1..Len(Tail(q)) : Tail(q)[k] = q[k + 1]
<1>1. Len(q) \in Nat \ {0}
  BY SMT
<1>2. Head(q) = q[1] /\ Tail(q) \in Seq(Pieces) /\ Len(Tail(q)) = Len(q) - 1
  BY <1>1
<1>3. \A k \in 1..Len(Tail(q)) : Tail(q)[k] = q[k + 1]
  BY <1>1, <1>2
<1> QED BY <1>1, <1>2, <1>3

\* The short streams of a test with bursts, as they are read,
LEMMA ShortStreams ==
  ASSUME NEW a
  PROVE  /\ Tail(<<a, "hdr", "burst", "burst">>) = <<"hdr", "burst", "burst">>
         /\ Tail(<<"hdr", "burst", "burst">>) = <<"burst", "burst">>
         /\ Tail(<<"burst", "burst">>) = <<"burst">>
         /\ Tail(<<"burst">>) = <<>> /\ Tail(<<a>>) = <<>>
         /\ Head(<<a, "hdr", "burst", "burst">>) = a /\ Head(<<a>>) = a
         /\ Head(<<"hdr", "burst", "burst">>) = "hdr"
         /\ Head(<<"burst", "burst">>) = "burst"
  OBVIOUS

\* and as they are written.
LEMMA ShortWrites ==
  ASSUME NEW a
  PROVE  /\ <<"hdr">> \o <<"burst", "burst">> = <<"hdr", "burst", "burst">>
         /\ <<>> \o <<"hdr", "burst", "burst">> = <<"hdr", "burst", "burst">>
         /\ <<a>> \o <<"hdr", "burst", "burst">> = <<a, "hdr", "burst", "burst">>
         /\ Append(<<>>, a) = <<a>> /\ <<a>> # <<>>
<1>1. <<"hdr">> \o <<"burst", "burst">> = <<"hdr", "burst", "burst">>
  <2> DEFINE q == <<"hdr">> \o <<"burst", "burst">>
  <2>1. <<"hdr">> \in Seq({"hdr", "burst"}) /\ <<"burst", "burst">> \in Seq({"hdr", "burst"})
    OBVIOUS
  <2>2. q \in Seq({"hdr", "burst"}) /\ Len(q) = 3
    BY <2>1
  <2>3. q[1] = "hdr" /\ q[2] = "burst" /\ q[3] = "burst"
    BY <2>1, <2>2
  <2> HIDE DEF q
  <2>4. q = <<q[1], q[2], q[3]>>
    BY <2>2
  <2> QED BY <2>3, <2>4 DEF q
<1>2. <<>> \o <<"hdr", "burst", "burst">> = <<"hdr", "burst", "burst">>
  OBVIOUS
<1>3. <<a>> \o <<"hdr", "burst", "burst">> = <<a, "hdr", "burst", "burst">>
  <2> DEFINE q == <<a>> \o <<"hdr", "burst", "burst">>
             S == {a, "hdr", "burst"}
  <2>1. <<a>> \in Seq(S) /\ <<"hdr", "burst", "burst">> \in Seq(S)
    OBVIOUS
  <2>2. q \in Seq(S) /\ Len(q) = 4
    BY <2>1
  <2>3. q[1] = a /\ q[2] = "hdr" /\ q[3] = "burst" /\ q[4] = "burst"
    BY <2>1, <2>2
  <2> HIDE DEF q
  <2>4. q = <<q[1], q[2], q[3], q[4]>>
    BY <2>2
  <2> QED BY <2>3, <2>4 DEF q
<1>4. Append(<<>>, a) = <<a>>
  OBVIOUS
<1>5. <<a>> # <<>>
  OBVIOUS
<1> QED BY <1>1, <1>2, <1>3, <1>4, <1>5

\* A client that writes burst headers when it should.
LEMMA BurstsSent ==
  ASSUME Agreed(cl), ~IsUDP, Good, IsBurst(cl)
  PROVE  Sends(cl) = "burst"
<1>1. cl.mAppRate \in Nat /\ (cl.mAppRate # 0 => Is(cl, "BWSet"))
      /\ (Is(cl, "BWSet") => ~Is(cl, "Isochronous"))
  BY DEF Agreed, IsUDP
<1> QED BY <1>1 DEF Good, RateBursts, IsBurst, Sends, WritesBursts

\* The client that sends bursts back writes a header before them.
LEMMA BurstsBack ==
  ASSUME Agreed(cl), Bursty, NEW r, Reversed("down", r)
  PROVE  FirstPayload(r) \o Traffic(r) = <<"hdr", "burst", "burst">>
<1>1. cl.mAppRate \in Nat /\ (cl.mAppRate # 0 => Is(cl, "BWSet"))
  BY DEF Agreed, IsUDP, Bursty
<1>2. /\ ~Is(cl, "Isochronous") /\ (Is(cl, "TripTime") \/ Is(cl, "PeriodicBurst"))
      /\ Is(cl, "TripTime") => clocks = "close"
      /\ Is(cl, "BWSet") => ~Is(cl, "PeriodicBurst")
  BY DEF Bursty, Good, IsochBack, RateBursts, TripIgnored, Bursts, Is
<1>3. /\ ~Is(r, "UDP") /\ r.mAppRate = cl.mAppRate
      /\ Is(cl, "TripTime") => Is(r, "TripTime")
      /\ Is(cl, "PeriodicBurst") => Is(r, "PeriodicBurst")
  BY <1>2 DEF Reversed, Bursty
<1>4. FirstPayload(r) = <<"hdr">>
  BY <1>2, <1>3 DEF FirstPayload
<1>5. Traffic(r) = <<"burst", "burst">>
  BY <1>1, <1>2, <1>3 DEF Traffic, WritesBursts, IsBurst
<1> QED BY <1>4, <1>5, ShortWrites

\* The reader of what comes back: it reads a header first when it expects bursts,
LEMMA BurstsReader ==
  ASSUME Agreed(cl), ~IsUDP, SameSocketBack(cl)
  PROVE  /\ IsBurst(ClientSideServer(cl)) <=> Bursts
         /\ ReadsFirst(ClientSideServer(cl)) <=> Bursts
<1> DEFINE s == ClientSideServer(cl)
<1>1. \A x \in {"TripTime", "PeriodicBurst", "Isochronous", "UDP"} : Is(s, x) <=> Is(cl, x)
  BY DEF ClientSideServer, Set, When, Is, Agreed, IsSettings, Fields
<1>2. Is(s, "Reverse")
  BY DEF ClientSideServer, Set, When, Is, Agreed, IsSettings, Fields
<1> HIDE DEF s
<1>3. IsBurst(s) <=> Bursts
  BY <1>1 DEF IsBurst, Bursts, IsUDP, Is
<1>4. ReadsFirst(s) <=> Bursts
  BY <1>1, <1>2 DEF ReadsFirst, Bursts, IsUDP, Is
<1> QED BY <1>3, <1>4 DEF s

\* and the reader of a -d or -r test does not.
LEMMA DualReader ==
  ASSUME Agreed(cl), Good, cl.mMode # "Normal"
  PROVE  ~IsBurst(BackServer(cl))
<1> DEFINE s == BackServer(cl)
<1>1. \A x \in {"TripTime", "PeriodicBurst", "Isochronous", "UDP"} : Is(s, x) <=> Is(cl, x)
  BY DEF BackServer, ListenerSettings, Is, Agreed, IsSettings, Fields
<1> HIDE DEF s
<1>2. ~IsBurst(s)
  BY <1>1 DEF IsBurst, Good, DualBursts, Dual, Bursts, Is
<1> QED BY <1>2 DEF s

\* The header that is accepted without a key has none after it, and an
\* acknowledgement of it is due when the client waits for one, and never before
\* traffic that comes back.
LEMMA HeaderKey ==
  ASSUME Agreed(cl), ~IsUDP, NEW h, h = GenerateClientHdr(cl)
  PROVE  /\ "KEYCHECK" \notin h.flags => h.key = 0
         /\ \A s : HasTestHdr(h, s)
         /\ ~Is(ls, "Compat") /\ Is(cl, "PeerVerDetect") => AckDue(h, ls)
         /\ SameSocketBack(cl) /\ AckDue(h, ls) => Is(cl, "PeerVerDetect")
<1>1. h = TcpHdr(cl)
  BY DEF GenerateClientHdr, IsUDP
<1>2. HeaderFlags(h, cl)
  BY TcpHeader DEF IsUDP
<1>3. "KEYCHECK" \notin h.flags => h.key = 0
  BY <1>1 DEF TcpHdr, When
<1> QED BY <1>2, <1>3 DEF HeaderFlags, HasTestHdr, AckDue

\* The pattern asks for none.
LEMMA PatternAck == ASSUME ~IsUDP PROVE ~AckDue(PatternHdr(cl), ls)
  BY DEF PatternHdr, AckDue, IsUDP

\* Nothing is written before the client connects.
LEMMA StreamsInit == ASSUME Init PROVE StreamsInv
<1>1. DOMAIN wrote = {} /\ DOMAIN readers = {}
  BY DEF Init
<1>2. ReadersRight
  BY <1>1 DEF Init, ReadersRight
<1>3. UpRight
  BY <1>1 DEF Init, UpRight
<1>4. AckRight
  BY <1>1 DEF Init, AckRight
<1>5. DownRight
  BY DEF Init, DownRight, Unwritten
<1> QED BY <1>2, <1>3, <1>4, <1>5 DEF Init, StreamsInv

\* The command line.
LEMMA OptionsStreams ==
  ASSUME SetupInv, GiveOption \/ EndOptions
  PROVE  StreamsInv'
<1>1. /\ lpc' = "off" /\ cpc' \in {"options", "exit", "connect"}
      /\ UNCHANGED <<streamVars, threadVars, misread>>
  BY DEF SetupInv, SettingsRight, GiveOption, EndOptions
<1>2. /\ DOMAIN wrote' = {} /\ DOMAIN readers' = {} /\ writers' = {} /\ firstRead' = {}
      /\ up' = <<>> /\ down' = <<>> /\ misread' = {}
  BY <1>1 DEF SetupInv, SettingsRight, GiveOption, EndOptions, streamVars, threadVars
<1>3. ReadersRight'
  BY <1>1, <1>2 DEF ReadersRight
<1>4. UpRight'
  BY <1>1, <1>2 DEF UpRight
<1>5. AckRight'
  BY <1>1, <1>2 DEF AckRight
<1>6. DownRight'
  BY <1>1, <1>2 DEF DownRight, Unwritten
<1> QED BY <1>2, <1>3, <1>4, <1>5, <1>6 DEF StreamsInv

\* The connection and the test header.
LEMMA ConnectStreams == ASSUME SetupInv, StreamsInv, Connect PROVE StreamsInv'
<1> DEFINE c == Constructed(cl)
           h == GenerateClientHdr(c)
           key == IF h.key # 0 THEN <<"key">> ELSE <<>>
<1>1. /\ cpc = "connect" /\ lpc = "off" /\ lpc' = "accept" /\ cl' = c
      /\ down' = <<>> /\ misread' = {} /\ wrote' = wrote /\ writers' = {} /\ firstRead' = {}
      /\ DOMAIN wrote = {} /\ DOMAIN readers = {} /\ up = <<>>
  BY DEF Connect, SetupInv, SettingsRight, threadVars
<1>2. DOMAIN readers' \subseteq {"back"}
  BY <1>1 DEF Connect, With, threadVars
<1>3. cpc' = IF Is(c, "ConnectOnly") THEN "ended"
             ELSE IF Is(c, "PeerVerDetect") THEN "ack" ELSE "run"
  BY DEF Connect
<1>4. up' = <<>> \/ up' = <<"hdr">> \o key
  BY <1>1 DEF Connect, threadVars
<1> HIDE DEF c
<1>5. ReadersRight'
  BY <1>1, <1>2, <1>3 DEF ReadersRight
<1>6. UpRight'
  <2>1. up' = <<>> \/ up' = <<"hdr">> \/ (up' = <<"hdr", "key">> /\ h.key # 0)
    <3>1. <<"hdr">> \o <<>> = <<"hdr">>
      OBVIOUS
    <3>2. <<"hdr">> \o <<"key">> = <<"hdr", "key">>
      <4> DEFINE q == <<"hdr">> \o <<"key">>
      <4>1. <<"hdr">> \in Seq(Pieces) /\ <<"key">> \in Seq(Pieces)
        BY DEF Pieces
      <4>2. q \in Seq(Pieces) /\ Len(q) = 2
        BY <4>1
      <4>3. q[1] = "hdr" /\ q[2] = "key"
        BY <4>1, <4>2
      <4> HIDE DEF q
      <4>4. q = <<q[1], q[2]>>
        BY <4>2
      <4> QED BY <4>3, <4>4 DEF q
    <3> QED BY <1>4, <3>1, <3>2
  <2>2. up' \in Seq(Pieces)
    <3>1. <<>> \in Seq(Pieces) /\ <<"hdr">> \in Seq(Pieces) /\ <<"hdr", "key">> \in Seq(Pieces)
      BY DEF Pieces
    <3> QED BY <2>1, <3>1
  <2> HIDE DEF h
  <2>3. \A k \in 1..Len(up') : \/ k = 1 /\ up'[k] = "hdr"
                               \/ k = 2 /\ up'[1] = "hdr" /\ up'[k] = "key" /\ h.key # 0
    <3>1. CASE up' = <<>>
      BY <3>1
    <3>2. CASE up' = <<"hdr">>
      BY <3>2
    <3>3. CASE up' = <<"hdr", "key">> /\ h.key # 0
      <4>1. Len(up') = 2 /\ up'[1] = "hdr" /\ up'[2] = "key"
        BY <3>3
      <4> QED BY <3>3, <4>1
    <3> QED BY <2>1, <3>1, <3>2, <3>3
  <2> USE DEF h
  <2> QED BY <1>1, <1>2, <2>2, <2>3 DEF UpRight
<1>7. AckRight'
  BY <1>1, <1>3 DEF AckRight
<1>8. DownRight'
  BY <1>1, <1>3 DEF DownRight, Unwritten, Bursty
<1> QED BY <1>1, <1>5, <1>6, <1>7, <1>8 DEF StreamsInv

\* The test does not change any more.
LEMMA SameTest ==
  ASSUME UNCHANGED <<cl, ls, clocks>>
  PROVE  /\ Good' <=> Good
         /\ Bursty' <=> Bursty
         /\ IsUDP' <=> IsUDP
<1>1. /\ Good' <=> Good
      /\ IsUDP' <=> IsUDP
  BY DEF Good, IsUDP, DualBursts, Dual, Bursts, TripIgnored, IsochBack, RateBursts
<1> QED BY <1>1 DEF Bursty, Bursts

\* The Listener reads the header.
LEMMA HeaderStreams == ASSUME SetupInv, StreamsInv, ReadHeader PROVE StreamsInv'
<1>1. /\ lpc = "accept" /\ lpc' \in {"start", "rejected", "key", "apply"}
      /\ UNCHANGED <<cl, ls, clocks, cpc, down, misread, writers, wrote, readers, firstRead>>
  BY DEF ReadHeader, threadVars
<1>2. Agreed(cl) /\ "up" \notin DOMAIN readers
  BY <1>1 DEF SetupInv, SettingsRight, StreamsInv, ReadersRight
<1>3. ReadersRight'
  BY <1>1, <1>2 DEF StreamsInv, ReadersRight
<1>4. UpRight'
  <2>1. up \in Seq(Pieces) /\ Sends(cl) # "key" /\ Sends(cl) # "hdr"
    BY DEF StreamsInv, UpRight, Sends
  <2>2. CASE Is(ls, "Compat") \/ lpc' = "rejected"
    <3>1. up' \in Seq(Pieces) /\ lpc' \in {"start", "rejected"}
      BY <2>1, <2>2, Unread DEF ReadHeader
    <3> QED BY <1>1, <1>2, <2>2, <3>1 DEF UpRight
  <2>3. CASE ~Is(ls, "Compat") /\ lpc' # "rejected" /\ IsUDP
    <3>1. up' = up /\ lpc' = "apply" /\ up # <<>>
      BY <2>3 DEF ReadHeader
    <3> QED BY <1>1, <1>2, <2>1, <2>3, <3>1, SameTest DEF UpRight
  <2>4. CASE ~Is(ls, "Compat") /\ lpc' # "rejected" /\ ~IsUDP /\ Head(up) = "hdr"
    <3> DEFINE h == GenerateClientHdr(cl)
    <3>1. up # <<>> /\ hdr' = h /\ up' = Tail(up)
      BY <2>4 DEF ReadHeader
    <3>2. lpc' = "key" \/ (lpc' = "apply" /\ h.key = 0)
      <4>1. /\ "KEYCHECK" \notin h.flags => h.key = 0
            /\ \A s : HasTestHdr(h, s)
        BY <1>2, <2>4, HeaderKey
      <4> QED BY <2>4, <4>1 DEF ReadHeader
    <3>3. /\ Len(up) \in Nat \ {0} /\ Tail(up) \in Seq(Pieces) /\ Len(Tail(up)) = Len(up) - 1
          /\ \A k \in 1..Len(Tail(up)) : Tail(up)[k] = up[k + 1]
      BY <2>1, <3>1, Unread
    <3>4. \A k \in 1..Len(up) : \/ up[k] = Sends(cl)
                                \/ k = 1 /\ up[k] = "hdr"
                                \/ k = 2 /\ up[k] = "key" /\ h.key # 0
      BY <1>1 DEF StreamsInv, UpRight
    <3>5. \A k \in 1..Len(Tail(up)) : \/ Tail(up)[k] = Sends(cl)
                                      \/ k = 1 /\ Tail(up)[k] = "key" /\ h.key # 0
      <4> SUFFICES ASSUME NEW k \in 1..Len(Tail(up))
                   PROVE  \/ Tail(up)[k] = Sends(cl)
                          \/ k = 1 /\ Tail(up)[k] = "key" /\ h.key # 0
        OBVIOUS
      <4>1. k + 1 \in 1..Len(up) /\ Tail(up)[k] = up[k + 1] /\ k + 1 # 1 /\ k \in Nat
        BY <3>3
      <4> QED BY <3>4, <4>1
    <3> HIDE DEF h
    <3>6. All(up', Sends(cl)) \/ lpc' = "key"
      BY <3>1, <3>2, <3>5 DEF All
    <3>7. \A k \in 1..Len(up') : up'[k] = "key" => k = 1
      BY <2>1, <3>1, <3>5
    <3> QED BY <1>1, <1>2, <3>1, <3>2, <3>3, <3>6, <3>7 DEF UpRight
  <2>5. CASE ~Is(ls, "Compat") /\ lpc' # "rejected" /\ ~IsUDP /\ Head(up) # "hdr"
    <3>1. up # <<>> /\ hdr' = PatternHdr(cl) /\ up' = up /\ lpc' \in {"key", "apply"}
      BY <2>5 DEF ReadHeader
    <3>2. up[1] # "hdr"
      BY <2>1, <2>5, <3>1, Unread
    <3>3. \A k \in 1..Len(up) : up[k] # "key"
      BY <1>1, <2>1, <3>2 DEF StreamsInv, UpRight
    <3> QED BY <1>1, <1>2, <2>1, <3>1, <3>3 DEF UpRight
  <2> QED BY <2>2, <2>3, <2>4, <2>5
<1>5. AckRight'
  <2>1. lpc' = "start" => Is(ls, "Compat")
    BY DEF ReadHeader
  <2> QED BY <1>1, <2>1 DEF StreamsInv, AckRight
<1>6. DownRight'
  BY <1>1, SameTest DEF StreamsInv, DownRight, Unwritten
<1> QED BY <1>1, <1>3, <1>4, <1>5, <1>6, SameTest DEF StreamsInv

\* The key is never found where it is looked for.
LEMMA KeyStreams == ASSUME SetupInv, StreamsInv, TestPermitKey PROVE StreamsInv'
<1>1. /\ lpc = "key" /\ lpc' \in {"rejected", "apply"}
      /\ UNCHANGED <<cl, ls, clocks, cpc, down, misread, writers, wrote, readers, firstRead>>
  BY DEF TestPermitKey, threadVars
<1>2. up \in Seq(Pieces) /\ "up" \notin DOMAIN readers
  BY <1>1 DEF StreamsInv, UpRight, ReadersRight
<1>3. lpc' = "rejected"
  <2>1. Len(up) > 1 => up[2] # "key"
    BY <1>1, <1>2 DEF StreamsInv, UpRight
  <2> QED BY <2>1 DEF TestPermitKey
<1>4. up' \in Seq(Pieces)
  <2>1. Len(up) > 1 => Tail(Tail(up)) \in Seq(Pieces)
    <3> SUFFICES ASSUME Len(up) > 1 PROVE Tail(Tail(up)) \in Seq(Pieces)
      OBVIOUS
    <3>1. up # <<>>
      OBVIOUS
    <3>2. Tail(up) \in Seq(Pieces) /\ Len(Tail(up)) = Len(up) - 1 /\ Len(up) \in Nat
      BY <1>2, <3>1, Unread
    <3> DEFINE q == Tail(up)
    <3>3. Len(q) # 0 /\ q \in Seq(Pieces)
      BY <3>2
    <3> HIDE DEF q
    <3>4. q # <<>>
      BY <3>3
    <3> QED BY <3>3, <3>4, Unread DEF q
  <2> QED BY <1>2, <2>1 DEF TestPermitKey
<1>5. ReadersRight'
  BY <1>1, <1>2 DEF StreamsInv, ReadersRight
<1>6. UpRight'
  BY <1>1, <1>2, <1>3, <1>4 DEF UpRight
<1>7. AckRight'
  BY <1>1, <1>3, SameTest DEF StreamsInv, AckRight
<1>8. DownRight'
  BY <1>1, SameTest DEF StreamsInv, DownRight, Unwritten
<1> QED BY <1>1, <1>5, <1>6, <1>7, <1>8, SameTest DEF StreamsInv

\* The acknowledgement.
LEMMA ApplyStreams == ASSUME SetupInv, StreamsInv, ApplyClientSettings PROVE StreamsInv'
<1>1. /\ lpc = "apply" /\ lpc' = "start"
      /\ UNCHANGED <<cl, ls, clocks, cpc, hdr, up, misread, writers, wrote, readers, firstRead>>
  BY DEF ApplyClientSettings, threadVars
<1>2. /\ Agreed(cl) /\ Listens(ls, IsUDP) /\ ~Is(ls, "Compat") /\ sv = ServerOf(ls)
      /\ hdr = GenerateClientHdr(cl) \/ hdr = PatternHdr(cl)
  BY <1>1 DEF SetupInv, SettingsRight, ServerRight, Heard
<1>3. down = <<>> /\ "down" \notin DOMAIN wrote /\ "up" \notin DOMAIN readers
  BY <1>1 DEF StreamsInv, ReadersRight, AckRight
<1>4. ASSUME ~IsUDP /\ AckDue(hdr, ls) PROVE AckRight' /\ DownRight'
  <2> DEFINE a == IF Is(sv', "TripTime") THEN "longack" ELSE "ack"
  <2>1. down' = <<a>> /\ a \in Pieces
    BY <1>3, <1>4, ShortWrites DEF ApplyClientSettings, Pieces
  <2>2. hdr = GenerateClientHdr(cl)
    BY <1>2, <1>4, PatternAck
  <2>3. ServerAsked(sv', ls, cl, clocks)
    <3>1. Listens(ls, FALSE) /\ sv' = Applied(ls, FALSE, hdr, clocks) /\ ~Is(cl, "UDP")
      BY <1>2, <1>4 DEF ApplyClientSettings, Applied, Listens, IsUDP
    <3> QED BY <1>2, <2>2, <3>1, TcpApplied
  <2>4. Good => a = AckOf(cl)
    BY <2>3 DEF ServerAsked, AckOf, Good, TripIgnored
  <2>5. SameSocketBack(cl) => Is(cl, "PeerVerDetect")
    BY <1>2, <1>4, <2>2, HeaderKey
  <2>6. Is(cl, "PeerVerDetect") /\ ~Is(cl, "ConnectOnly") => cpc = "ack"
    BY <1>1 DEF StreamsInv, AckRight
  <2>7. <<a>> \in Seq(Pieces) /\ <<a>> # <<>> /\ Head(<<a>>) = a
    BY <2>1
  <2> HIDE DEF a
  <2>8. AckRight'
    BY <1>1, <1>3, <2>1, <2>4, <2>7, SameTest DEF StreamsInv, AckRight
  <2>9. DownRight'
    <3>1. Bursty => cpc = "ack" /\ down' = <<AckOf(cl)>>
      BY <2>1, <2>4, <2>5, <2>6 DEF Bursty
    <3> QED BY <1>1, <1>3, <3>1, SameTest DEF DownRight, Unwritten
  <2> QED BY <2>8, <2>9
<1>5. ASSUME ~(~IsUDP /\ AckDue(hdr, ls)) PROVE AckRight' /\ DownRight'
  <2>1. down' = <<>>
    BY <1>3, <1>5 DEF ApplyClientSettings
  <2>2. cpc = "ack" => hdr = PatternHdr(cl)
    <3> SUFFICES ASSUME cpc = "ack" PROVE hdr = PatternHdr(cl)
      OBVIOUS
    <3>1. Is(cl, "PeerVerDetect") /\ ~IsUDP
      BY <1>2 DEF StreamsInv, AckRight, Agreed, IsUDP
    <3> QED BY <1>2, <1>5, <3>1, HeaderKey
  <2>3. AckRight'
    BY <1>1, <1>3, <2>1, <2>2 DEF StreamsInv, AckRight
  <2>4. DownRight'
    BY <1>1, <1>3, <2>1, SameTest DEF StreamsInv, DownRight, Unwritten
  <2> QED BY <2>3, <2>4
<1>6. ReadersRight'
  BY <1>1, <1>3 DEF StreamsInv, ReadersRight
<1>7. UpRight'
  BY <1>1, <1>3, SameTest DEF StreamsInv, UpRight
<1> QED BY <1>1, <1>4, <1>5, <1>6, <1>7, SameTest DEF StreamsInv

\* The threads of the server.
LEMMA StartThreadsStreams == ASSUME SetupInv, StreamsInv, StartThreads PROVE StreamsInv'
<1> DEFINE rc == ReversedClient(sv, hdr)
           d1 == IF rc.mMode # "Normal" THEN "back" ELSE "down"
           server == [sv EXCEPT !.mAmount = IF Back(sv) THEN ServerAmount(sv, hdr) ELSE @]
<1>1. /\ lpc = "start" /\ lpc' = "started"
      /\ UNCHANGED <<cl, ls, clocks, cpc, hdr, up, down, misread, firstRead>>
  BY DEF StartThreads, streamVars
<1>2. readers' = IF sv.mThreadMode = "Server" THEN With(readers, "up", server) ELSE readers
  BY DEF StartThreads, Back
<1>3. \/ wrote' = wrote /\ writers' = writers
      \/ Back(sv) /\ wrote' = With(wrote, d1, rc) /\ writers' = writers \cup {d1}
  BY DEF StartThreads, Back, Writer
<1>4. /\ Agreed(cl) /\ "up" \notin DOMAIN readers /\ "down" \notin DOMAIN wrote
      /\ writers \subseteq DOMAIN wrote
  BY <1>1 DEF SetupInv, SettingsRight, StreamsInv, ReadersRight, AckRight
<1>5. \/ ServerAlone(sv, ls, IsUDP)
      \/ /\ ~Is(ls, "Compat") /\ hdr # PatternHdr(cl) /\ ServerAsked(sv, ls, cl, clocks)
  <2>1. HeaderFlags(hdr, cl) => hdr # PatternHdr(cl)
    BY DEF HeaderFlags, PatternHdr
  <2> QED BY <1>1, <2>1, StartFacts
<1>6. Back(sv) => ~Is(ls, "Compat") /\ hdr # PatternHdr(cl)
  BY <1>5 DEF Back, ServerAlone, ClientFlags
<1>7. ~IsUDP /\ IsBurst(server) => IsBurst(cl) /\ All(up, Sends(cl))
  <2>1. IsSettings(sv)
    BY <1>5 DEF ServerAlone, ServerAsked
  <2>2. \A x : Is(server, x) <=> Is(sv, x)
    BY <2>1 DEF IsSettings, Fields, Is
  <2> HIDE DEF server
  <2>3. CASE ServerAlone(sv, ls, IsUDP)
    BY <2>2, <2>3 DEF ServerAlone, ClientFlags, IsBurst
  <2>4. CASE ~Is(ls, "Compat") /\ hdr # PatternHdr(cl) /\ ServerAsked(sv, ls, cl, clocks)
    <3>1. ~IsUDP => All(up, Sends(cl))
      BY <1>1, <2>4 DEF StreamsInv, UpRight
    <3>2. IsBurst(server) => IsBurst(cl)
      BY <2>2, <2>4 DEF IsBurst, ServerAsked
    <3> QED BY <3>1, <3>2
  <2> QED BY <1>5, <2>3, <2>4
<1> HIDE DEF rc, d1, server
<1>8. /\ DOMAIN readers \subseteq DOMAIN readers'
      /\ DOMAIN readers' \subseteq DOMAIN readers \cup {"up"}
      /\ "up" \in DOMAIN readers' => readers'["up"] = server
  BY <1>2, <1>4 DEF With
<1>9. /\ writers' \subseteq DOMAIN wrote'
      /\ "down" \in DOMAIN wrote' => "down" \in writers' /\ Back(sv)
  BY <1>3, <1>4 DEF With
<1>10. ReadersRight'
  BY <1>1, <1>8, <1>9 DEF StreamsInv, ReadersRight
<1>11. UpRight'
  BY <1>1, <1>7, <1>8, SameTest DEF StreamsInv, UpRight
<1>12. AckRight'
  BY <1>1, <1>6, <1>9, SameTest DEF StreamsInv, AckRight
<1>13. DownRight'
  BY <1>1, <1>4, <1>9, SameTest DEF StreamsInv, DownRight, Unwritten
<1> QED BY <1>1, <1>10, <1>11, <1>12, <1>13, SameTest DEF StreamsInv

\* The client reads the acknowledgement.
LEMMA PeerXchangeStreams == ASSUME SetupInv, StreamsInv, PeerXchange PROVE StreamsInv'
<1>1. /\ cpc = "ack" /\ cpc' = "run" /\ down # <<>>
      /\ UNCHANGED <<cl, ls, clocks, lpc, hdr, up, writers, wrote, readers, firstRead>>
  BY DEF PeerXchange, threadVars
<1>2. /\ down \in Seq(Pieces) /\ lpc \notin {"accept", "key", "apply"}
      /\ "down" \notin DOMAIN readers /\ "down" \notin firstRead /\ ~Is(cl, "ConnectOnly")
  BY <1>1 DEF StreamsInv, AckRight, ReadersRight
<1>3. Good => Head(down) = AckOf(cl) /\ down' = Tail(down) /\ misread' = misread
  <2>1. Good => Head(down) = AckOf(cl)
    BY <1>1 DEF StreamsInv, AckRight
  <2> QED BY <2>1 DEF PeerXchange, AckOf
<1>4. down' \in Seq(Pieces)
  <2> DEFINE q == Tail(down)
  <2>1. q \in Seq(Pieces) /\ Len(q) = Len(down) - 1 /\ Len(down) \in Nat
    BY <1>1, <1>2, Unread
  <2>2. down' = q \/ (down' = Tail(q) /\ Len(down) > 1)
    BY DEF PeerXchange
  <2> HIDE DEF q
  <2>3. Len(down) > 1 => q # <<>>
    BY <2>1
  <2> QED BY <2>1, <2>2, <2>3, Unread
<1>5. ReadersRight'
  BY <1>1, <1>2 DEF StreamsInv, ReadersRight
<1>6. UpRight'
  BY <1>1, SameTest DEF StreamsInv, UpRight
<1>7. AckRight'
  BY <1>1, <1>2, <1>4 DEF StreamsInv, AckRight
<1>8. DownRight'
  <2>1. Bursty => down' = Tail(down)
    BY <1>3 DEF Bursty
  <2>2. Bursty /\ Unwritten => down = <<AckOf(cl)>>
    BY <1>1 DEF StreamsInv, DownRight
  <2>3. Bursty /\ ~Unwritten => down = <<AckOf(cl), "hdr", "burst", "burst">>
    BY <1>1 DEF StreamsInv, DownRight
  <2>4. /\ Bursty /\ Unwritten => down' = <<>>
        /\ Bursty /\ ~Unwritten => down' = <<"hdr", "burst", "burst">>
    BY <2>1, <2>2, <2>3, ShortStreams
  <2>5. Unwritten' <=> Unwritten
    BY <1>1 DEF Unwritten
  <2> QED BY <1>1, <1>2, <2>4, <2>5, SameTest DEF DownRight
<1>9. (Good => misread = {})'
  BY <1>1, <1>3, SameTest DEF StreamsInv
<1> QED BY <1>5, <1>6, <1>7, <1>8, <1>9 DEF StreamsInv

\* The threads of the client.
LEMMA RunClientStreams == ASSUME SetupInv, StreamsInv, RunClient PROVE StreamsInv'
<1> DEFINE crev == ClientSideServer(cl)
           reads == Is(cl, "Reverse") \/ Is(cl, "FullDuplex")
<1>1. /\ cpc = "run" /\ cpc' = "ended"
      /\ UNCHANGED <<cl, ls, clocks, lpc, hdr, up, down, misread>>
  BY DEF RunClient, streamVars
<1>2. /\ Agreed(cl) /\ ~Is(cl, "ConnectOnly") /\ writers \subseteq DOMAIN wrote
      /\ "down" \notin DOMAIN readers /\ "down" \notin firstRead
  BY <1>1 DEF SetupInv, SettingsRight, StreamsInv, ReadersRight
<1>3. \/ wrote' = wrote /\ writers' = writers
      \/ wrote' = With(wrote, "up", cl) /\ writers' = writers \cup {"up"}
  BY DEF RunClient, Writer
<1>4. /\ readers' = IF reads THEN With(readers, "down", crev) ELSE readers
      /\ firstRead' = firstRead \cup When(reads /\ ReadsFirst(crev), {"down"})
  BY DEF RunClient
<1>5. reads <=> SameSocketBack(cl)
  BY DEF SameSocketBack
<1> HIDE DEF reads, crev
<1>6. /\ writers' \subseteq DOMAIN wrote'
      /\ "down" \in DOMAIN wrote' <=> "down" \in DOMAIN wrote
      /\ "down" \in writers' <=> "down" \in writers
  BY <1>2, <1>3 DEF With
<1>7. /\ "up" \in DOMAIN readers' => "up" \in DOMAIN readers /\ readers'["up"] = readers["up"]
      /\ "down" \in DOMAIN readers' <=> reads
      /\ "down" \in firstRead' <=> reads /\ ReadsFirst(crev)
      /\ firstRead' \subseteq firstRead \cup {"down"}
  BY <1>2, <1>4 DEF With, When
<1>8. ReadersRight'
  BY <1>1, <1>2, <1>5, <1>6, <1>7 DEF StreamsInv, ReadersRight, crev
<1>9. UpRight'
  BY <1>1, <1>7, SameTest DEF StreamsInv, UpRight
<1>10. AckRight'
  BY <1>1, <1>6 DEF StreamsInv, AckRight
<1>11. DownRight'
  <2>1. Bursty => "down" \in firstRead'
    BY <1>2, <1>5, <1>7, BurstsReader DEF Bursty, crev
  <2>2. Unwritten' <=> Unwritten
    BY <1>6 DEF Unwritten
  <2> QED BY <1>1, <2>1, <2>2, SameTest DEF StreamsInv, DownRight
<1> QED BY <1>1, <1>8, <1>9, <1>10, <1>11, SameTest DEF StreamsInv

\* A client writes.
LEMMA WriteStreams ==
  ASSUME SetupInv, StreamsInv, NEW d \in {"up", "down", "back"}, Write(d)
  PROVE  StreamsInv'
<1> DEFINE out == (IF d = "up" THEN <<>> ELSE FirstPayload(wrote[d])) \o Traffic(wrote[d])
<1>1. /\ UNCHANGED <<cl, ls, clocks, cpc, lpc, hdr, misread, wrote, readers, firstRead>>
      /\ d \in writers /\ writers' = writers \ {d}
      /\ up' = IF d = "up" THEN up \o out ELSE up
      /\ down' = IF d = "down" THEN down \o out ELSE down
  BY DEF Write
<1>2. /\ d \in DOMAIN wrote /\ lpc # "off" /\ Agreed(cl)
      /\ d = "up" => wrote[d] = cl
      /\ d = "down" => Reversed("down", wrote[d])
  BY <1>1 DEF SetupInv, SettingsRight, ThreadsRight, StreamsInv, ReadersRight
<1>3. \A s : Traffic(s) = <<Sends(s), Sends(s)>> /\ Sends(s) \in Pieces
  BY DEF Traffic, Sends, Pieces
<1>4. \A s : FirstPayload(s) \in Seq(Pieces) /\ Traffic(s) \in Seq(Pieces)
  <2>1. <<>> \in Seq(Pieces) /\ <<"hdr">> \in Seq(Pieces)
    BY DEF Pieces
  <2>2. \A x \in Pieces : <<x, x>> \in Seq(Pieces)
    OBVIOUS
  <2> QED BY <1>3, <2>1, <2>2 DEF FirstPayload
<1>5. up \in Seq(Pieces) /\ down \in Seq(Pieces)
  BY DEF StreamsInv, UpRight, AckRight
<1>6. ReadersRight'
  BY <1>1 DEF StreamsInv, ReadersRight
<1>7. UpRight'
  <2>1. CASE d # "up"
    BY <1>1, <2>1, SameTest DEF StreamsInv, UpRight
  <2>2. CASE d = "up"
    <3> DEFINE x == Sends(cl)
               q == up'
    <3>1. out = <<x, x>>
      BY <1>2, <1>3, <2>2
    <3>2. up' = up \o <<x, x>> /\ <<x, x>> \in Seq(Pieces)
      <4>1. <<x, x>> = Traffic(cl)
        BY <1>3
      <4>2. <<x, x>> \in Seq(Pieces)
        BY <1>4, <4>1
      <4> HIDE DEF out
      <4>3. up' = up \o <<x, x>>
        BY <1>1, <2>2, <3>1
      <4> QED BY <4>2, <4>3
    <3>3. /\ q \in Seq(Pieces) /\ Len(q) = Len(up) + 2 /\ Len(up) \in Nat
          /\ \A k \in 1..Len(q) : q[k] = IF k <= Len(up) THEN up[k] ELSE <<x, x>>[k - Len(up)]
      <4>1. Len(<<x, x>>) = 2
        OBVIOUS
      <4> QED BY <1>5, <3>2, <4>1, Written
    <3>4. \A k \in 1..Len(q) : (k \in 1..Len(up) /\ q[k] = up[k]) \/ (k > Len(up) /\ q[k] = x)
      <4> SUFFICES ASSUME NEW k \in 1..Len(q)
                   PROVE  (k \in 1..Len(up) /\ q[k] = up[k]) \/ (k > Len(up) /\ q[k] = x)
        OBVIOUS
      <4>1. CASE k <= Len(up)
        BY <3>3, <4>1
      <4>2. CASE ~(k <= Len(up))
        <5>1. k - Len(up) \in {1, 2} /\ k > Len(up)
          BY <3>3, <4>2
        <5>2. <<x, x>>[k - Len(up)] = x
          BY <5>1
        <5> QED BY <3>3, <4>2, <5>1, <5>2
      <4> QED BY <4>1, <4>2
    <3>5. x # "key" /\ x # "hdr"
      BY DEF Sends
    <3>6. lpc = "accept" =>
          \A k \in 1..Len(q) :
              \/ q[k] = x
              \/ k = 1 /\ q[k] = "hdr"
              \/ k = 2 /\ q[1] = "hdr" /\ q[k] = "key" /\ GenerateClientHdr(cl).key # 0
      <4> SUFFICES ASSUME lpc = "accept", NEW k \in 1..Len(q)
                   PROVE  \/ q[k] = x
                          \/ k = 1 /\ q[k] = "hdr"
                          \/ k = 2 /\ q[1] = "hdr" /\ q[k] = "key"
                             /\ GenerateClientHdr(cl).key # 0
        OBVIOUS
      <4>1. CASE k \in 1..Len(up) /\ q[k] = up[k]
        <5>1. \/ up[k] = x
              \/ k = 1 /\ up[k] = "hdr"
              \/ k = 2 /\ up[1] = "hdr" /\ up[k] = "key" /\ GenerateClientHdr(cl).key # 0
          BY <4>1 DEF StreamsInv, UpRight
        <5>2. k = 2 => q[1] = up[1]
          BY <3>3, <3>4, <4>1
        <5> QED BY <4>1, <5>1, <5>2
      <4> QED BY <3>4, <4>1
    <3>7. lpc = "key" => \A k \in 1..Len(q) : q[k] = "key" => k = 1
      BY <3>4, <3>5 DEF StreamsInv, UpRight
    <3>8. All(up, x) => All(q, x)
      BY <3>4 DEF All
    <3> HIDE DEF q, x
    <3> QED BY <1>1, <3>3, <3>6, <3>7, <3>8, SameTest DEF StreamsInv, UpRight, q, x
  <2> QED BY <2>1, <2>2
<1>8. CASE d # "down"
  <2>1. AckRight'
    BY <1>1, <1>8, SameTest DEF StreamsInv, AckRight
  <2>2. Unwritten' <=> Unwritten
    BY <1>1, <1>8 DEF Unwritten
  <2>3. DownRight'
    BY <1>1, <1>8, <2>2, SameTest DEF StreamsInv, DownRight
  <2> QED BY <1>1, <1>6, <1>7, <2>1, <2>3, SameTest DEF StreamsInv
<1>9. CASE d = "down"
  <2>1. out \in Seq(Pieces) /\ down' = down \o out
    BY <1>1, <1>4, <1>9, Written
  <2>2. lpc \notin {"accept", "key", "apply", "start"}
    BY <1>2, <1>9 DEF StreamsInv, AckRight
  <2>3. down' \in Seq(Pieces)
    BY <1>5, <2>1, Written
  <2>4. down # <<>> => down' # <<>> /\ Head(down') = Head(down)
    <3> HIDE DEF out
    <3> SUFFICES ASSUME down # <<>> PROVE down' # <<>> /\ Head(down') = Head(down)
      OBVIOUS
    <3>1. Len(down) \in Nat \ {0} /\ Head(down) = down[1]
      BY <1>5, Unread
    <3>2. /\ Len(down') = Len(down) + Len(out) /\ Len(out) \in Nat
          /\ \A k \in 1..Len(down') :
                down'[k] = IF k <= Len(down) THEN down[k] ELSE out[k - Len(down)]
      BY <1>5, <2>1, Written
    <3>3. 1 \in 1..Len(down') /\ down'[1] = down[1]
      BY <3>1, <3>2
    <3>4. down' # <<>>
      BY <2>3, <3>3
    <3> QED BY <2>3, <3>1, <3>3, <3>4, Unread
  <2>5. AckRight'
    <3>1. cpc = "ack" => down # <<>>
      BY <1>2, <1>9 DEF StreamsInv, AckRight
    <3> QED BY <1>1, <2>2, <2>3, <2>4, <3>1, SameTest DEF StreamsInv, AckRight
  <2>6. Unwritten /\ ~Unwritten'
    BY <1>1, <1>2, <1>9 DEF Unwritten
  <2>7. Bursty => out = <<"hdr", "burst", "burst">>
    BY <1>2, <1>9, BurstsBack
  <2> HIDE DEF out
  <2>8. Bursty =>
           /\ cpc = "ack" => down' = <<AckOf(cl), "hdr", "burst", "burst">>
           /\ cpc # "ack" => down' = <<"hdr", "burst", "burst">>
           /\ cpc = "ended" => "down" \in firstRead
    <3> SUFFICES ASSUME Bursty
                 PROVE  /\ cpc = "ack" => down' = <<AckOf(cl), "hdr", "burst", "burst">>
                        /\ cpc # "ack" => down' = <<"hdr", "burst", "burst">>
                        /\ cpc = "ended" => "down" \in firstRead
      OBVIOUS
    <3>1. cpc = "ack" => down = <<AckOf(cl)>>
      BY <1>2, <1>9, <2>6 DEF StreamsInv, AckRight, DownRight
    <3>2. cpc # "ack" => down = <<>>
      BY <2>6 DEF StreamsInv, DownRight
    <3>3. cpc = "ended" => "down" \in firstRead
      BY <2>6 DEF StreamsInv, DownRight
    <3> QED BY <2>1, <2>7, <3>1, <3>2, <3>3, ShortWrites
  <2>9. "down" \in firstRead => cpc = "ended"
    BY DEF StreamsInv, ReadersRight
  <2>10. DownRight'
    BY <1>1, <2>6, <2>8, <2>9, SameTest DEF DownRight
  <2> QED BY <1>1, <1>6, <1>7, <2>5, <2>10, SameTest DEF StreamsInv
<1> QED BY <1>8, <1>9

\* A server thread reads.
LEMMA ReadStreams ==
  ASSUME SetupInv, StreamsInv, NEW d \in {"up", "down", "back"}, Read(d)
  PROVE  StreamsInv'
<1> DEFINE want == IF d \in firstRead THEN {"hdr"}
                   ELSE IF IsBurst(readers[d]) /\ ~IsUDP THEN {"burst"} ELSE {}
<1>1. /\ UNCHANGED <<cl, ls, clocks, cpc, lpc, hdr, writers, wrote, readers>>
      /\ d \in DOMAIN readers /\ Stream[d] # <<>>
      /\ misread' = misread \cup When(want # {} /\ Head(Stream[d]) \notin want, want)
      /\ firstRead' = firstRead \ {d}
      /\ up' = IF d = "up" THEN Tail(up) ELSE up
      /\ down' = IF d = "down" THEN Tail(down) ELSE down
      /\ cpc # "ack" \/ d # "down"
  BY DEF Read
<1>2. /\ d = "up" => Stream[d] = up
      /\ d = "down" => Stream[d] = down
  BY DEF Stream
<1>3. lpc # "off" /\ Agreed(cl) /\ up \in Seq(Pieces) /\ down \in Seq(Pieces)
  BY <1>1 DEF SetupInv, SettingsRight, StreamsInv, UpRight, AckRight
<1>4. ReadersRight'
  BY <1>1 DEF StreamsInv, ReadersRight
<1>5. CASE d = "up"
  <2>1. up # <<>> /\ lpc = "started" /\ d \notin firstRead
    BY <1>1, <1>2, <1>5 DEF StreamsInv, ReadersRight
  <2>2. /\ Len(up) \in Nat \ {0} /\ Head(up) = up[1]
        /\ Tail(up) \in Seq(Pieces) /\ Len(Tail(up)) = Len(up) - 1
        /\ \A k \in 1..Len(Tail(up)) : Tail(up)[k] = up[k + 1]
    BY <1>3, <2>1, Unread
  <2>3. All(up, Sends(cl)) => All(Tail(up), Sends(cl)) /\ Head(up) = Sends(cl)
    BY <2>2 DEF All
  <2>4. UpRight'
    BY <1>1, <1>5, <2>1, <2>2, <2>3, SameTest DEF StreamsInv, UpRight
  <2>5. AckRight'
    BY <1>1, <1>5, SameTest DEF StreamsInv, AckRight
  <2>6. DownRight'
    <3>1. "down" \in firstRead' <=> "down" \in firstRead
      BY <1>1, <1>5
    <3> QED BY <1>1, <1>5, <3>1, SameTest DEF StreamsInv, DownRight, Unwritten
  <2>7. Good => misread' = misread
    <3> SUFFICES ASSUME Good, want # {}
                 PROVE  Head(up) \in want
      BY <1>1, <1>2, <1>5 DEF When
    <3>1. ~IsUDP /\ IsBurst(readers["up"]) /\ want = {"burst"}
      BY <1>5, <2>1
    <3>2. IsBurst(cl) /\ All(up, Sends(cl))
      BY <1>1, <1>5, <3>1 DEF StreamsInv, UpRight
    <3> QED BY <1>3, <2>3, <3>1, <3>2, BurstsSent
  <2> QED BY <1>1, <1>4, <2>4, <2>5, <2>6, <2>7, SameTest DEF StreamsInv
<1>6. CASE d = "back"
  <2>1. UpRight'
    BY <1>1, <1>6, SameTest DEF StreamsInv, UpRight
  <2>2. AckRight'
    BY <1>1, <1>6, SameTest DEF StreamsInv, AckRight
  <2>3. DownRight'
    <3>1. "down" \in firstRead' <=> "down" \in firstRead
      BY <1>1, <1>6
    <3> QED BY <1>1, <1>6, <3>1, SameTest DEF StreamsInv, DownRight, Unwritten
  <2>4. d \notin firstRead /\ readers[d] = BackServer(cl) /\ cl.mMode # "Normal"
    BY <1>1, <1>6 DEF StreamsInv, ReadersRight, SetupInv, ThreadsRight
  <2>5. Good => misread' = misread
    BY <1>1, <1>3, <2>4, DualReader DEF When
  <2> QED BY <1>1, <1>4, <2>1, <2>2, <2>3, <2>5, SameTest DEF StreamsInv
<1>7. CASE d = "down"
  <2>1. /\ down # <<>> /\ SameSocketBack(cl) /\ cpc = "ended" /\ ~Is(cl, "ConnectOnly")
        /\ readers[d] = ClientSideServer(cl)
    BY <1>1, <1>2, <1>7 DEF StreamsInv, ReadersRight, SetupInv, ThreadsRight
  <2>2. down' = Tail(down) /\ down' \in Seq(Pieces)
    BY <1>1, <1>3, <1>7, <2>1, Unread
  <2>3. UpRight'
    BY <1>1, <1>7, SameTest DEF StreamsInv, UpRight
  <2>4. AckRight'
    BY <1>1, <2>1, <2>2 DEF StreamsInv, AckRight
  <2>5. Bursty =>
           /\ ~Unwritten
           /\ d \in firstRead => Head(down) = "hdr" /\ down' = <<"burst", "burst">>
           /\ d \notin firstRead => Head(down) = "burst" /\ down' \in {<<>>, <<"burst">>}
    <3> SUFFICES ASSUME Bursty
                 PROVE  /\ ~Unwritten
                        /\ d \in firstRead => Head(down) = "hdr" /\ down' = <<"burst", "burst">>
                        /\ d \notin firstRead =>
                              Head(down) = "burst" /\ down' \in {<<>>, <<"burst">>}
      OBVIOUS
    <3>1. ~Unwritten
      BY <2>1 DEF StreamsInv, DownRight
    <3>2. d \in firstRead => down = <<"hdr", "burst", "burst">>
      BY <1>7, <3>1 DEF StreamsInv, DownRight
    <3>3. d \notin firstRead => down \in {<<"burst">>, <<"burst", "burst">>}
      BY <1>7, <2>1, <3>1 DEF StreamsInv, DownRight
    <3>4. Head(<<"burst">>) = "burst"
      OBVIOUS
    <3> QED BY <2>2, <3>1, <3>2, <3>3, <3>4, ShortStreams
  <2>6. DownRight'
    <3>1. Unwritten' <=> Unwritten
      BY <1>1 DEF Unwritten
    <3>2. "down" \notin firstRead'
      BY <1>1, <1>7
    <3> QED BY <1>1, <2>1, <2>5, <3>1, <3>2, SameTest DEF DownRight
  <2>7. Good => misread' = misread
    <3> SUFFICES ASSUME Good, want # {}
                 PROVE  Head(down) \in want
      BY <1>1, <1>2, <1>7 DEF When
    <3>1. Bursty
      <4>1. d \in firstRead => ReadsFirst(ClientSideServer(cl))
        BY <1>7 DEF StreamsInv, ReadersRight
      <4>2. ReadsFirst(ClientSideServer(cl)) => ~IsUDP
        BY <1>3 DEF ReadsFirst, ClientSideServer, Set, When, Is, Agreed, IsSettings, Fields, IsUDP
      <4> QED BY <1>3, <2>1, <4>1, <4>2, BurstsReader DEF Bursty
    <3> QED BY <2>5, <3>1
  <2> QED BY <1>1, <1>4, <2>3, <2>4, <2>6, <2>7, SameTest DEF StreamsInv
<1> QED BY <1>5, <1>6, <1>7

\* Every step keeps the invariant.
LEMMA StreamsStep == ASSUME SetupInv, StreamsInv, [Next]_vars PROVE StreamsInv'
<1>1. CASE UNCHANGED vars
  <2>1. UNCHANGED <<cl, ls, clocks, cpc, lpc, hdr, up, down, writers, readers, firstRead, wrote,
                    misread>>
    BY <1>1 DEF vars
  <2>2. ReadersRight' /\ AckRight' /\ UpRight'
    BY <2>1, SameTest DEF StreamsInv, ReadersRight, AckRight, UpRight
  <2>3. DownRight'
    BY <2>1, SameTest DEF StreamsInv, DownRight, Unwritten
  <2> QED BY <2>1, <2>2, <2>3, SameTest DEF StreamsInv
<1> QED BY <1>1, OptionsStreams, ConnectStreams, HeaderStreams, KeyStreams, ApplyStreams,
          StartThreadsStreams, PeerXchangeStreams, RunClientStreams, WriteStreams, ReadStreams
       DEF Next

\* StreamsInvariant: what is written and not yet read on the client's connection
\* is what its reader expects next.
THEOREM StreamsInvariant == Spec => []StreamsInv
<1>1. Init => StreamsInv
  BY StreamsInit
<1>2. SetupInv /\ StreamsInv /\ [Next]_vars => StreamsInv'
  BY StreamsStep
<1> QED BY <1>1, <1>2, SetupInvariant, PTL DEF Spec

\* HeadersMeetAlways: what a thread reads as a test header, an acknowledgement or
\* a burst header was written as one, for every command line but those whose test
\* is named (Client::PeerXchange, Server::ClientReverseFirstRead, Server::RunTCP).
THEOREM HeadersMeetAlways == Spec => []HeadersMeet
<1>1. StreamsInv => HeadersMeet
  BY DEF StreamsInv, Good, HeadersMeet
<1> QED BY <1>1, StreamsInvariant, PTL
=============================================================================
