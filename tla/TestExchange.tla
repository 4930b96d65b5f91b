---------------------------- MODULE TestExchange ----------------------------
(***************************************************************************)
(* One test of a client and a server: the options of the client's command  *)
(* line one after the other, the connection, the test header with its key  *)
(* and its acknowledgement, the threads the Listener and the client start  *)
(* for it, and the first traffic of each (src/Client.cpp, src/Listener.cpp,*)
(* src/Server.cpp, src/Launch.cpp).  A stream holds what was written and   *)
(* not yet read: the test header, the key after it, an acknowledgement,    *)
(* and two pieces of traffic of every writer, which begin with a burst     *)
(* header or do not.  `up' and `down' are the two directions of the        *)
(* client's connection, `back' is the connection the server's client of a  *)
(* -d or -r test makes to the listener the client started.                 *)
(***************************************************************************)
EXTENDS Settings, Sequences, FiniteSets, SequencesExt

CONSTANTS
    Options,       \* the options the client's command line is made of
    MaxOptions,    \* bound: the length of the command line
    ListenerCmds   \* command lines of the server

\* The settings a command line makes.
CommandLine(cmd) == FoldLeft(LAMBDA s, o : Interpret(o, s), Initialize, cmd)

\* What is the client's to ask for, and what the server takes from the client.
ClientFlags ==
    {"FullDuplex", "Reverse", "ServerReverse", "Isochronous", "PeriodicBurst", "TripTime",
     "NoUDPfin", "Multicast"}

\* A server that asks for none of it.
Plain(s) ==
    /\ s.mThreadMode # "Client" /\ s.mMode = "Normal"
    /\ s.flags \cap (ClientFlags \cup {"UDP"}) = {}

ASSUME ExchangeAssumption ==
    /\ MaxOptions \in Nat
    /\ \A o \in Options :
          o.name \in OptionNames /\ o.arg \in (IF o.name = "txstart_time" THEN Int ELSE Nat)
    /\ \A cmd \in ListenerCmds : CommandLine(cmd) \in ThreadSettings /\ Plain(CommandLine(cmd))

VARIABLES
    given,     \* options read from the command line
    cl,        \* settings of the client
    ls,        \* settings of the Listener
    clocks,    \* how the two clocks differ, if a time is sent: "close", "apart", "far"
    cpc,       \* the client: "options", "exit", "connect", "ack", "run", "ended"
    lpc,       \* the Listener: "off", "accept", "key", "apply", "start",
               \* "started", "rejected"
    hdr,       \* the header the Listener read
    sv,        \* settings of the server thread
    up, down, back,
    writers,   \* streams with a thread that is still to write into them
    readers,   \* settings of the reader of each stream that has one
    firstRead, \* readers that still have to read a test header of their own
    wrote,     \* settings of the writer of each stream that had one
    misread    \* history: what was read as a header and was none

vars == <<given, cl, ls, clocks, cpc, lpc, hdr, sv, up, down, back, writers,
          readers, firstRead, wrote, misread>>
streamVars == <<up, down, back>>
threadVars == <<writers, readers, firstRead, wrote>>

NoHdr == [flags |-> {}]

Init ==
    /\ given = {} /\ cl = Initialize
    /\ \E cmd \in ListenerCmds : ls = CommandLine(cmd)
    /\ clocks = "close"
    /\ cpc = "options" /\ lpc = "off"
    /\ hdr = NoHdr /\ sv = Initialize
    /\ up = <<>> /\ down = <<>> /\ back = <<>>
    /\ writers = {} /\ readers = <<>> /\ firstRead = {} /\ wrote = <<>>
    /\ misread = {}

-----------------------------------------------------------------------------
\* What the threads do on a stream.

IsUDP == Is(cl, "UDP")

\* isburst of Client::Client and Server::Server
IsBurst(s) ==
    Is(s, "Isochronous") \/ Is(s, "PeriodicBurst") \/ (Is(s, "TripTime") /\ ~Is(s, "UDP"))

\* The traffic begins with a burst header, by the loop Client::Run chooses:
\* RunRateLimitedTCP, RunNearCongestionTCP or RunTCP.
WritesBursts(s) ==
    IF s.mAppRate > 0 THEN Is(s, "TripTime") ELSE Is(s, "NearCongest") \/ IsBurst(s)

\* Two pieces of traffic.  A burst has at least its header, also when mBurstSize
\* is 0, as that of a server's client mostly is.
Traffic(s) == IF WritesBursts(s) THEN <<"burst", "burst">> ELSE <<"data", "data">>

\* Server::ClientReverseFirstRead
ReadsFirst(s) ==
    ~Is(s, "UDP") /\ Is(s, "Reverse")
    /\ (Is(s, "TripTime") \/ Is(s, "PeriodicBurst") \/ Is(s, "Isochronous"))

\* Fault: a first payload for trip times only.
FirstPayloadTrip(s) == IF ~Is(s, "UDP") /\ Is(s, "TripTime") THEN <<"hdr">> ELSE <<>>

\* The server's client writes a first payload, Client::StartSynch.
FirstPayload(s) ==
    IF ~Is(s, "UDP") /\ (Is(s, "TripTime") \/ Is(s, "PeriodicBurst")) THEN <<"hdr">> ELSE <<>>

Stream == [up |-> up, down |-> down, back |-> back]

\* A thread with settings s has come to stream d.
With(threads, d, s) ==
    [x \in DOMAIN threads \cup {d} |-> IF x \in DOMAIN threads THEN threads[x] ELSE s]

\* The streams are written by a client thread with settings s that is to come.
Writer(d, s) == writers' = writers \cup {d} /\ wrote' = With(wrote, d, s)

-----------------------------------------------------------------------------
\* The command line.

GiveOption ==
    /\ cpc = "options"
    /\ Cardinality(given) < MaxOptions
    /\ ~cl.bail
    /\ \E o \in Options \ given : given' = given \cup {o} /\ cl' = Interpret(o, cl)
    /\ UNCHANGED <<ls, clocks, cpc, lpc, hdr, sv, streamVars, threadVars, misread>>

\* Settings_ModalOptions of both programs; the server uses the client's
\* protocol.  A command line that is refused, or is no client's, ends here, and
\* so does a client that is to be a daemon.
EndOptions ==
    /\ cpc = "options"
    /\ LET c == ModalOptions(cl)
           l == ModalOptions(Set(ls, When(IsUDP, {"UDP"})))
           runs == IsClient(c) /\ ~Is(c, "Daemon") /\ ~c.bail /\ ~l.bail
       IN  /\ cl' = c /\ ls' = l
           /\ cpc' = IF runs THEN "connect" ELSE "exit"
           /\ clocks' \in {"close"} \cup When(runs /\ c.flags \cap {"TripTime", "TxStartTime"} # {},
                                           {"apart", "far"})
    /\ UNCHANGED <<given, lpc, hdr, sv, streamVars, threadVars, misread>>

-----------------------------------------------------------------------------
\* The client: client_spawn, and the listener client_init starts for -d and -r.

\* Client::Client drops -X in compatibility mode.
Constructed(s) == Unset(s, When(Is(s, "Compat"), {"PeerVerDetect"}))

\* The server thread a client starts to read what comes back on its socket:
\* clientside_client_reverse and clientside_client_fullduplex.
ClientSideServer(s) ==
    [Set(s, {"Reverse"} \cup When(~Is(s, "FullDuplex"), {"NoUDPfin"})) EXCEPT
        !.mThreadMode = "Server",
        !.mAmount = IF Is(s, "FullDuplex") /\ Is(s, "ModeTime") THEN @ + Slop ELSE @]

\* The server thread of the listener that waits for the connection of -d and -r.
BackServer(s) == [ListenerSettings(s) EXCEPT !.mThreadMode = "Server"]

\* my_connect and the part of StartSynch that writes the test header, with the
\* key behind it.  A test that only connects writes nothing and closes.
Connect ==
    /\ cpc = "connect"
    /\ LET c == Constructed(cl)
           h == GenerateClientHdr(c)
           dual == c.mMode # "Normal"
       IN  IF Is(c, "ConnectOnly")
           THEN /\ cl' = c /\ cpc' = "ended"
                /\ UNCHANGED <<up, threadVars>>
           ELSE /\ cl' = c
                /\ up' = IF Is(c, "Compat") THEN <<>>
                         ELSE <<"hdr">> \o (IF h.key # 0 THEN <<"key">> ELSE <<>>)
                /\ cpc' = IF Is(c, "PeerVerDetect") THEN "ack" ELSE "run"
                /\ readers' = IF dual THEN With(readers, "back", BackServer(c)) ELSE readers
                /\ UNCHANGED <<writers, wrote, firstRead>>
    /\ lpc' = "accept"
    /\ UNCHANGED <<given, ls, clocks, hdr, sv, down, back, misread>>

\* Client::PeerXchange: the client reads as much as it expects; when less was
\* sent, it goes on into what follows.
PeerXchange ==
    /\ cpc = "ack"
    /\ down # <<>>
    /\ LET long == Is(cl, "TripTime")
           whole == Head(down) = (IF long THEN "longack" ELSE "ack")
       IN  /\ whole \/ Len(down) > 1
           /\ down' = IF whole THEN Tail(down) ELSE Tail(Tail(down))
           /\ misread' = IF whole THEN misread ELSE misread \cup {"ack"}
    /\ cpc' = "run"
    /\ UNCHANGED <<given, cl, ls, clocks, lpc, hdr, sv, up, back, threadVars>>

\* The client goes on to its traffic and starts the thread that reads.
RunClient ==
    /\ cpc = "run"
    /\ LET crev == ClientSideServer(cl)
           only == Is(cl, "Reverse") /\ ~Is(cl, "FullDuplex")
           reads == Is(cl, "Reverse") \/ Is(cl, "FullDuplex")
       IN  /\ IF only THEN UNCHANGED <<writers, wrote>> ELSE Writer("up", cl)
           /\ readers' = IF reads THEN With(readers, "down", crev) ELSE readers
           /\ firstRead' = firstRead \cup When(reads /\ ReadsFirst(crev), {"down"})
    /\ cpc' = "ended"
    /\ UNCHANGED <<given, cl, ls, clocks, lpc, hdr, sv, streamVars, misread>>

-----------------------------------------------------------------------------
\* The Listener.

\* A compatible listener reads nothing; the others read the test header, which
\* a client in compatibility mode does not send.  Nothing to read: the client
\* only connected.
ReadHeader ==
    /\ lpc = "accept"
    /\ LET s == [ls EXCEPT !.mThreadMode = "Server"]
           h == IF Head(up) = "hdr" THEN GenerateClientHdr(cl) ELSE PatternHdr(cl)
           nothing == Is(cl, "ConnectOnly") /\ cpc = "ended"
       IN  /\ sv' = s
           /\ IF Is(ls, "Compat")
              THEN lpc' = "start" /\ UNCHANGED <<up, hdr>>
              ELSE IF nothing
              THEN lpc' = "rejected" /\ UNCHANGED <<up, hdr>>
              ELSE /\ up # <<>>
                   /\ hdr' = h
                   /\ up' = IF Head(up) = "hdr" /\ ~IsUDP THEN Tail(up) ELSE up
                   /\ lpc' = IF IsUDP \/ ~HasTestHdr(h, s) THEN "apply"
                             ELSE IF Is(ls, "PermitKey") /\ "KEYCHECK" \in h.flags THEN "key"
                             ELSE IF Is(ls, "PermitKey") \/ "KEYCHECK" \in h.flags THEN "rejected"
                             ELSE "apply"
    /\ UNCHANGED <<given, cl, ls, clocks, cpc, down, back, threadVars, misread>>

\* Listener::test_permit_key, of a header without a key or with one.  The
\* header has been read; the header and the key are read again, so the key is
\* looked for behind as many bytes as the header has, in the traffic.
TestPermitKey ==
    /\ lpc = "key"
    /\ IF KeyLength(hdr.key) # KeyLength(ls.mPermitKey)
       THEN lpc' = "rejected" /\ UNCHANGED up
       ELSE /\ Len(up) > 1
            /\ up' = Tail(Tail(up))
            /\ lpc' = IF up[2] = "key" /\ hdr.key = ls.mPermitKey THEN "apply" ELSE "rejected"
    /\ UNCHANGED <<given, cl, ls, clocks, cpc, hdr, sv, down, back, threadVars, misread>>

\* apply_client_settings and client_test_ack
ApplyClientSettings ==
    /\ lpc = "apply"
    /\ sv' = IF IsUDP THEN ApplyUdp(sv, hdr, clocks)
             ELSE IF HasTestHdr(hdr, sv) THEN ApplyTcp(sv, hdr, clocks) ELSE sv
    /\ down' = IF ~IsUDP /\ AckDue(hdr, ls)
               THEN Append(down, IF Is(sv', "TripTime") THEN "longack" ELSE "ack") ELSE down
    /\ lpc' = "start"
    /\ UNCHANGED <<given, cl, ls, clocks, cpc, hdr, up, back, threadVars, misread>>

\* Settings_GenerateClientSettings and thread_start_all: the server thread, and
\* the client that sends traffic back, which is the server's thread itself with
\* --reverse.  Its constructor refuses a frame rate of zero.
StartThreads ==
    /\ lpc = "start"
    /\ LET both == ~Is(sv, "Compat")
                   /\ (Is(sv, "FullDuplex") \/ Is(sv, "ServerReverse") \/ sv.mMode # "Normal")
           rc == ReversedClient(sv, hdr)
           alive == ~(Is(rc, "Isochronous") /\ rc.mFPS = 0)
           back1 == IF rc.mMode # "Normal" THEN "back" ELSE "down"
           server == [sv EXCEPT !.mAmount = IF both THEN ServerAmount(sv, hdr) ELSE @]
       IN  /\ sv' = server
           /\ readers' = IF sv.mThreadMode = "Server" THEN With(readers, "up", server) ELSE readers
           /\ IF both /\ alive THEN Writer(back1, rc) ELSE UNCHANGED <<writers, wrote>>
    /\ lpc' = "started"
    /\ UNCHANGED <<given, cl, ls, clocks, cpc, hdr, streamVars, firstRead, misread>>

-----------------------------------------------------------------------------
\* The traffic.

\* A client thread writes; the server's client may write a test header first,
\* and waits for the end of the server's traffic in a -r test.
Write(d) ==
    /\ d \in writers
    /\ writers' = writers \ {d}
    /\ ~(d = "back" /\ wrote[d].mMode = "TradeOff" /\ ("up" \in writers \/ up # <<>>))
    /\ LET s == wrote[d]
           out == (IF d = "up" THEN <<>> ELSE FirstPayload(s)) \o Traffic(s)
       IN  /\ up' = IF d = "up" THEN up \o out ELSE up
           /\ down' = IF d = "down" THEN down \o out ELSE down
           /\ back' = IF d = "back" THEN back \o out ELSE back
    /\ UNCHANGED <<given, cl, ls, clocks, cpc, lpc, hdr, sv, readers, firstRead, wrote, misread>>

\* A server thread reads: a test header if it has to read one itself, burst
\* headers if there should be any, and otherwise whatever comes.  An
\* acknowledgement the client did not wait for is read, and thrown away, when
\* the client closes.
Read(d) ==
    /\ d \in DOMAIN readers
    /\ Stream[d] # <<>>
    /\ cpc # "ack" \/ d # "down"
    /\ LET want == IF d \in firstRead THEN {"hdr"}
                   ELSE IF IsBurst(readers[d]) /\ ~IsUDP THEN {"burst"} ELSE {}
           found == Head(Stream[d])
       IN  misread' = misread \cup When(want # {} /\ found \notin want, want)
    /\ firstRead' = firstRead \ {d}
    /\ up' = IF d = "up" THEN Tail(up) ELSE up
    /\ down' = IF d = "down" THEN Tail(down) ELSE down
    /\ back' = IF d = "back" THEN Tail(back) ELSE back
    /\ UNCHANGED <<given, cl, ls, clocks, cpc, lpc, hdr, sv, writers, readers, wrote>>

Next ==
    \/ GiveOption \/ EndOptions
    \/ Connect \/ PeerXchange \/ RunClient
    \/ ReadHeader \/ TestPermitKey \/ ApplyClientSettings \/ StartThreads
    \/ \E d \in {"up", "down", "back"} : Write(d) \/ Read(d)

\* Every thread runs on, and what was written arrives.
Spec == Init /\ [][Next]_vars /\ WF_vars(Next)
-----------------------------------------------------------------------------
\* Properties.  What a test asks for and this version does not do is named
\* first; each is a limit of the code, told in the README.

Dual == cl.mMode # "Normal"
Bursts == cl.flags \cap {"TripTime", "PeriodicBurst", "Isochronous"} # {}

\* A server in compatibility mode reads no test header.
OldServer == Is(ls, "Compat") /\ (BothWays(cl) \/ Bursts \/ Is(cl, "PeerVerDetect"))

\* With -X the header of a -d or -r test has both version flags, and the server
\* starts no client.
DetectDual == Dual /\ Is(cl, "PeerVerDetect")

\* The server's client of a -d or -r test gets no frame rate, or sends a test
\* header to a reader that expects none.
DualBursts == Dual /\ Bursts

\* The server ignores trip times when the clocks differ, and the client does
\* not learn of it.
TripIgnored == Is(cl, "TripTime") /\ clocks # "close"

\* The reader of isochronous traffic waits for a test header that is sent with
\* trip times and periodic bursts only.
IsochBack == SameSocketBack(cl) /\ Is(cl, "Isochronous")

\* A TCP client with -b writes burst headers with trip times only.
RateBursts == Is(cl, "BWSet") /\ Is(cl, "PeriodicBurst")

\* A TCP client with --isochronous and --burst-size asks for periodic bursts: the
\* check of the two looks at --burst-period, which --burst-size sets after it.
SizedIsoch == Is(cl, "Isochronous") /\ Is(cl, "PeriodicBurst") /\ ~IsUDP

Keys == Is(cl, "PermitKey") \/ Is(ls, "PermitKey")

\* HeadersMeet: what a thread reads as a test header, an acknowledgement or a
\* burst header was written as one.
HeadersMeet ==
    misread # {} => DualBursts \/ TripIgnored \/ IsochBack \/ RateBursts

\* ReversedAsAsked: the client that sends traffic back has the client's amount
\* or time, its rate in bits per second, its length of a write, its frame rate,
\* and it writes periodic bursts if the client would.  An amount that is too large
\* for the header, and -l 0, which it cannot tell from no -l, are left out, and so
\* are the periodic bursts of UDP, which the header does not ask for, and of
\* SizedIsoch, where periodic bursts are asked for instead of isochronous ones.
\* The size of the bursts is not the client's: the header has it, in the place of
\* the isochronous mean, and Settings_ReadClientSettingsBurst does not read it, so
\* it is the Listener's own, 0 unless that was given one (BurstSizeSet).
ReversedAsAsked ==
    \A d \in DOMAIN wrote \ {"up"} :
        LET rc == wrote[d]
        IN  /\ cl.mAmount <= HalfWord - 1 /\ ~Is(cl, "ModeInfinite")
                => rc.mAmount = cl.mAmount /\ (Is(rc, "ModeTime") <=> Is(cl, "ModeTime"))
            /\ ~Is(cl, "IPG") /\ cl.mBufLen > 0
                => rc.mAppRate = IF cl.pps THEN cl.mAppRate * 8 * cl.mBufLen ELSE cl.mAppRate
            /\ Is(cl, "BuflenSet") /\ cl.mBufLen > 0 => rc.mBufLen = cl.mBufLen
            /\ \A f \in {"Isochronous", "PeriodicBurst"} :
                  Is(cl, f) /\ (f = "Isochronous" \/ ~IsUDP) /\ ~SizedIsoch
                    => Is(rc, f) /\ rc.mFPS = cl.mFPS
            /\ rc.mBurstSize = ls.mBurstSize

\* BurstSizeSet: assert(mSettings->mBurstSize) in Client::RunTCP, of every client
\* that is to write periodic bursts.  It does not hold (config.h has NDEBUG, and
\* the bursts are then bare headers).
BurstSizeSet ==
    \A d \in DOMAIN wrote :
        LET s == wrote[d]
        IN  Is(s, "PeriodicBurst") /\ ~Is(s, "Isochronous") /\ ~Is(s, "UDP") /\ s.mAppRate = 0
                => s.mBurstSize > 0

\* The time after which a server thread ends, 0 for none: Server::InitTrafficLoop.
TimeLimit(s) ==
    LET both == Is(s, "ServerReverse") \/ Is(s, "FullDuplex") \/ Is(s, "Reverse")
    IN  IF Is(s, "ServerModeTime") \/ (Is(s, "ModeTime") /\ both)
        THEN s.mAmount + (IF both THEN Slop ELSE 0) ELSE 0

AwaitsFin(s) == Is(s, "UDP") /\ ~Is(s, "Multicast") /\ ~Is(s, "NoUDPfin")

\* ReaderOutlasts: the reader of a test with a time the header can hold ends
\* after its writer, and a writer that waits for the final report of a UDP test
\* has a reader that sends it.
ReaderOutlasts ==
    \A d \in DOMAIN wrote \cap DOMAIN readers :
        /\ Is(wrote[d], "ModeTime") /\ ~Is(ls, "ServerModeTime")
           /\ Is(cl, "ModeTime") /\ cl.mAmount < HalfWord
            => TimeLimit(readers[d]) = 0 \/ TimeLimit(readers[d]) > wrote[d].mAmount
        /\ AwaitsFin(wrote[d]) => AwaitsFin(readers[d])

\* Every stream has a writer and a reader, who is through with it.
Ended ==
    \/ cpc = "exit"
    \/ lpc \in {"rejected", "started"} /\ Is(cl, "ConnectOnly")
    \/ /\ cpc = "ended" /\ lpc = "started" /\ writers = {}
       /\ DOMAIN wrote = DOMAIN readers
       /\ \A d \in DOMAIN readers : Stream[d] = <<>>

\* ExchangeEnds: the client and the server start the two ends of every stream,
\* and nobody waits for a message that is not sent.
ExchangeEnds == <>(Ended \/ OldServer \/ DetectDual \/ DualBursts \/ TripIgnored \/ Keys)

\* PermitKeyAccepted: a client is rejected for its key only if the key is not
\* the server's.
PermitKeyAccepted ==
    lpc = "rejected" /\ Is(ls, "PermitKey") /\ ~Is(cl, "ConnectOnly") /\ ~Is(cl, "Compat")
        => cl.mPermitKey # ls.mPermitKey
=============================================================================
