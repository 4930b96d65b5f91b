--------------------------- MODULE ThreadControl ----------------------------
(***************************************************************************)
(* The threads of an iperf process from main to its end: starting and      *)
(* counting them (compat/Thread.c), the Listener and its exit conditions   *)
(* (Listener::Run), the roles a client thread takes (src/Launch.cpp), the  *)
(* barrier of parallel clients (Client::BarrierClient) and the signal      *)
(* handler that stops waiting for the Listeners (src/main.cpp).            *)
(*                                                                         *)
(* main waits for thread_sNum to become zero, so everything rests on that  *)
(* count.  A Listener is counted twice, in thread_sNum and in              *)
(* nonterminating_num; an interrupt takes the second count off the first.  *)
(*                                                                         *)
(* What a traffic thread does between its start and its end is one state   *)
(* here, "traffic"; that it ends there only when the reporter has its      *)
(* final packet is in ReporterJobq.                                        *)
(***************************************************************************)
EXTENDS Integers, Sequences, FiniteSets, Functions

CONSTANTS
    Listeners,    \* numbers of the Listener threads (a range of ports)
    Tests,        \* numbers of the tests: a client and a server thread each
    Setups        \* the command lines, records of type Setup

Reporter == <<"reporter", 0>>
ListenerOf(l) == <<"listener", l>>
ClientOf(i) == <<"client", i>>
ServerOf(i) == <<"server", i>>
ListenerThread == {ListenerOf(l) : l \in Listeners}
Traffic == {ClientOf(i) : i \in Tests} \cup {ServerOf(i) : i \in Tests}
Thread == {Reporter} \cup ListenerThread \cup Traffic
MainThread == <<"main", 0>>
Starter == Thread \cup {MainThread}

\* The settings main starts from: -c or -s; the Listeners (on a client one
\* for -d and -r); the client threads (mThreads on each port); the tests that
\* peers may ask for; mThreads; whether the connect barrier is used (-P and
\* neither --no-connect-sync nor -C); the direction of a client; -1; whether
\* the Listener has an end time (-s with -t).
\* maxEvents bounds the failing pthread_create, FAIL, spurious wake-ups and
\* signals together.
Setup == [role : {"client", "server"}, listeners : SUBSET Listeners,
          clients : SUBSET Tests, tests : SUBSET Tests, mThreads : Nat,
          sync : BOOLEAN, dir : {"basic", "reverse", "fullduplex"},
          single : BOOLEAN, timer : BOOLEAN, maxEvents : Nat]

ASSUME ThreadAssumption ==
    /\ IsFiniteSet(Listeners) /\ IsFiniteSet(Tests)
    /\ Setups \subseteq Setup
    /\ \A u \in Setups : u.role = "client" => u.clients # {}

VARIABLES
    setup,      \* the command line
    st,         \* where each thread is
    todo,       \* threads a thread has still to start (thread_start_all)
    next,       \* [Thread -> Seq(Thread)]: runNext, at most one
    conn,       \* client threads whose connect succeeded
    barrier,    \* transmits_start.count
    mCount,     \* the -P counter of each Listener, -1 for none
    sNum,       \* thread_sNum
    trfcNum,    \* thread_trfc_sNum
    nonterm,    \* nonterminating_num
    repReady,   \* reporter_state.ready
    orphan,     \* a report is in ReportRoot whose traffic thread FAIL has stopped
    sigInt,     \* sInterupted
    sThread,    \* the thread that got the first SIGINT
    main,       \* where main is
    registered, \* history: Listeners that registered and did not unregister
    faults,     \* history: failing pthread_create and FAIL so far
    signals,    \* history: signals so far
    released,   \* history: thread_release_nonterm was called
    spurious    \* history: a wait in BarrierClient ended with no broadcast

countVars == <<sNum, trfcNum>>
sigVars == <<sigInt, sThread, signals, released>>
reporterVars == <<repReady, orphan>>
clientVars == <<conn, barrier, spurious>>
vars == <<setup, st, todo, next, conn, barrier, mCount, sNum, trfcNum, nonterm,
          repReady, orphan, sigInt, sThread, main, registered, faults, signals,
          released, spurious>>

IsTraffic(t) == IF t \in Traffic THEN 1 ELSE 0
Become(t, s) == st' = [st EXCEPT ![t] = s]

\* Any order of a finite set.
Ordered(S) == CHOOSE q \in Bijection(1 .. Cardinality(S), S) : TRUE

\* client_init: the first client, then the Listener of -d and -r, then the
\* other clients; listeners_init: one Listener for each port.
ClientChain(u) ==
    LET ls == [i \in 1 .. Cardinality(u.listeners) |->
                  ListenerOf(Ordered(u.listeners)[i])]
        cs == [i \in 1 .. Cardinality(u.clients) |->
                  ClientOf(Ordered(u.clients)[i])]
    IN  IF u.role = "server" THEN ls ELSE <<Head(cs)>> \o ls \o Tail(cs)

\* main, up to thread_start_all: the reporter is started first.
Init ==
    /\ setup \in Setups
    /\ st = [t \in Thread |-> "none"]
    /\ todo = [t \in Starter |->
                  IF t = MainThread THEN <<Reporter>> \o ClientChain(setup)
                                    ELSE <<>>]
    /\ next = [t \in Thread |-> <<>>]
    /\ conn = {}
    /\ barrier = setup.mThreads
    /\ mCount = [l \in ListenerThread |->
                    IF setup.mThreads # 0 THEN setup.mThreads ELSE -1]
    /\ sNum = 0 /\ trfcNum = 0 /\ nonterm = 0
    /\ repReady = FALSE /\ orphan = FALSE
    /\ sigInt = "no" /\ sThread = "none"
    /\ main = "starting"
    /\ registered = {}
    /\ faults = 0 /\ signals = 0
    /\ released = FALSE /\ spurious = FALSE

-----------------------------------------------------------------------------
\* Starting, stopping and ending a thread (compat/Thread.c).

\* Where a thread begins: a server thread (server_spawn) with its traffic.
FirstState(t) == IF t \in Traffic /\ t[1] = "server" THEN "traffic" ELSE "running"

\* thread_start: the count goes up and the thread exists.
ThreadStart(s) ==
    /\ todo[s] # <<>>
    /\ LET t == Head(todo[s]) IN
       /\ st[t] = "none"
       /\ Become(t, FirstState(t))
       /\ sNum' = sNum + 1
       /\ trfcNum' = trfcNum + IsTraffic(t)
    /\ todo' = [todo EXCEPT ![s] = Tail(@)]
    /\ UNCHANGED <<setup, next, clientVars, mCount, nonterm, reporterVars,
                   sigVars, main, registered, faults>>

\* pthread_create fails: the thread has been counted when that shows.
ThreadStartFailing(s) ==
    /\ todo[s] # <<>>
    /\ faults + signals < setup.maxEvents
    /\ faults' = faults + 1
    /\ LET t == Head(todo[s]) IN
       /\ st[t] = "none"
       /\ Become(t, "counted")
       /\ sNum' = sNum + 1
       /\ trfcNum' = trfcNum + IsTraffic(t)
    /\ UNCHANGED <<setup, todo, next, clientVars, mCount, nonterm, reporterVars,
                   sigVars, main, registered>>

\* The count goes down again, and the rest of the list is started.
ThreadStartFailed(s) ==
    /\ todo[s] # <<>>
    /\ st[Head(todo[s])] = "counted"
    /\ Become(Head(todo[s]), "failed")
    /\ todo' = [todo EXCEPT ![s] = Tail(@)]
    /\ sNum' = sNum - 1
    /\ trfcNum' = trfcNum - IsTraffic(Head(todo[s]))
    /\ UNCHANGED <<setup, next, clientVars, mCount, nonterm, reporterVars, sigVars,
                   main, registered, faults>>

\* thread_stop in the failing thread itself: the count goes down, runNext is not
\* started, a Listener does not unregister, and nothing is sent to the reporter.
ThreadStop(t) ==
    /\ faults + signals < setup.maxEvents
    /\ Become(t, "stopped")
    /\ sNum' = sNum - 1
    /\ trfcNum' = trfcNum - IsTraffic(t)
    /\ faults' = faults + 1
    /\ UNCHANGED <<setup, todo, next, clientVars, mCount, nonterm, repReady,
                   sigVars, main, registered>>

\* FAIL and FAIL_errno call thread_stop: in the traffic of a test, before its
\* report is posted or after EndJob, or in between, which leaves the report in the
\* queue; (a FAIL before the connect acts as a start that fails)
TrafficFails(t) ==
    /\ t \in Traffic
    /\ st[t] = "traffic"
    /\ ThreadStop(t)
    /\ orphan' \in {orphan, TRUE}

\* in my_listen, when the socket cannot be bound or a group not be joined (TCP
\* listens once, UDP for every test),
ListenFails(l) == st[l] = "loop" /\ ThreadStop(l) /\ UNCHANGED orphan

\* and in udp_accept, when the first datagram cannot be read or answered.
AcceptFails(l) == st[l] = "accepting" /\ ThreadStop(l) /\ UNCHANGED orphan

\* Fault: a thread that ends is taken off the count of its kind only.
ThreadExitUncounted(t) ==
    /\ st[t] = "left"
    /\ Become(t, "gone")
    /\ sNum' = sNum - IsTraffic(t)
    /\ trfcNum' = trfcNum - IsTraffic(t)
    /\ todo' = [todo EXCEPT ![t] = next[t]]
    /\ UNCHANGED <<setup, next, clientVars, mCount, nonterm, reporterVars, sigVars,
                   main, registered, faults>>

\* The end of thread_run_wrapper: the count goes down, then runNext is started.
ThreadExit(t) ==
    /\ st[t] = "left"
    /\ Become(t, "gone")
    /\ sNum' = sNum - 1
    /\ trfcNum' = trfcNum - IsTraffic(t)
    /\ todo' = [todo EXCEPT ![t] = next[t]]
    /\ UNCHANGED <<setup, next, clientVars, mCount, nonterm, reporterVars, sigVars,
                   main, registered, faults>>

-----------------------------------------------------------------------------
\* main and the reporter.

\* threads_start.ready: all threads of the command line have been started.
StartedAll ==
    /\ main = "starting"
    /\ todo[MainThread] = <<>>
    /\ main' = "joining"
    /\ UNCHANGED <<setup, st, todo, next, clientVars, mCount, countVars,
                   nonterm, reporterVars, sigVars, registered, faults>>

\* Fault: the reporter is not waited for.
JoinAllEarly ==
    /\ main = "joining"
    /\ sNum <= 1
    /\ main' = "done"
    /\ UNCHANGED <<setup, st, todo, next, clientVars, mCount, countVars,
                   nonterm, reporterVars, sigVars, registered, faults>>

\* thread_joinall; main returns and the process is over.
JoinAll ==
    /\ main = "joining"
    /\ sNum <= 0
    /\ main' = "done"
    /\ UNCHANGED <<setup, st, todo, next, clientVars, mCount, countVars,
                   nonterm, reporterVars, sigVars, registered, faults>>

\* reporter_spawn waits for threads_start.ready and then sets its own flag.
ReporterReady ==
    /\ st[Reporter] = "running"
    /\ main # "starting"
    /\ ~repReady
    /\ repReady' = TRUE
    /\ UNCHANGED <<setup, st, todo, next, clientVars, mCount, countVars,
                   nonterm, orphan, sigVars, main, registered, faults>>

\* The reporter leaves its loop with no report left and no other thread.  The
\* report of a thread that FAIL has stopped gets no final packet and stays.
ReporterLeave ==
    /\ st[Reporter] = "running"
    /\ repReady
    /\ ~orphan /\ \A t \in Traffic : st[t] # "traffic"
    /\ sNum <= 1
    /\ Become(Reporter, "left")
    /\ UNCHANGED <<setup, todo, next, clientVars, mCount, countVars, nonterm,
                   reporterVars, sigVars, main, registered, faults>>

-----------------------------------------------------------------------------
\* A Listener.

\* thread_register_nonterm.
Register(l) ==
    /\ st[l] = "running"
    /\ Become(l, "loop")
    /\ nonterm' = nonterm + 1
    /\ registered' = registered \cup {l}
    /\ UNCHANGED <<setup, todo, next, clientVars, mCount, countVars, reporterVars,
                   sigVars, main, faults>>

\* Fault: -1 does not look at the traffic that is running.
SingleClientBusyNever == FALSE

\* -1 waits until there is no traffic thread.
SingleClientBusy == setup.single /\ trfcNum > 0

\* The loop test, the end time of -t at any moment; with -1 the Listener waits
\* for the running test.
ListenerLoop(l) ==
    /\ st[l] = "loop"
    /\ \/ /\ sigInt # "no" \/ mCount[l] = 0 \/ setup.timer
          /\ Become(l, "returned")
       \/ /\ sigInt = "no" /\ mCount[l] # 0
          /\ ~SingleClientBusy
          /\ Become(l, "accepting")
    /\ UNCHANGED <<setup, todo, next, clientVars, mCount, countVars, nonterm,
                   reporterVars, sigVars, main, registered, faults>>

\* The select times out: the Listener of a client (compat) gives up, one with
\* an end time looks at it again.
ListenerTimeout(l) ==
    /\ st[l] = "accepting"
    /\ \/ setup.role = "client" /\ Become(l, "returned")
       \/ setup.timer /\ Become(l, "loop")
    /\ UNCHANGED <<setup, todo, next, clientVars, mCount, countVars, nonterm,
                   reporterVars, sigVars, main, registered, faults>>

Counted1(l) == [mCount EXCEPT ![l] = IF @ > 0 THEN @ - 1 ELSE @]

\* An accepted connection that is turned away has used up one of -P.
AcceptReject(l) ==
    /\ st[l] = "accepting"
    /\ Become(l, "loop")
    /\ mCount' = Counted1(l)
    /\ UNCHANGED <<setup, todo, next, clientVars, countVars, nonterm, reporterVars,
                   sigVars, main, registered, faults>>

\* The tests no thread has been settled for yet.
Free == {i \in setup.tests :
           \A t \in {ServerOf(i), ClientOf(i)} :
              st[t] = "none" /\ \A s \in Starter : t \notin {todo[s][k] : k \in 1 .. Len(todo[s])}}

\* An accepted test: a server thread; for --reverse a client thread in its
\* place; for a full duplex test or -d also a client thread now; for -r a
\* client thread when the server thread is finished.  The Listener of a
\* client (compat) starts server threads only.
AcceptTest(l, i) ==
    /\ st[l] = "accepting"
    /\ i \in Free
    /\ \A j \in Free : i <= j
    /\ mCount' = Counted1(l)
    /\ Become(l, "starting")
    /\ \/ /\ todo' = [todo EXCEPT ![l] = <<ServerOf(i)>>]
          /\ next' = next
       \/ /\ setup.role = "server"
          /\ todo' = [todo EXCEPT ![l] = <<ClientOf(i)>>]
          /\ next' = next
       \/ /\ setup.role = "server"
          /\ todo' = [todo EXCEPT ![l] = <<ServerOf(i), ClientOf(i)>>]
          /\ next' = next
       \/ /\ setup.role = "server"
          /\ todo' = [todo EXCEPT ![l] = <<ServerOf(i)>>]
          /\ next' = [next EXCEPT ![ServerOf(i)] = <<ClientOf(i)>>]
    /\ UNCHANGED <<setup, clientVars, countVars, nonterm, reporterVars, sigVars,
                   main, registered, faults>>

ListenerStarted(l) ==
    /\ st[l] = "starting"
    /\ todo[l] = <<>>
    /\ Become(l, "loop")
    /\ UNCHANGED <<setup, todo, next, clientVars, mCount, countVars, nonterm,
                   reporterVars, sigVars, main, registered, faults>>

\* thread_unregister_nonterm: a Listener that was released is counted again,
\* for the end of thread_run_wrapper takes it off.
Unregister(l) ==
    /\ st[l] = "returned"
    /\ Become(l, "left")
    /\ IF nonterm = 0
       THEN sNum' = sNum + 1 /\ nonterm' = nonterm
       ELSE sNum' = sNum /\ nonterm' = nonterm - 1
    /\ registered' = registered \ {l}
    /\ UNCHANGED <<setup, todo, next, clientVars, mCount, trfcNum, reporterVars,
                   sigVars, main, faults>>

-----------------------------------------------------------------------------
\* A traffic thread.

\* client_spawn waits for the reporter; my_connect succeeds or fails (the
\* client of a Listener may have its socket already).
Connect(t) ==
    /\ t[1] = "client"
    /\ st[t] = "running"
    /\ repReady
    /\ Become(t, IF setup.sync THEN "connected" ELSE "go")
    /\ conn' \in {conn, conn \cup {t}}
    /\ UNCHANGED <<setup, todo, next, barrier, spurious, mCount, countVars,
                   nonterm, reporterVars, sigVars, main, registered, faults>>

\* Fault: the last but one releases the others.
BarrierOpens1 == barrier - 1 <= 1

\* BarrierClient: --barrier->count <= 0
BarrierOpens == barrier - 1 <= 0

\* BarrierClient, also for a client that could not connect: the last one
\* wakes up the others.
BarrierEnter(t) ==
    /\ st[t] = "connected"
    /\ barrier' = barrier - 1
    /\ IF BarrierOpens
       THEN st' = [u \in Thread |->
                     IF u = t \/ st[u] = "barrier" THEN "go" ELSE st[u]]
       ELSE Become(t, "barrier")
    /\ UNCHANGED <<setup, todo, next, conn, spurious, mCount, countVars,
                   nonterm, reporterVars, sigVars, main, registered, faults>>

\* Condition_Wait is not in a loop: a spurious wake-up lets the client go.
BarrierSpurious(t) ==
    /\ st[t] = "barrier"
    /\ faults + signals < setup.maxEvents
    /\ faults' = faults + 1
    /\ Become(t, "go")
    /\ spurious' = TRUE
    /\ UNCHANGED <<setup, todo, next, conn, barrier, mCount, countVars,
                   nonterm, reporterVars, sigVars, main, registered>>

\* clientside_client_basic, _reverse and _fullduplex: an unconnected client
\* ends, --reverse and full duplex start the thread that reads.
ClientRole(t) ==
    /\ st[t] = "go"
    /\ IF t \notin conn
       THEN Become(t, "left") /\ todo' = todo
       ELSE IF setup.role = "server" \/ setup.dir = "basic"
       THEN Become(t, "traffic") /\ todo' = todo
       ELSE Become(t, "starting") /\ todo' = [todo EXCEPT ![t] = <<ServerOf(t[2])>>]
    /\ UNCHANGED <<setup, next, clientVars, mCount, countVars, nonterm,
                   reporterVars, sigVars, main, registered, faults>>

\* The client of --reverse is done when its server thread is started.
ClientStarted(t) ==
    /\ t \in Traffic
    /\ st[t] = "starting"
    /\ todo[t] = <<>>
    /\ Become(t, IF setup.dir = "reverse" THEN "left" ELSE "traffic")
    /\ UNCHANGED <<setup, todo, next, clientVars, mCount, countVars, nonterm,
                   reporterVars, sigVars, main, registered, faults>>

\* The test is over, by its time, its amount, the peer's close or an interrupt,
\* and the reporter has handled the final packet (EndJob).
TrafficEnd(t) ==
    /\ st[t] = "traffic"
    /\ st[Reporter] = "running" /\ repReady
    /\ Become(t, "left")
    /\ UNCHANGED <<setup, todo, next, clientVars, mCount, countVars, nonterm,
                   reporterVars, sigVars, main, registered, faults>>

\* The test does not begin (InitTrafficLoop and StartSynch fail): no EndJob.
TrafficNotBegun(t) ==
    /\ st[t] = "traffic"
    /\ Become(t, "left")
    /\ UNCHANGED <<setup, todo, next, clientVars, mCount, countVars, nonterm,
                   reporterVars, sigVars, main, registered, faults>>

-----------------------------------------------------------------------------
\* Signals.

\* Fault: an interrupt does not stop the waiting for the Listeners.
ReleaseNontermNot ==
    /\ nonterm' = 0
    /\ UNCHANGED sNum

\* thread_release_nonterm.
ReleaseNonterm ==
    /\ sNum' = sNum - nonterm
    /\ nonterm' = 0

\* Sig_Interupt in thread h.  The first SIGINT remembers its thread; another
\* signal in that thread ends the process.  SIGALRM (the timer of a traffic
\* loop) releases nobody.
Signal(sig, h) ==
    /\ faults + signals < setup.maxEvents
    /\ signals' = signals + 1
    /\ IF sThread = h /\ ~(sig = "INT" /\ sThread = "none")
       THEN /\ main' = "killed"
            /\ UNCHANGED <<sNum, nonterm, sigInt, sThread, released>>
       ELSE /\ sThread' = IF sig = "INT" /\ sThread = "none" THEN h ELSE sThread
            /\ sigInt' = sig
            /\ IF sig = "ALRM"
               THEN UNCHANGED <<sNum, nonterm, released>>
               ELSE ReleaseNonterm /\ released' = TRUE
            /\ UNCHANGED main
    /\ UNCHANGED <<setup, st, todo, next, clientVars, mCount, trfcNum, reporterVars,
                   registered, faults>>

-----------------------------------------------------------------------------
Alive == main \in {"starting", "joining"}

\* What the threads do without anybody's help.
Step ==
    \/ \E s \in Starter : ThreadStart(s) \/ ThreadStartFailed(s)
    \/ \E t \in Thread : ThreadExit(t)
    \/ StartedAll \/ JoinAll \/ ReporterReady \/ ReporterLeave
    \/ \E l \in ListenerThread :
          \/ Register(l) \/ ListenerLoop(l) \/ ListenerTimeout(l)
          \/ ListenerStarted(l) \/ Unregister(l)
    \/ \E t \in Traffic :
          \/ Connect(t) \/ BarrierEnter(t)
          \/ ClientRole(t) \/ ClientStarted(t) \/ TrafficEnd(t)

\* What the peers, the system and the user do.
Environment ==
    \/ \E s \in Starter : ThreadStartFailing(s)
    \/ \E t \in Traffic : TrafficFails(t) \/ TrafficNotBegun(t)
    \/ \E l \in ListenerThread :
          ListenFails(l) \/ AcceptFails(l) \/ AcceptReject(l) \/ \E i \in Tests : AcceptTest(l, i)
    \/ \E t \in Traffic : BarrierSpurious(t)
    \/ \E sig \in {"INT", "TERM", "ALRM"}, h \in {"main", "other"} : Signal(sig, h)

Next == Alive /\ (Step \/ Environment)

\* Every thread that can go on does; nobody has to connect or to interrupt.
Fairness ==
    /\ \A s \in Starter : WF_vars(Alive /\ (ThreadStart(s) \/ ThreadStartFailed(s)))
    /\ \A t \in Thread : WF_vars(Alive /\ ThreadExit(t))
    /\ WF_vars(Alive /\ (StartedAll \/ JoinAll))
    /\ WF_vars(Alive /\ (ReporterReady \/ ReporterLeave))
    /\ \A l \in ListenerThread :
          WF_vars(Alive /\ (\/ Register(l) \/ ListenerLoop(l)
                            \/ ListenerTimeout(l) \/ ListenerStarted(l)
                            \/ Unregister(l)))
    /\ \A t \in Traffic :
          WF_vars(Alive /\ (\/ Connect(t) \/ BarrierEnter(t)
                            \/ ClientRole(t) \/ ClientStarted(t)
                            \/ TrafficEnd(t)))

Spec == Init /\ [][Next]_vars /\ Fairness

-----------------------------------------------------------------------------
\* Threads that thread_start has counted and no end has taken off.
Counted == {t \in Thread : st[t] \notin {"none", "failed", "stopped", "gone"}}

\* The counts main, the reporter and -1 look at are exact at every moment, in
\* every order of registering, releasing on a signal, unregistering and
\* ending: thread_sNum has every counted thread but the Listeners that were
\* released.  A Listener that stopped by FAIL stays among the registered.
CountsExact ==
    /\ sNum = Cardinality(Counted) - (Cardinality(registered) - nonterm)
    /\ trfcNum = Cardinality(Counted \cap Traffic)

\* main returns from thread_joinall only when no traffic thread and no
\* reporter is left, and no Listener unless a signal released it; except that
\* an interrupt takes a Listener that stopped by FAIL off a second time.
MainLeavesLast ==
    main = "done" =>
        \/ Counted \subseteq IF released THEN ListenerThread ELSE {}
        \/ released /\ \E l \in ListenerThread : st[l] = "stopped"

\* Client threads that have come to the barrier.
AtBarrier == {t \in Traffic : /\ t[1] = "client"
                              /\ st[t] \notin {"none", "failed", "counted",
                                               "running", "connected"}}

\* "When -P > 1 then all threads finish connect before starting traffic": no
\* client is past the barrier before as many clients as -P says have tried to
\* connect, unless a wait ended spuriously.
TrafficAfterConnects ==
    setup.sync /\ ~spurious /\ (\E t \in AtBarrier : st[t] # "barrier")
        => Cardinality(AtBarrier) >= setup.mThreads

\* A server with -1 and one port serves one test at a time: the counted traffic
\* threads belong to one test; a runNext thread is excepted, it is not counted
\* while it is handed over.
OneClientAtATime ==
    LET own == {t \in Counted \cap Traffic :
                  \A u \in Thread : next[u] # <<t>>}
    IN  setup.role = "server" /\ setup.single /\ Cardinality(setup.listeners) = 1
            => \A t, u \in own : t[2] = u[2]

\* Traffic starts when it may, at the barrier of -P and with -1.
StartsInOrder == TrafficAfterConnects /\ OneClientAtATime

\* One of the clients could not be created, so that the others wait for it.
BarrierShort == faults > 0 /\ \E t \in Traffic : st[t] = "barrier"

\* The reporter could not be created, or left in the moment in which a runNext
\* thread is not counted: a client waits for reporter_state.ready, or a traffic
\* thread in EndJob.
ReporterAway ==
    /\ st[Reporter] \in {"failed", "left", "gone"}
    /\ \E t \in Traffic : st[t] \in {"running", "traffic"}

\* FAIL stopped a traffic thread whose report the reporter goes on with.
ReporterStays == orphan /\ st[Reporter] = "running"

\* After SIGINT or SIGTERM the process ends although a Listener may hang in
\* accept, and a client process ends in any case; except that it hangs, for good,
\* when a client that could not be created is missing at the barrier, when there
\* is traffic without a reporter, and when a thread stopped by FAIL left its
\* report in the queue.
ProcessEnds ==
    LET Hangs == BarrierShort \/ ReporterAway \/ ReporterStays
    IN  released \/ setup.role = "client" ~> (~Alive \/ []Hangs)
=============================================================================
