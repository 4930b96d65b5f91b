------------------------ MODULE ThreadControlProofs -------------------------
(***************************************************************************)
(* Proofs about ThreadControl for any ports, tests and command lines: the  *)
(* counts of threads, the end of main and the order in which traffic       *)
(* starts, with any number of failing threads and signals.                 *)
(***************************************************************************)
EXTENDS ThreadControl, FiniteSetTheorems, SequenceTheorems, TLAPS

\* Where a thread can be.
Uncounted == {"none", "failed", "stopped", "gone"}
InLoop == {"loop", "accepting", "starting", "returned"}
Place == Uncounted \cup InLoop \cup
         {"counted", "running", "left", "connected", "barrier", "go", "traffic"}

TypeOK ==
    /\ setup \in Setups
    /\ st \in [Thread -> Place]
    /\ todo \in [Starter -> Seq(Thread)]
    /\ next \in [Thread -> Seq(Traffic)]
    /\ conn \subseteq Traffic
    /\ barrier \in Int
    /\ mCount \in [ListenerThread -> Int]
    /\ sNum \in Int /\ trfcNum \in Int /\ nonterm \in Nat
    /\ repReady \in BOOLEAN /\ orphan \in BOOLEAN
    /\ sigInt \in {"no", "INT", "TERM", "ALRM"} /\ sThread \in {"none", "main", "other"}
    /\ main \in {"starting", "joining", "done", "killed"}
    /\ registered \subseteq ListenerThread
    /\ faults \in Nat /\ signals \in Nat
    /\ released \in BOOLEAN /\ spurious \in BOOLEAN

\* The registered Listeners are the ones in Listener::Run, and the ones that FAIL
\* stopped there; nonterminating_num has all of them until a signal.
Registration ==
    /\ \A l \in ListenerThread : st[l] \in InLoop => l \in registered
    /\ \A l \in registered : st[l] \in InLoop \cup {"stopped"}
    /\ nonterm <= Cardinality(registered)
    /\ ~released => nonterm = Cardinality(registered)

CountInv == TypeOK /\ Registration /\ CountsExact

-----------------------------------------------------------------------------
\* The kinds of threads are told apart by their first component.
LEMMA Kinds ==
    /\ Reporter \in Thread /\ Reporter \notin Traffic /\ Reporter \notin ListenerThread
    /\ ListenerThread \subseteq Thread /\ Traffic \subseteq Thread
    /\ ListenerThread \cap Traffic = {}
    /\ MainThread \notin Thread /\ Thread \subseteq Starter
    /\ \A i \in Tests : ClientOf(i) \in Traffic /\ ServerOf(i) \in Traffic
    /\ \A l \in Listeners : ListenerOf(l) \in ListenerThread
    /\ \A t \in Traffic : t[1] \in {"client", "server"} /\ t[2] \in Tests
  BY DEF Reporter, ListenerThread, Traffic, Thread, MainThread, Starter, ListenerOf, ClientOf,
         ServerOf

\* There are finitely many threads.
LEMMA ThreadFinite ==
    ASSUME NEW S \in SUBSET Thread
    PROVE  IsFiniteSet(S) /\ Cardinality(S) \in Nat
<1> DEFINE K == {"reporter"} \cup {"listener"} \cup {"client"} \cup {"server"}
           N == {0} \cup Listeners \cup Tests
<1>1. IsFiniteSet(K) /\ IsFiniteSet(N)
  <2>1. \A x : IsFiniteSet({x})
    BY FS_Singleton
  <2>2. IsFiniteSet({0} \cup Listeners) /\ IsFiniteSet({"reporter"} \cup {"listener"})
    BY <2>1, FS_Union, ThreadAssumption
  <2>3. IsFiniteSet({"reporter"} \cup {"listener"} \cup {"client"})
    BY <2>1, <2>2, FS_Union
  <2> QED BY <2>1, <2>2, <2>3, FS_Union, ThreadAssumption
<1>2. IsFiniteSet(K \X N)
  BY <1>1, FS_Product
<1>3. S \subseteq K \X N
  BY DEF Thread, Traffic, ListenerThread, Reporter, ListenerOf, ClientOf, ServerOf
<1>4. IsFiniteSet(S)
  BY <1>2, <1>3, FS_Subset
<1> QED BY <1>4, FS_CardinalityType

\* One thread more.
LEMMA AddThread ==
    ASSUME NEW S \in SUBSET Thread, NEW t, t \notin S
    PROVE  Cardinality(S \cup {t}) = Cardinality(S) + 1
  BY ThreadFinite, FS_AddElement

\* One thread less.
LEMMA RemoveThread ==
    ASSUME NEW S \in SUBSET Thread, NEW t \in S
    PROVE  Cardinality(S \ {t}) = Cardinality(S) - 1
  BY ThreadFinite, FS_RemoveElement

\* Nobody is counted where nobody is.
LEMMA NoThread ==
    ASSUME NEW S \in SUBSET Thread
    PROVE  Cardinality(S) = 0 <=> S = {}
  BY ThreadFinite, FS_EmptySet

-----------------------------------------------------------------------------
\* The list of a set's elements has only elements of the set.
LEMMA OrderedType ==
    ASSUME NEW S, IsFiniteSet(S)
    PROVE  Cardinality(S) \in Nat /\ Ordered(S) \in [1 .. Cardinality(S) -> S]
<1>1. Cardinality(S) \in Nat /\ Bijection(1 .. Cardinality(S), S) # {}
  BY FS_CardinalityType DEF ExistsBijection
<1>2. Ordered(S) \in Bijection(1 .. Cardinality(S), S)
  BY <1>1 DEF Ordered
<1> QED BY <1>1, <1>2 DEF Bijection, Injection

\* client_init and listeners_init start threads of the command line.
LEMMA ChainType ==
    ASSUME NEW u \in Setups
    PROVE  /\ ClientChain(u) \in Seq(Thread)
           /\ u.role = "server" => ClientChain(u) \in Seq({ListenerOf(l) : l \in u.listeners})
<1> DEFINE ls == [i \in 1 .. Cardinality(u.listeners) |-> ListenerOf(Ordered(u.listeners)[i])]
           cs == [i \in 1 .. Cardinality(u.clients) |-> ClientOf(Ordered(u.clients)[i])]
           L == {ListenerOf(l) : l \in u.listeners}
<1>1. u \in Setup /\ (u.role = "client" => u.clients # {})
  BY ThreadAssumption
<1>2. u.listeners \subseteq Listeners /\ u.clients \subseteq Tests /\ u.role \in {"client", "server"}
  BY <1>1 DEF Setup
<1>3. IsFiniteSet(u.listeners) /\ IsFiniteSet(u.clients)
  BY <1>2, ThreadAssumption, FS_Subset
<1>4. /\ Cardinality(u.listeners) \in Nat /\ Cardinality(u.clients) \in Nat
      /\ Ordered(u.listeners) \in [1 .. Cardinality(u.listeners) -> u.listeners]
      /\ Ordered(u.clients) \in [1 .. Cardinality(u.clients) -> u.clients]
  BY <1>3, OrderedType
<1>5. L \subseteq Thread /\ \A c \in u.clients : ClientOf(c) \in Thread
  BY <1>2, Kinds
<1>6. ls \in Seq(L) /\ ls \in Seq(Thread)
  BY <1>4, <1>5
<1>7. cs \in Seq(Thread) /\ Len(cs) = Cardinality(u.clients)
  BY <1>4, <1>5
<1>8. CASE u.role = "server"
  BY <1>6, <1>8 DEF ClientChain
<1>9. CASE u.role = "client"
  <2>1. cs # <<>>
    <3>1. Cardinality(u.clients) # 0
      BY <1>1, <1>3, <1>9, FS_EmptySet
    <3> QED BY <1>7, <3>1
  <2>2. Head(cs) \in Thread /\ Tail(cs) \in Seq(Thread)
    BY <1>7, <2>1, HeadTailProperties
  <2>3. <<Head(cs)>> \o ls \o Tail(cs) \in Seq(Thread)
    <3> HIDE DEF ls, cs
    <3>1. <<Head(cs)>> \in Seq(Thread)
      BY <2>2
    <3>2. <<Head(cs)>> \o ls \in Seq(Thread)
      BY <1>6, <3>1, ConcatProperties
    <3> QED BY <2>2, <3>2, ConcatProperties
  <2> QED BY <1>9, <2>3 DEF ClientChain
<1> QED BY <1>2, <1>8, <1>9

-----------------------------------------------------------------------------
\* A thread that has still to be started, and the rest of the list.
LEMMA ListType ==
    ASSUME TypeOK, NEW s \in Starter, todo[s] # <<>>
    PROVE  /\ Head(todo[s]) \in Thread
           /\ [todo EXCEPT ![s] = Tail(@)] \in [Starter -> Seq(Thread)]
<1>1. todo[s] \in Seq(Thread)
  BY DEF TypeOK
<1>2. Head(todo[s]) \in Thread /\ Tail(todo[s]) \in Seq(Thread)
  BY <1>1, HeadTailProperties
<1> QED BY <1>2 DEF TypeOK

\* The types at the start of the process,
LEMMA InitType == ASSUME Init PROVE TypeOK
<1>1. setup \in Setups /\ setup \in Setup /\ setup.mThreads \in Nat
  BY ThreadAssumption DEF Init, Setup
<1>2. <<Reporter>> \o ClientChain(setup) \in Seq(Thread)
  <2>1. <<Reporter>> \in Seq(Thread)
    BY Kinds
  <2> QED BY <1>1, <2>1, ChainType, ConcatProperties
<1>3. todo \in [Starter -> Seq(Thread)] /\ next \in [Thread -> Seq(Traffic)]
  BY <1>2, EmptySeq DEF Init
<1>4. st \in [Thread -> Place] /\ mCount \in [ListenerThread -> Int] /\ barrier \in Int
  BY <1>1 DEF Init, Place, Uncounted
<1>5. conn \subseteq Traffic /\ registered \subseteq ListenerThread
  BY DEF Init
<1>6. repReady \in BOOLEAN /\ orphan \in BOOLEAN /\ released \in BOOLEAN /\ spurious \in BOOLEAN
  BY DEF Init
<1>7. sNum \in Int /\ trfcNum \in Int /\ nonterm \in Nat /\ faults \in Nat /\ signals \in Nat
  BY DEF Init
<1>8. sigInt = "no" /\ sThread = "none" /\ main = "starting"
  BY DEF Init
<1> QED BY <1>1, <1>3, <1>4, <1>5, <1>6, <1>7, <1>8 DEF TypeOK

\* after thread_start,
LEMMA StartType ==
    ASSUME TypeOK, NEW s \in Starter,
           ThreadStart(s) \/ ThreadStartFailing(s) \/ ThreadStartFailed(s)
    PROVE  TypeOK'
<1> USE DEF Become, clientVars, sigVars, reporterVars
<1>1. todo[s] # <<>>
  BY DEF ThreadStart, ThreadStartFailing, ThreadStartFailed
<1>2. PICK t \in Thread : t = Head(todo[s])
  BY <1>1, ListType
<1>3. todo' \in [Starter -> Seq(Thread)]
  BY <1>1, ListType DEF ThreadStart, ThreadStartFailing, ThreadStartFailed, TypeOK
<1>4. IsTraffic(t) \in Int /\ FirstState(t) \in Place
  BY DEF IsTraffic, FirstState, Place
<1>5. st' \in [Thread -> Place]
  BY <1>2, <1>4 DEF ThreadStart, ThreadStartFailing, ThreadStartFailed, TypeOK, Place, Uncounted
<1>6. sNum' \in Int /\ trfcNum' \in Int
  BY <1>2, <1>4 DEF ThreadStart, ThreadStartFailing, ThreadStartFailed, TypeOK
<1>7. faults' \in Nat
  BY DEF ThreadStart, ThreadStartFailing, ThreadStartFailed, TypeOK
<1>8. UNCHANGED <<setup, next, clientVars, mCount, nonterm, sigVars, reporterVars, main, registered>>
  BY DEF ThreadStart, ThreadStartFailing, ThreadStartFailed
<1> QED BY <1>3, <1>5, <1>6, <1>7, <1>8 DEF TypeOK

\* after a thread ended, by itself or by FAIL,
LEMMA EndType ==
    ASSUME TypeOK, NEW t \in Thread, ThreadExit(t) \/ (ThreadStop(t) /\ orphan' \in BOOLEAN)
    PROVE  TypeOK'
<1>1. IsTraffic(t) \in Int
  BY DEF IsTraffic
<1>2. Seq(Traffic) \subseteq Seq(Thread)
  BY Kinds
<1>3. todo' \in [Starter -> Seq(Thread)]
  BY <1>2, Kinds DEF ThreadExit, ThreadStop, TypeOK
<1>4. st' \in [Thread -> Place]
  BY DEF ThreadExit, ThreadStop, TypeOK, Become, Place, Uncounted
<1>6. sNum' \in Int /\ trfcNum' \in Int /\ faults' \in Nat
  BY <1>1 DEF ThreadExit, ThreadStop, TypeOK
<1>5. UNCHANGED <<setup, next, clientVars, mCount, nonterm, sigVars, repReady, main, registered>>
      /\ orphan' \in BOOLEAN
  BY DEF ThreadExit, ThreadStop, TypeOK, reporterVars
<1> QED BY <1>3, <1>4, <1>5, <1>6 DEF TypeOK, clientVars, sigVars

\* after a step of main or of the reporter,
LEMMA MainType ==
    ASSUME TypeOK, StartedAll \/ JoinAll \/ ReporterReady \/ ReporterLeave
    PROVE  TypeOK'
  BY Kinds DEF StartedAll, JoinAll, ReporterReady, ReporterLeave, TypeOK, Become, Place,
               Uncounted, clientVars, sigVars, reporterVars, countVars

\* after the Listener took a connection,
LEMMA AcceptType ==
    ASSUME TypeOK, NEW l \in ListenerThread, NEW i \in Tests, AcceptTest(l, i)
    PROVE  TypeOK'
<1>1. l \in Thread /\ l \in Starter /\ ServerOf(i) \in Traffic /\ ClientOf(i) \in Traffic
  BY Kinds
<1>2. /\ ServerOf(i) \in Thread
      /\ <<ServerOf(i)>> \in Seq(Thread) /\ <<ClientOf(i)>> \in Seq(Thread)
      /\ <<ServerOf(i), ClientOf(i)>> \in Seq(Thread) /\ <<ClientOf(i)>> \in Seq(Traffic)
  BY <1>1, Kinds
<1>3. todo' \in [Starter -> Seq(Thread)] /\ next' \in [Thread -> Seq(Traffic)]
  BY <1>1, <1>2 DEF AcceptTest, TypeOK
<1>4. mCount' \in [ListenerThread -> Int]
  BY DEF AcceptTest, Counted1, TypeOK
<1> QED BY <1>1, <1>3, <1>4 DEF AcceptTest, TypeOK, Become, Place, InLoop, clientVars,
                                sigVars, reporterVars, countVars

\* after the Listener's other steps,
LEMMA ListenerType ==
    ASSUME TypeOK, NEW l \in ListenerThread,
           \/ Register(l) \/ ListenerLoop(l) \/ ListenerTimeout(l)
           \/ ListenerStarted(l) \/ Unregister(l) \/ AcceptReject(l)
    PROVE  TypeOK'
<1> USE DEF Become, clientVars, sigVars, reporterVars, countVars
<1>1. l \in Thread
  BY Kinds
<1>2. st' \in [Thread -> Place]
  BY <1>1 DEF Register, ListenerLoop, ListenerTimeout, ListenerStarted, Unregister, AcceptReject,
              TypeOK, Place, InLoop
<1>3. CASE Register(l) \/ Unregister(l)
  BY <1>2, <1>3 DEF Register, Unregister, TypeOK
<1>4. CASE AcceptReject(l)
  <2>1. mCount' \in [ListenerThread -> Int]
    BY <1>4 DEF AcceptReject, Counted1, TypeOK
  <2> QED BY <1>2, <1>4, <2>1 DEF AcceptReject, TypeOK
<1>5. CASE ListenerLoop(l) \/ ListenerTimeout(l) \/ ListenerStarted(l)
  BY <1>2, <1>5 DEF ListenerLoop, ListenerTimeout, ListenerStarted, TypeOK
<1> QED BY <1>3, <1>4, <1>5

\* after a step of a client or server thread,
LEMMA TrafficType ==
    ASSUME TypeOK, NEW t \in Traffic,
           \/ Connect(t) \/ BarrierEnter(t) \/ BarrierSpurious(t)
           \/ ClientRole(t) \/ ClientStarted(t) \/ TrafficEnd(t) \/ TrafficNotBegun(t)
    PROVE  TypeOK'
<1> USE DEF Become, clientVars, sigVars, reporterVars, countVars
<1>1. t \in Thread /\ t \in Starter /\ t[2] \in Tests
  BY Kinds
<1>2. <<ServerOf(t[2])>> \in Seq(Thread)
  BY <1>1, Kinds
<1>3. CASE Connect(t)
  BY <1>1, <1>3 DEF Connect, TypeOK, Place
<1>4. CASE BarrierEnter(t)
  <2>1. st' \in [Thread -> Place]
    BY <1>1, <1>4 DEF BarrierEnter, TypeOK, Place
  <2> QED BY <1>4, <2>1 DEF BarrierEnter, TypeOK
<1>5. CASE BarrierSpurious(t)
  BY <1>1, <1>5 DEF BarrierSpurious, TypeOK, Place
<1>6. CASE ClientRole(t)
  <2>1. todo' \in [Starter -> Seq(Thread)]
    BY <1>1, <1>2, <1>6 DEF ClientRole, TypeOK
  <2> QED BY <1>1, <1>6, <2>1 DEF ClientRole, TypeOK, Place, InLoop
<1>7. CASE ClientStarted(t)
  BY <1>1, <1>7 DEF ClientStarted, TypeOK, Place
<1>8. CASE TrafficEnd(t) \/ TrafficNotBegun(t)
  <2>1. st' \in [Thread -> Place]
    BY <1>1, <1>8 DEF TrafficEnd, TrafficNotBegun, TypeOK, Place
  <2>2. UNCHANGED <<setup, todo, next, clientVars, mCount, countVars, nonterm, reporterVars,
                    sigVars, main, registered, faults>>
    BY <1>8 DEF TrafficEnd, TrafficNotBegun
  <2> QED BY <2>1, <2>2 DEF TypeOK
<1> QED BY <1>3, <1>4, <1>5, <1>6, <1>7, <1>8

\* and after a signal.
LEMMA SignalType ==
    ASSUME TypeOK, NEW sig \in {"INT", "TERM", "ALRM"}, NEW h \in {"main", "other"}, Signal(sig, h)
    PROVE  TypeOK'
<1>1. sNum' \in Int /\ nonterm' \in Nat /\ signals' \in Nat
  BY DEF Signal, ReleaseNonterm, TypeOK
<1>3. released' \in BOOLEAN
  BY DEF Signal, TypeOK
<1>2. /\ sigInt' \in {"no", "INT", "TERM", "ALRM"} /\ sThread' \in {"none", "main", "other"}
      /\ main' \in {"starting", "joining", "done", "killed"}
  BY DEF Signal, TypeOK
<1> QED BY <1>1, <1>2, <1>3 DEF Signal, TypeOK, clientVars, reporterVars

-----------------------------------------------------------------------------
\* Who is counted, one thread at a time.
LEMMA CountedType ==
    /\ Counted \in SUBSET Thread /\ Counted \cap Traffic \in SUBSET Thread
    /\ Cardinality(Counted) \in Nat /\ Cardinality(Counted \cap Traffic) \in Nat
<1>1. Counted \in SUBSET Thread /\ Counted \cap Traffic \in SUBSET Thread
  BY DEF Counted
<1> QED BY <1>1, ThreadFinite

\* A thread that becomes counted,
LEMMA CountUp ==
    ASSUME TypeOK, NEW t \in Thread, st[t] \in Uncounted, NEW x \in Place \ Uncounted, Become(t, x)
    PROVE  /\ Cardinality(Counted') = Cardinality(Counted) + 1
           /\ Cardinality((Counted \cap Traffic)') = Cardinality(Counted \cap Traffic) + IsTraffic(t)
<1>1. Counted' = Counted \cup {t} /\ t \notin Counted
  BY DEF Counted, Become, Uncounted, TypeOK
<1>2. Cardinality(Counted') = Cardinality(Counted) + 1
  BY <1>1, CountedType, AddThread
<1>3. CASE t \in Traffic
  <2>1. (Counted \cap Traffic)' = (Counted \cap Traffic) \cup {t} /\ t \notin Counted \cap Traffic
    BY <1>1, <1>3
  <2> QED BY <1>2, <1>3, <2>1, CountedType, AddThread DEF IsTraffic
<1>4. CASE t \notin Traffic
  <2>1. (Counted \cap Traffic)' = Counted \cap Traffic
    BY <1>1, <1>4
  <2>2. Cardinality((Counted \cap Traffic)') = Cardinality(Counted \cap Traffic)
    BY <2>1
  <2>3. IsTraffic(t) = 0
    BY <1>4 DEF IsTraffic
  <2> QED BY <1>2, <2>2, <2>3, CountedType
<1> QED BY <1>3, <1>4

\* or is no longer.
LEMMA CountDown ==
    ASSUME TypeOK, NEW t \in Thread, st[t] \notin Uncounted, NEW x \in Uncounted, Become(t, x)
    PROVE  /\ Cardinality(Counted') = Cardinality(Counted) - 1
           /\ Cardinality((Counted \cap Traffic)') = Cardinality(Counted \cap Traffic) - IsTraffic(t)
<1>1. Counted' = Counted \ {t} /\ t \in Counted
  BY DEF Counted, Become, Uncounted, TypeOK
<1>2. Cardinality(Counted') = Cardinality(Counted) - 1
  BY <1>1, CountedType, RemoveThread
<1>3. CASE t \in Traffic
  <2>1. (Counted \cap Traffic)' = (Counted \cap Traffic) \ {t} /\ t \in Counted \cap Traffic
    BY <1>1, <1>3
  <2> QED BY <1>2, <1>3, <2>1, CountedType, RemoveThread DEF IsTraffic
<1>4. CASE t \notin Traffic
  <2>1. (Counted \cap Traffic)' = Counted \cap Traffic
    BY <1>1, <1>4
  <2>2. Cardinality((Counted \cap Traffic)') = Cardinality(Counted \cap Traffic)
    BY <2>1
  <2>3. IsTraffic(t) = 0
    BY <1>4 DEF IsTraffic
  <2> QED BY <1>2, <2>2, <2>3, CountedType
<1> QED BY <1>3, <1>4

\* Registration and counts, when no thread's standing changes.
LEMMA CountsKept ==
    ASSUME CountInv, UNCHANGED <<sNum, trfcNum, nonterm, registered, released>>,
           \A t \in Thread : st'[t] \in Uncounted <=> st[t] \in Uncounted,
           \A l \in ListenerThread : /\ st'[l] \in InLoop <=> st[l] \in InLoop
                                     /\ st[l] = "stopped" => st'[l] = "stopped"
    PROVE  Registration' /\ CountsExact'
<1>1. Counted' = Counted
  BY DEF Counted, Uncounted
<1>2. CountsExact'
  BY <1>1 DEF CountInv, CountsExact
<1>3. Registration'
  BY DEF CountInv, TypeOK, Registration
<1> QED BY <1>2, <1>3

\* The same for a step that moves one thread.
LEMMA MoveKept ==
    ASSUME CountInv, UNCHANGED <<sNum, trfcNum, nonterm, registered, released>>,
           NEW t \in Thread, NEW x, Become(t, x), st[t] \notin Uncounted, x \notin Uncounted,
           t \in ListenerThread => (x \in InLoop <=> st[t] \in InLoop)
    PROVE  Registration' /\ CountsExact'
<1>1. st' = [st EXCEPT ![t] = x] /\ DOMAIN st = Thread /\ st[t] # "stopped"
  BY DEF Become, CountInv, TypeOK, Uncounted
<1>2. \A u \in Thread : st'[u] \in Uncounted <=> st[u] \in Uncounted
  BY <1>1
<1>3. \A l \in ListenerThread : /\ st'[l] \in InLoop <=> st[l] \in InLoop
                                /\ st[l] = "stopped" => st'[l] = "stopped"
  BY <1>1, Kinds
<1> QED BY <1>2, <1>3, CountsKept

\* No thread is there and none is counted.
LEMMA InitCounts == ASSUME Init PROVE CountInv
<1>1. Counted = {} /\ Counted \cap Traffic = {} /\ registered = {}
  BY DEF Init, Counted
<1>2. Cardinality(Counted) = 0 /\ Cardinality(Counted \cap Traffic) = 0 /\ Cardinality(registered) = 0
  BY <1>1, FS_EmptySet
<1>3. CountsExact
  BY <1>2 DEF Init, CountsExact
<1>4. Registration
  BY <1>2, Kinds DEF Init, Registration, InLoop
<1> QED BY <1>3, <1>4, InitType DEF CountInv

-----------------------------------------------------------------------------
\* Registration holds when a thread that starts or ends does not disturb it.
LEMMA RegistrationKept ==
    ASSUME CountInv, UNCHANGED <<nonterm, registered, released>>,
           NEW t \in Thread, NEW x, Become(t, x), x \notin InLoop,
           st[t] \in InLoop \cup {"stopped"} => x = "stopped"
    PROVE  Registration'
<1>1. st' = [st EXCEPT ![t] = x] /\ DOMAIN st = Thread
  BY DEF Become, CountInv, TypeOK
<1>2. \A l \in ListenerThread : st'[l] \in InLoop => l \in registered
  BY <1>1, Kinds DEF CountInv, Registration
<1>3. \A l \in registered : st'[l] \in InLoop \cup {"stopped"}
  BY <1>1, Kinds DEF CountInv, Registration, TypeOK
<1> QED BY <1>2, <1>3 DEF CountInv, Registration

\* thread_start, with pthread_create failing or not.
LEMMA StartCounts ==
    ASSUME CountInv, NEW s \in Starter,
           ThreadStart(s) \/ ThreadStartFailing(s) \/ ThreadStartFailed(s)
    PROVE  CountInv'
<1>1. TypeOK' /\ TypeOK
  BY StartType DEF CountInv
<1>2. todo[s] # <<>>
  BY DEF ThreadStart, ThreadStartFailing, ThreadStartFailed
<1>3. PICK t \in Thread : t = Head(todo[s])
  BY <1>1, <1>2, ListType
<1>4. UNCHANGED <<nonterm, registered, released>>
  BY DEF ThreadStart, ThreadStartFailing, ThreadStartFailed, sigVars, reporterVars
<1>5. sNum \in Int /\ trfcNum \in Int /\ IsTraffic(t) \in Int /\ nonterm \in Int
      /\ Cardinality(registered) \in Int
  <2>1. registered \in SUBSET Thread
    BY <1>1, Kinds DEF TypeOK
  <2> QED BY <1>1, <2>1, ThreadFinite DEF TypeOK, IsTraffic
<1>6. CASE ThreadStart(s) \/ ThreadStartFailing(s)
  <2>1. PICK x \in {"running", "traffic", "counted"} : Become(t, x)
    BY <1>3, <1>6 DEF ThreadStart, ThreadStartFailing, FirstState
  <2>2. /\ st[t] = "none" /\ x \in Place \ Uncounted /\ x \notin InLoop
        /\ st[t] \notin InLoop \cup {"stopped"}
    BY <1>3, <1>6 DEF ThreadStart, ThreadStartFailing, Place, Uncounted, InLoop
  <2>3. sNum' = sNum + 1 /\ trfcNum' = trfcNum + IsTraffic(t)
    BY <1>3, <1>6 DEF ThreadStart, ThreadStartFailing
  <2>4. Registration'
    BY <1>4, <2>1, <2>2, RegistrationKept
  <2>5. /\ Cardinality(Counted') = Cardinality(Counted) + 1
        /\ Cardinality((Counted \cap Traffic)') = Cardinality(Counted \cap Traffic) + IsTraffic(t)
    BY <1>1, <2>1, <2>2, CountUp DEF Uncounted
  <2>6. CountsExact'
    BY <1>4, <1>5, <2>3, <2>5, CountedType DEF CountInv, CountsExact
  <2> QED BY <1>1, <2>4, <2>6 DEF CountInv
<1>7. CASE ThreadStartFailed(s)
  <2>1. Become(t, "failed") /\ st[t] = "counted"
    BY <1>3, <1>7 DEF ThreadStartFailed
  <2>2. sNum' = sNum - 1 /\ trfcNum' = trfcNum - IsTraffic(t)
    BY <1>3, <1>7 DEF ThreadStartFailed
  <2>3. Registration'
    BY <1>4, <2>1, RegistrationKept DEF InLoop
  <2>4. /\ Cardinality(Counted') = Cardinality(Counted) - 1
        /\ Cardinality((Counted \cap Traffic)') = Cardinality(Counted \cap Traffic) - IsTraffic(t)
    BY <1>1, <2>1, CountDown DEF Uncounted
  <2>5. CountsExact'
    BY <1>4, <1>5, <2>2, <2>4, CountedType DEF CountInv, CountsExact
  <2> QED BY <1>1, <2>3, <2>5 DEF CountInv
<1> QED BY <1>6, <1>7

\* The end of thread_run_wrapper, and thread_stop in a thread that is running: a
\* Listener that stops stays registered.
LEMMA EndCounts ==
    ASSUME CountInv, NEW t \in Thread,
           \/ ThreadExit(t)
           \/ ThreadStop(t) /\ st[t] \in {"traffic", "loop", "accepting"} /\ orphan' \in BOOLEAN
    PROVE  CountInv'
<1>1. TypeOK' /\ TypeOK
  BY EndType DEF CountInv
<1>2. UNCHANGED <<nonterm, registered, released>>
  BY DEF ThreadExit, ThreadStop, sigVars, reporterVars
<1>3. sNum \in Int /\ trfcNum \in Int /\ IsTraffic(t) \in Int /\ nonterm \in Int
      /\ Cardinality(registered) \in Int
  <2>1. registered \in SUBSET Thread
    BY <1>1, Kinds DEF TypeOK
  <2> QED BY <1>1, <2>1, ThreadFinite DEF TypeOK, IsTraffic
<1>4. PICK x \in {"gone", "stopped"} : Become(t, x) /\ (x = "gone" => st[t] = "left")
  BY DEF ThreadExit, ThreadStop
<1>5. st[t] \notin Uncounted /\ x \in Uncounted /\ x \notin InLoop
      /\ (st[t] \in InLoop \cup {"stopped"} => x = "stopped")
  BY <1>4 DEF ThreadExit, ThreadStop, Uncounted, InLoop
<1>6. Registration'
  BY <1>2, <1>4, <1>5, RegistrationKept
<1>7. sNum' = sNum - 1 /\ trfcNum' = trfcNum - IsTraffic(t)
  BY DEF ThreadExit, ThreadStop
<1>8. /\ Cardinality(Counted') = Cardinality(Counted) - 1
      /\ Cardinality((Counted \cap Traffic)') = Cardinality(Counted \cap Traffic) - IsTraffic(t)
  BY <1>1, <1>4, <1>5, CountDown
<1>9. CountsExact'
  BY <1>2, <1>3, <1>7, <1>8, CountedType DEF CountInv, CountsExact
<1> QED BY <1>1, <1>6, <1>9 DEF CountInv

\* thread_register_nonterm and thread_unregister_nonterm.
LEMMA RegisterCounts ==
    ASSUME CountInv, NEW l \in ListenerThread, Register(l) \/ Unregister(l)
    PROVE  CountInv'
<1>1. TypeOK' /\ TypeOK
  BY ListenerType DEF CountInv
<1>2. l \in Thread /\ registered \in SUBSET Thread /\ Cardinality(registered) \in Nat
  <2>1. l \in Thread /\ registered \in SUBSET Thread
    BY <1>1, Kinds DEF TypeOK
  <2> QED BY <2>1, ThreadFinite
<1>3. PICK x \in {"loop", "left"} : st' = [st EXCEPT ![l] = x]
  BY DEF Register, Unregister, Become
<1>4. Counted' = Counted
  BY <1>1, <1>2, <1>3 DEF Register, Unregister, Counted, TypeOK
<1>5. trfcNum' = trfcNum /\ released' = released
  BY DEF Register, Unregister, countVars, sigVars, reporterVars
<1>6. CASE Register(l)
  <2>1. x = "loop" /\ st[l] = "running" /\ l \notin registered
    BY <1>1, <1>2, <1>3, <1>6 DEF Register, Become, CountInv, Registration, InLoop, TypeOK
  <2>2. registered' = registered \cup {l} /\ nonterm' = nonterm + 1 /\ sNum' = sNum
    BY <1>6 DEF Register, countVars
  <2>3. Cardinality(registered') = Cardinality(registered) + 1
    BY <1>2, <2>1, <2>2, AddThread
  <2>4. CountsExact'
    BY <1>1, <1>2, <1>4, <1>5, <2>2, <2>3, CountedType DEF CountInv, CountsExact, TypeOK
  <2>5. \A k \in ListenerThread : st'[k] \in InLoop => k \in registered'
    BY <1>1, <1>3, <2>2, Kinds DEF CountInv, Registration, TypeOK
  <2>6. \A k \in registered' : st'[k] \in InLoop \cup {"stopped"}
    BY <1>1, <1>2, <1>3, <2>1, <2>2 DEF CountInv, Registration, TypeOK, InLoop
  <2>7. nonterm' <= Cardinality(registered') /\ (~released' => nonterm' = Cardinality(registered'))
    <3>1. nonterm \in Int /\ nonterm <= Cardinality(registered)
      BY <1>1 DEF CountInv, Registration, TypeOK
    <3>2. ~released => nonterm = Cardinality(registered)
      BY DEF CountInv, Registration
    <3> QED BY <1>2, <1>5, <2>2, <2>3, <3>1, <3>2
  <2> QED BY <1>1, <2>4, <2>5, <2>6, <2>7 DEF CountInv, Registration
<1>7. CASE Unregister(l)
  <2>1. x = "left" /\ l \in registered
    BY <1>1, <1>2, <1>3, <1>7 DEF Unregister, Become, CountInv, Registration, InLoop, TypeOK
  <2>2. /\ registered' = registered \ {l}
        /\ \/ nonterm = 0 /\ nonterm' = 0 /\ sNum' = sNum + 1
           \/ nonterm > 0 /\ nonterm' = nonterm - 1 /\ sNum' = sNum
    BY <1>1, <1>7 DEF Unregister, TypeOK
  <2>3. Cardinality(registered') = Cardinality(registered) - 1
    BY <1>2, <2>1, <2>2, RemoveThread
  <2>4. CountsExact'
    <3>1. /\ sNum \in Int /\ nonterm \in Int
          /\ sNum = Cardinality(Counted) - (Cardinality(registered) - nonterm)
          /\ trfcNum = Cardinality(Counted \cap Traffic)
      BY <1>1 DEF CountInv, CountsExact, TypeOK
    <3>2. CASE nonterm = 0 /\ nonterm' = 0 /\ sNum' = sNum + 1
      BY <1>2, <1>4, <1>5, <2>3, <3>1, <3>2, CountedType DEF CountsExact
    <3>3. CASE nonterm > 0 /\ nonterm' = nonterm - 1 /\ sNum' = sNum
      BY <1>2, <1>4, <1>5, <2>3, <3>1, <3>3, CountedType DEF CountsExact
    <3> QED BY <2>2, <3>2, <3>3
  <2>5. \A k \in ListenerThread : st'[k] \in InLoop => k \in registered'
    BY <1>1, <1>3, <2>1, <2>2, Kinds DEF CountInv, Registration, TypeOK, InLoop
  <2>6. \A k \in registered' : st'[k] \in InLoop \cup {"stopped"}
    BY <1>1, <1>2, <1>3, <2>1, <2>2 DEF CountInv, Registration, TypeOK
  <2>7. Cardinality(registered) # 0
    BY <1>2, <2>1, NoThread
  <2>8. nonterm' <= Cardinality(registered') /\ (~released' => nonterm' = Cardinality(registered'))
    BY <1>1, <1>2, <1>5, <2>2, <2>3, <2>7 DEF CountInv, Registration, TypeOK
  <2> QED BY <1>1, <2>4, <2>5, <2>6, <2>8 DEF CountInv, Registration
<1> QED BY <1>6, <1>7

\* thread_release_nonterm takes the registered Listeners off thread_sNum.
LEMMA SignalCounts ==
    ASSUME CountInv, NEW sig \in {"INT", "TERM", "ALRM"}, NEW h \in {"main", "other"}, Signal(sig, h)
    PROVE  CountInv'
<1>1. TypeOK' /\ TypeOK
  BY SignalType DEF CountInv
<1>2. UNCHANGED <<st, registered, trfcNum>>
  BY DEF Signal
<1>3. \/ UNCHANGED <<sNum, nonterm, released>>
      \/ sNum' = sNum - nonterm /\ nonterm' = 0 /\ released'
  BY DEF Signal, ReleaseNonterm
<1>4. Counted' = Counted /\ Cardinality(registered) \in Nat
  <2>1. registered \in SUBSET Thread
    BY <1>1, Kinds DEF TypeOK
  <2> QED BY <1>2, <2>1, ThreadFinite DEF Counted
<1>5. CountsExact'
  <2>1. /\ sNum \in Int /\ nonterm \in Int
        /\ sNum = Cardinality(Counted) - (Cardinality(registered) - nonterm)
        /\ trfcNum = Cardinality(Counted \cap Traffic)
    BY <1>1 DEF CountInv, CountsExact, TypeOK
  <2>2. sNum' = Cardinality(Counted) - (Cardinality(registered) - nonterm')
    BY <1>3, <1>4, <2>1, CountedType
  <2> QED BY <1>2, <1>4, <2>1, <2>2 DEF CountsExact
<1>6. Registration'
  BY <1>1, <1>2, <1>3, <1>4 DEF CountInv, Registration, TypeOK
<1> QED BY <1>1, <1>5, <1>6 DEF CountInv

\* The other steps of a Listener stay in Listener::Run.
LEMMA ListenerCounts ==
    ASSUME CountInv, NEW l \in ListenerThread,
           \/ ListenerLoop(l) \/ ListenerTimeout(l) \/ ListenerStarted(l) \/ AcceptReject(l)
           \/ \E i \in Tests : AcceptTest(l, i)
    PROVE  CountInv'
<1>1. TypeOK'
  BY ListenerType, AcceptType DEF CountInv
<1>2. PICK x \in InLoop : Become(l, x)
  BY DEF ListenerLoop, ListenerTimeout, ListenerStarted, AcceptReject, AcceptTest, InLoop
<1>3. /\ UNCHANGED <<sNum, trfcNum, nonterm, registered, released>>
      /\ st[l] \in InLoop
  BY DEF ListenerLoop, ListenerTimeout, ListenerStarted, AcceptReject, AcceptTest, InLoop,
         countVars, sigVars, reporterVars
<1>4. st[l] \notin Uncounted /\ x \notin Uncounted
  BY <1>2, <1>3 DEF InLoop, Uncounted
<1>5. Registration' /\ CountsExact'
  BY <1>2, <1>3, <1>4, MoveKept, Kinds
<1> QED BY <1>1, <1>5 DEF CountInv

\* A client thread on its way to its traffic, and the end of traffic.
LEMMA TrafficCounts ==
    ASSUME CountInv, NEW t \in Traffic,
           \/ Connect(t) \/ BarrierEnter(t) \/ BarrierSpurious(t)
           \/ ClientRole(t) \/ ClientStarted(t) \/ TrafficEnd(t) \/ TrafficNotBegun(t)
    PROVE  CountInv'
<1>1. TypeOK' /\ t \in Thread /\ t \notin ListenerThread
  BY TrafficType, Kinds DEF CountInv
<1>2. UNCHANGED <<sNum, trfcNum, nonterm, registered, released>>
  BY DEF Connect, BarrierEnter, BarrierSpurious, ClientRole, ClientStarted, TrafficEnd,
         TrafficNotBegun, countVars, sigVars, reporterVars
<1>3. CASE BarrierEnter(t) /\ BarrierOpens
  <2>1. st' = [u \in Thread |-> IF u = t \/ st[u] = "barrier" THEN "go" ELSE st[u]]
        /\ st[t] = "connected"
    BY <1>3 DEF BarrierEnter
  <2>2. \A u \in Thread : st'[u] \in Uncounted <=> st[u] \in Uncounted
    BY <2>1 DEF Uncounted
  <2>3. \A l \in ListenerThread : /\ st'[l] \in InLoop <=> st[l] \in InLoop
                                  /\ st[l] = "stopped" => st'[l] = "stopped"
    BY <1>1, <2>1, Kinds DEF InLoop
  <2> QED BY <1>1, <1>2, <2>2, <2>3, CountsKept DEF CountInv
<1>4. CASE ~(BarrierEnter(t) /\ BarrierOpens)
  <2>1. PICK x \in {"connected", "go", "barrier", "left", "traffic", "starting"} : Become(t, x)
    BY <1>4 DEF Connect, BarrierEnter, BarrierSpurious, ClientRole, ClientStarted, TrafficEnd,
           TrafficNotBegun
  <2>2. st[t] \notin Uncounted /\ x \notin Uncounted
    BY <2>1 DEF Connect, BarrierEnter, BarrierSpurious, ClientRole, ClientStarted, TrafficEnd,
                TrafficNotBegun, Uncounted
  <2>3. Registration' /\ CountsExact'
    BY <1>1, <1>2, <2>1, <2>2, MoveKept
  <2> QED BY <1>1, <2>3 DEF CountInv
<1> QED BY <1>3, <1>4

\* main and the reporter.
LEMMA MainCounts ==
    ASSUME CountInv, StartedAll \/ JoinAll \/ ReporterReady \/ ReporterLeave
    PROVE  CountInv'
<1>1. TypeOK'
  BY MainType DEF CountInv
<1>2. UNCHANGED <<sNum, trfcNum, nonterm, registered, released>>
  BY DEF StartedAll, JoinAll, ReporterReady, ReporterLeave, countVars, sigVars, reporterVars
<1>3. CASE st' = st
  BY <1>1, <1>2, <1>3, CountsKept DEF CountInv
<1>4. CASE ReporterLeave
  <2>1. Become(Reporter, "left") /\ st[Reporter] = "running"
    BY <1>4 DEF ReporterLeave
  <2>2. Registration' /\ CountsExact'
    BY <1>2, <2>1, MoveKept, Kinds DEF Uncounted
  <2> QED BY <1>1, <2>2 DEF CountInv
<1> QED BY <1>3, <1>4 DEF StartedAll, JoinAll, ReporterReady

\* In every order of starting, failing, registering, releasing, unregistering and
\* ending the invariant of the counts holds.
THEOREM CountInvariant == Spec => []CountInv
<1>1. Init => CountInv
  BY InitCounts
<1>2. CountInv /\ [Next]_vars => CountInv'
  <2> SUFFICES ASSUME CountInv, [Next]_vars PROVE CountInv'
    OBVIOUS
  <2>1. CASE Step
    <3>1. ASSUME NEW s \in Starter, ThreadStart(s) \/ ThreadStartFailed(s) PROVE CountInv'
      BY <3>1, StartCounts
    <3>2. ASSUME NEW t \in Thread, ThreadExit(t) PROVE CountInv'
      BY <3>2, EndCounts
    <3>3. CASE StartedAll \/ JoinAll \/ ReporterReady \/ ReporterLeave
      BY <3>3, MainCounts
    <3>4. ASSUME NEW l \in ListenerThread,
                 \/ Register(l) \/ ListenerLoop(l) \/ ListenerTimeout(l)
                 \/ ListenerStarted(l) \/ Unregister(l)
          PROVE  CountInv'
      BY <3>4, RegisterCounts, ListenerCounts
    <3>5. ASSUME NEW t \in Traffic,
                 \/ Connect(t) \/ BarrierEnter(t)
                 \/ ClientRole(t) \/ ClientStarted(t) \/ TrafficEnd(t) \/ TrafficNotBegun(t)
          PROVE  CountInv'
      BY <3>5, TrafficCounts
    <3> QED BY <2>1, <3>1, <3>2, <3>3, <3>4, <3>5 DEF Step
  <2>2. CASE Environment
    <3>1. ASSUME NEW s \in Starter, ThreadStartFailing(s) PROVE CountInv'
      BY <3>1, StartCounts
    <3>2. ASSUME NEW t \in Traffic, \/ TrafficFails(t) \/ BarrierSpurious(t)
                                     \/ TrafficNotBegun(t)
          PROVE  CountInv'
      <4>1. orphan \in BOOLEAN
        BY DEF CountInv, TypeOK
      <4> QED BY <3>2, <4>1, EndCounts, TrafficCounts, Kinds DEF TrafficFails
    <3>3. ASSUME NEW l \in ListenerThread,
                 \/ ListenFails(l) \/ AcceptFails(l) \/ AcceptReject(l)
                 \/ \E i \in Tests : AcceptTest(l, i)
          PROVE  CountInv'
      <4>1. orphan \in BOOLEAN
        BY DEF CountInv, TypeOK
      <4> QED BY <3>3, <4>1, EndCounts, ListenerCounts, Kinds DEF ListenFails, AcceptFails
    <3>4. ASSUME NEW sig \in {"INT", "TERM", "ALRM"}, NEW h \in {"main", "other"}, Signal(sig, h)
          PROVE  CountInv'
      BY <3>4, SignalCounts
    <3> QED BY <2>2, <3>1, <3>2, <3>3, <3>4 DEF Environment
  <2>3. CASE UNCHANGED vars
    <3>1. TypeOK' /\ UNCHANGED <<st, sNum, trfcNum, nonterm, registered, released>>
      BY <2>3 DEF vars, CountInv, TypeOK
    <3> QED BY <3>1, CountsKept DEF CountInv
  <2> QED BY <2>1, <2>2, <2>3 DEF Next
<1> QED BY <1>1, <1>2, PTL DEF Spec

\* thread_sNum, thread_trfc_sNum and nonterminating_num are exact at every moment
\* (compat/Thread.c), for any number of threads, failures and signals.
THEOREM CountsExactAlways == Spec => []CountsExact
<1>1. CountInv => CountsExact
  BY DEF CountInv
<1> QED BY <1>1, CountInvariant, PTL

-----------------------------------------------------------------------------
\* What thread_sNum = 0 means: who is still counted is a Listener that a signal
\* released, unless a Listener stopped by FAIL was released too.
LEMMA NobodyLeft ==
    ASSUME CountInv, sNum <= 0, released => \A l \in ListenerThread : st[l] # "stopped"
    PROVE  Counted \subseteq IF released THEN ListenerThread ELSE {}
<1>1. /\ registered \in SUBSET Thread /\ registered \subseteq ListenerThread
      /\ sNum \in Int /\ nonterm \in Nat
  BY Kinds DEF CountInv, TypeOK
<1>2. Cardinality(registered) \in Nat /\ Cardinality(Counted) \in Nat
  BY <1>1, CountedType, ThreadFinite
<1>3. sNum = Cardinality(Counted) - (Cardinality(registered) - nonterm)
  BY DEF CountInv, CountsExact
<1>4. CASE released
  <2>1. registered \subseteq Counted
    BY <1>1, <1>4 DEF CountInv, Registration, Counted, InLoop
  <2>2. IsFiniteSet(Counted)
    BY CountedType, ThreadFinite
  <2>3. /\ Cardinality(registered) <= Cardinality(Counted)
        /\ Cardinality(Counted) = Cardinality(registered) => Counted = registered
    BY <2>1, <2>2, FS_Subset
  <2>4. Cardinality(Counted) = Cardinality(registered)
    BY <1>1, <1>2, <1>3, <2>3
  <2> QED BY <1>1, <1>4, <2>3, <2>4
<1>5. CASE ~released
  <2>1. nonterm = Cardinality(registered)
    BY <1>5 DEF CountInv, Registration
  <2>2. Cardinality(Counted) = 0
    BY <1>1, <1>2, <1>3, <2>1
  <2>3. Counted = {}
    BY <2>2, CountedType, NoThread
  <2> QED BY <2>3
<1> QED BY <1>4, <1>5

\* When thread_joinall lets main return, no reporter and no traffic thread is left,
\* and no Listener but the ones a signal released.
THEOREM MainLeavesLastAlways == Spec => []MainLeavesLast
<1>1. Init => MainLeavesLast
  BY DEF Init, MainLeavesLast
<1>2. CountInv /\ MainLeavesLast /\ [Next]_vars => MainLeavesLast'
  <2> SUFFICES ASSUME CountInv, MainLeavesLast, [Next]_vars, main' = "done"
               PROVE  MainLeavesLast'
    BY DEF MainLeavesLast
  <2>1. CASE JoinAll
    <3>1. sNum <= 0 /\ UNCHANGED <<st, released>> /\ Counted' = Counted
      BY <2>1 DEF JoinAll, sigVars, reporterVars, Counted
    <3>2. CASE released /\ \E l \in ListenerThread : st[l] = "stopped"
      BY <3>1, <3>2 DEF MainLeavesLast
    <3>3. CASE ~(released /\ \E l \in ListenerThread : st[l] = "stopped")
      <4>1. Counted \subseteq IF released THEN ListenerThread ELSE {}
        BY <3>1, <3>3, NobodyLeft
      <4> QED BY <3>1, <4>1 DEF MainLeavesLast
    <3> QED BY <3>2, <3>3
  <2>2. CASE UNCHANGED vars
    BY <2>2 DEF vars, MainLeavesLast, Counted
  <2>3. CASE Next /\ ~JoinAll
    <3>1. main # "done"
      BY <2>3 DEF Next, Alive
    <3>2. UNCHANGED main \/ main' # "done"
      BY <2>3 DEF Next, Step, Environment, ThreadStart, ThreadStartFailed, ThreadStartFailing,
            ThreadExit, StartedAll, ReporterReady, ReporterLeave, Register, ListenerLoop,
            ListenerTimeout, ListenerStarted, Unregister, Connect, BarrierEnter, ClientRole,
            ClientStarted, TrafficEnd, TrafficNotBegun, TrafficFails, ListenFails, AcceptFails,
            ThreadStop, AcceptReject, AcceptTest, BarrierSpurious, Signal
    <3> QED BY <3>1, <3>2
  <2> QED BY <2>1, <2>2, <2>3
<1> QED BY <1>1, <1>2, CountInvariant, PTL DEF Spec

-----------------------------------------------------------------------------
\* The barrier of parallel clients.
IsClient(t) == t \in Traffic /\ t[1] = "client"
BeforeBarrier == {"none", "failed", "counted", "running", "connected"}

\* The counter of transmits_start is what -P said less the clients that came, and
\* with a client past the barrier it is used up.
BarrierInv ==
    /\ \A t \in Thread : st[t] = "connected" => IsClient(t)
    /\ setup.sync => /\ barrier = setup.mThreads - Cardinality(AtBarrier)
                     /\ ~spurious /\ (\E t \in AtBarrier : st[t] # "barrier") => barrier <= 0

\* Nobody has come to the barrier.
LEMMA InitBarrier == ASSUME Init PROVE BarrierInv
<1>1. AtBarrier = {} /\ Cardinality(AtBarrier) = 0
  <2>1. AtBarrier = {}
    BY Kinds DEF Init, AtBarrier
  <2> QED BY <2>1, FS_EmptySet
<1>2. barrier = setup.mThreads /\ setup.mThreads \in Nat
  BY ThreadAssumption DEF Init, Setup
<1> QED BY <1>1, <1>2 DEF Init, BarrierInv

\* The numbers at the barrier are numbers.
LEMMA BarrierCount ==
    ASSUME TypeOK
    PROVE  /\ AtBarrier \in SUBSET Thread /\ Cardinality(AtBarrier) \in Nat
           /\ setup.mThreads \in Nat /\ barrier \in Int
<1>1. AtBarrier \in SUBSET Thread
  BY Kinds DEF AtBarrier
<1>2. setup.mThreads \in Nat /\ barrier \in Int
  BY ThreadAssumption DEF TypeOK, Setup
<1> QED BY <1>1, <1>2, ThreadFinite

\* A step that moves one thread, but not into or out of the barrier.
LEMMA BarrierKept ==
    ASSUME TypeOK, BarrierInv, UNCHANGED <<setup, barrier, spurious>>,
           NEW t \in Thread, NEW x, Become(t, x), st[t] # "barrier", x = "connected" => IsClient(t),
           setup.sync /\ IsClient(t) => (x \in BeforeBarrier <=> st[t] \in BeforeBarrier)
    PROVE  BarrierInv'
<1>1. st' = [st EXCEPT ![t] = x] /\ DOMAIN st = Thread
  BY DEF Become, TypeOK
<1>2. \A u \in Thread : st'[u] = "connected" => IsClient(u)
  BY <1>1 DEF BarrierInv
<1>3. setup.sync => AtBarrier' = AtBarrier
  BY <1>1, Kinds DEF AtBarrier, IsClient, BeforeBarrier
<1>4. setup.sync /\ ~spurious /\ (\E u \in AtBarrier' : st'[u] # "barrier") => barrier <= 0
  <2> SUFFICES ASSUME setup.sync, ~spurious, NEW u \in AtBarrier', st'[u] # "barrier"
               PROVE  barrier <= 0
    OBVIOUS
  <2>1. u \in AtBarrier /\ u \in Thread
    BY <1>3, Kinds DEF AtBarrier
  <2>2. st[u] # "barrier"
    BY <1>1, <2>1
  <2> QED BY <2>1, <2>2 DEF BarrierInv
<1> QED BY <1>2, <1>3, <1>4 DEF BarrierInv, IsClient

\* Connect with the barrier leads up to it.
LEMMA ConnectBarrier ==
    ASSUME TypeOK, BarrierInv, NEW t \in Traffic, Connect(t)
    PROVE  BarrierInv'
<1>1. PICK x \in {"connected", "go"} : Become(t, x) /\ (setup.sync => x = "connected")
  BY DEF Connect
<1>2. t \in Thread /\ IsClient(t) /\ st[t] = "running" /\ UNCHANGED <<setup, barrier, spurious>>
  BY Kinds DEF Connect, IsClient
<1> QED BY <1>1, <1>2, BarrierKept DEF BeforeBarrier

\* BarrierClient: whoever comes is counted, and the last one opens.
LEMMA EnterBarrier ==
    ASSUME TypeOK, BarrierInv, NEW t \in Traffic, BarrierEnter(t)
    PROVE  BarrierInv'
<1>1. /\ t \in Thread /\ IsClient(t) /\ st[t] = "connected" /\ barrier' = barrier - 1
      /\ UNCHANGED <<setup, spurious>> /\ DOMAIN st = Thread
  BY Kinds DEF BarrierEnter, BarrierInv, TypeOK
<1>2. ASSUME NEW u \in Thread
      PROVE  st'[u] = IF u = t THEN IF BarrierOpens THEN "go" ELSE "barrier"
                      ELSE IF BarrierOpens /\ st[u] = "barrier" THEN "go" ELSE st[u]
  BY <1>1 DEF BarrierEnter, Become
<1>3. AtBarrier' = AtBarrier \cup {t} /\ t \notin AtBarrier
  BY <1>1, <1>2, Kinds DEF AtBarrier, IsClient
<1>4. Cardinality(AtBarrier') = Cardinality(AtBarrier) + 1
  BY <1>3, BarrierCount, AddThread
<1>5. \A u \in Thread : st'[u] = "connected" => IsClient(u)
  BY <1>2 DEF BarrierInv
<1>6. setup.sync => barrier' = setup.mThreads - Cardinality(AtBarrier')
  BY <1>1, <1>4, BarrierCount DEF BarrierInv
<1>7. setup.sync /\ ~spurious /\ (\E u \in AtBarrier' : st'[u] # "barrier") => barrier' <= 0
  <2>1. CASE BarrierOpens
    BY <1>1, <2>1 DEF BarrierOpens
  <2>2. CASE ~BarrierOpens
    <3>1. ~(barrier <= 0)
      BY <2>2, BarrierCount DEF BarrierOpens
    <3>2. setup.sync /\ ~spurious => \A u \in AtBarrier : st[u] = "barrier"
      BY <3>1 DEF BarrierInv
    <3>3. ASSUME setup.sync, ~spurious, NEW u \in AtBarrier' PROVE st'[u] = "barrier"
      <4>1. u \in Thread
        BY <1>1, <1>3, BarrierCount
      <4> QED BY <1>2, <1>3, <2>2, <3>2, <3>3, <4>1
    <3> QED BY <3>3
  <2> QED BY <2>1, <2>2
<1> QED BY <1>1, <1>5, <1>6, <1>7 DEF BarrierInv, IsClient

\* A wait that ends spuriously changes nobody's standing but its own.
LEMMA SpuriousBarrier ==
    ASSUME TypeOK, BarrierInv, NEW t \in Traffic, BarrierSpurious(t)
    PROVE  BarrierInv'
<1>1. /\ t \in Thread /\ st' = [st EXCEPT ![t] = "go"] /\ st[t] = "barrier" /\ DOMAIN st = Thread
      /\ UNCHANGED <<setup, barrier>> /\ spurious'
  BY Kinds DEF BarrierSpurious, Become, TypeOK
<1>2. AtBarrier' = AtBarrier
  BY <1>1, Kinds DEF AtBarrier
<1>3. \A u \in Thread : st'[u] = "connected" => IsClient(u)
  BY <1>1 DEF BarrierInv
<1> QED BY <1>1, <1>2, <1>3 DEF BarrierInv, IsClient

\* Every step keeps the barrier's invariant.
LEMMA StepBarrier == ASSUME TypeOK, BarrierInv, [Next]_vars PROVE BarrierInv'
<1> USE DEF BeforeBarrier, IsClient
<1>1. ASSUME NEW s \in Starter, ThreadStart(s) \/ ThreadStartFailing(s) \/ ThreadStartFailed(s)
      PROVE  BarrierInv'
  <2>1. todo[s] # <<>>
    BY <1>1 DEF ThreadStart, ThreadStartFailing, ThreadStartFailed
  <2>2. PICK t \in Thread : t = Head(todo[s])
    BY <2>1, ListType
  <2>3. PICK x : /\ Become(t, x) /\ x \in {"running", "traffic", "counted", "failed"}
                 /\ x = "traffic" => t[1] = "server"
    BY <1>1, <2>2 DEF ThreadStart, ThreadStartFailing, ThreadStartFailed, FirstState
  <2>4. st[t] \in {"none", "counted"} /\ UNCHANGED <<setup, barrier, spurious>>
    BY <1>1, <2>2 DEF ThreadStart, ThreadStartFailing, ThreadStartFailed, clientVars
  <2> QED BY <2>3, <2>4, BarrierKept
<1>2. ASSUME NEW t \in Thread,
             ThreadExit(t) \/ (ThreadStop(t) /\ st[t] \in {"traffic", "loop", "accepting"})
      PROVE  BarrierInv'
  <2>1. PICK x \in {"gone", "stopped"} : Become(t, x)
    BY <1>2 DEF ThreadExit, ThreadStop
  <2>2. st[t] \in {"left", "traffic", "loop", "accepting"} /\ UNCHANGED <<setup, barrier, spurious>>
    BY <1>2 DEF ThreadExit, ThreadStop, clientVars
  <2> QED BY <2>1, <2>2, BarrierKept
<1>3. CASE StartedAll \/ JoinAll \/ ReporterReady \/ (\E sig, h : Signal(sig, h)) \/ UNCHANGED vars
  <2>1. UNCHANGED <<setup, st, barrier, spurious>>
    BY <1>3 DEF StartedAll, JoinAll, ReporterReady, Signal, vars, clientVars
  <2>2. AtBarrier' = AtBarrier
    BY <2>1 DEF AtBarrier
  <2> QED BY <2>1, <2>2 DEF BarrierInv
<1>4. CASE ReporterLeave
  BY <1>4, BarrierKept, Kinds DEF ReporterLeave, clientVars
<1>5. ASSUME NEW l \in ListenerThread,
             \/ Register(l) \/ ListenerLoop(l) \/ ListenerTimeout(l)
             \/ ListenerStarted(l) \/ Unregister(l) \/ AcceptReject(l)
             \/ \E i \in Tests : AcceptTest(l, i)
      PROVE  BarrierInv'
  <2>1. PICK x \in InLoop \cup {"left"} : Become(l, x)
    BY <1>5 DEF Register, ListenerLoop, ListenerTimeout, ListenerStarted, Unregister, AcceptReject,
                AcceptTest, InLoop
  <2>2. st[l] \in InLoop \cup {"running"} /\ UNCHANGED <<setup, barrier, spurious>>
    BY <1>5 DEF Register, ListenerLoop, ListenerTimeout, ListenerStarted, Unregister, AcceptReject,
                AcceptTest, InLoop, clientVars
  <2>3. l \in Thread /\ l \notin Traffic
    BY Kinds
  <2> QED BY <2>1, <2>2, <2>3, BarrierKept DEF InLoop
<1>6. ASSUME NEW t \in Traffic, ClientRole(t) \/ ClientStarted(t) \/ TrafficEnd(t) \/ TrafficNotBegun(t)
      PROVE  BarrierInv'
  <2>1. PICK x \in {"left", "traffic", "starting"} : Become(t, x)
    BY <1>6 DEF ClientRole, ClientStarted, TrafficEnd,
           TrafficNotBegun
  <2>2. st[t] \in {"go", "starting", "traffic"} /\ UNCHANGED <<setup, barrier, spurious>>
    BY <1>6 DEF ClientRole, ClientStarted, TrafficEnd, TrafficNotBegun, clientVars
  <2> QED BY <2>1, <2>2, BarrierKept, Kinds
<1>7. CASE Step
  BY <1>1, <1>2, <1>3, <1>4, <1>5, <1>6, <1>7, ConnectBarrier, EnterBarrier DEF Step
<1>8. CASE Environment
  <2>1. ASSUME NEW t \in Traffic, TrafficFails(t) PROVE BarrierInv'
    BY <1>2, <2>1, Kinds DEF TrafficFails
  <2>2. ASSUME NEW l \in ListenerThread, ListenFails(l) \/ AcceptFails(l) PROVE BarrierInv'
    BY <1>2, <2>2, Kinds DEF ListenFails, AcceptFails
  <2> QED BY <1>1, <1>3, <1>5, <1>6, <1>8, <2>1, <2>2, SpuriousBarrier DEF Environment
<1> QED BY <1>3, <1>7, <1>8 DEF Next

-----------------------------------------------------------------------------
\* One test at a time: a server with -1 and one port.
Serving == setup.role = "server" /\ setup.single /\ Cardinality(setup.listeners) = 1
ServerListeners == {ListenerOf(l) : l \in setup.listeners}

\* Who has threads to start: main, a Listener that accepted, a client thread of
\* --reverse or full duplex, and a thread that ended, its runNext.
Lists ==
    /\ \A t \in Thread : todo[t] \in Seq(Traffic)
    /\ todo[Reporter] = <<>>
    /\ \A l \in ListenerThread : todo[l] # <<>> => st[l] = "starting"
    /\ \A t \in Traffic : todo[t] # <<>> => st[t] \in {"starting", "gone"}
    /\ \A t \in Thread : next[t] # <<>> => t \in Traffic /\ next[t] = <<ClientOf(t[2])>>

\* On a server main starts Listeners only and a traffic thread its runNext only.
ServerLists ==
    /\ todo[MainThread] \in Seq({Reporter} \cup ServerListeners)
    /\ \A l \in ListenerThread : st[l] # "none" => l \in ServerListeners
    /\ \A t \in Traffic : todo[t] # <<>> => \E u \in Traffic : todo[t] = <<u>> /\ next[t] = <<u>>

\* The counted traffic threads that are nobody's runNext, the threads a Listener
\* has still to start,
Own == {t \in Counted \cap Traffic : \A u \in Thread : next[u] # <<t>>}
Pending == {t \in Traffic : \E l \in ListenerThread : \E k \in 1 .. Len(todo[l]) : todo[l][k] = t}

\* are all of one test, and while the Listener accepts there are none.
OneTest ==
    /\ \A t, u \in Own \cup Pending : t[2] = u[2]
    /\ \A l \in ListenerThread : st[l] = "accepting" => Own = {}

ServeInv ==
    /\ Lists
    /\ setup.role = "server" => ServerLists
    /\ Serving => OneTest

\* What is left of a list has no new elements.
LEMMA TailElements ==
    ASSUME NEW S, NEW q \in Seq(S), q # <<>>
    PROVE  /\ Head(q) \in S /\ Tail(q) \in Seq(S)
           /\ \E k \in 1 .. Len(q) : q[k] = Head(q)
           /\ \A i \in 1 .. Len(Tail(q)) : \E k \in 1 .. Len(q) : q[k] = Tail(q)[i]
<1>1. /\ Head(q) \in S /\ Tail(q) \in Seq(S) /\ Len(Tail(q)) = Len(q) - 1
      /\ \A i \in 1 .. Len(Tail(q)) : Tail(q)[i] = q[i + 1]
  BY HeadTailProperties
<1>2. Len(q) \in Nat \ {0}
  BY EmptySeq
<1>3. 1 \in 1 .. Len(q) /\ q[1] = Head(q)
  BY <1>2
<1>4. ASSUME NEW i \in 1 .. Len(Tail(q))
      PROVE  i + 1 \in 1 .. Len(q) /\ q[i + 1] = Tail(q)[i]
  BY <1>1, <1>2
<1> QED BY <1>1, <1>3, <1>4

\* A server that serves one test at a time has one Listener.
LEMMA OneListener ==
    ASSUME TypeOK, ServerLists, Serving,
           NEW l \in ListenerThread, NEW k \in ListenerThread, st[l] # "none", st[k] # "none"
    PROVE  l = k
<1>1. setup.listeners \subseteq Listeners
  BY ThreadAssumption DEF TypeOK, Setup
<1>2. IsFiniteSet(setup.listeners)
  BY <1>1, ThreadAssumption, FS_Subset
<1>3. PICK x : setup.listeners = {x}
  BY <1>2, FS_Singleton DEF Serving
<1> QED BY <1>3 DEF ServerLists, ServerListeners

\* The lists at the start of the process.
LEMMA InitServe == ASSUME Init PROVE ServeInv
<1>1. setup \in Setups /\ TypeOK
  BY InitType DEF Init
<1>2. /\ \A t \in Thread : todo[t] = <<>> /\ next[t] = <<>> /\ st[t] = "none"
      /\ todo[MainThread] = <<Reporter>> \o ClientChain(setup)
  BY Kinds DEF Init, Starter
<1>3. Lists
  BY <1>2, EmptySeq, Kinds DEF Lists
<1>4. setup.role = "server" => ServerLists
  <2> SUFFICES ASSUME setup.role = "server" PROVE ServerLists
    OBVIOUS
  <2>1. ClientChain(setup) \in Seq(ServerListeners)
    BY <1>1, ChainType DEF ServerListeners
  <2>2. /\ ClientChain(setup) \in Seq({Reporter} \cup ServerListeners)
        /\ <<Reporter>> \in Seq({Reporter} \cup ServerListeners)
    BY <2>1
  <2>3. todo[MainThread] \in Seq({Reporter} \cup ServerListeners)
    BY <1>2, <2>2, ConcatProperties
  <2> QED BY <1>2, <2>3, Kinds DEF ServerLists
<1>5. Own = {} /\ Pending = {}
  <2>1. Own = {}
    BY <1>2, Kinds DEF Own, Counted
  <2>2. \A l \in ListenerThread : Len(todo[l]) = 0
    BY <1>2, Kinds, EmptySeq
  <2> QED BY <2>1, <2>2 DEF Pending
<1> QED BY <1>3, <1>4, <1>5 DEF ServeInv, OneTest

\* A step that starts no traffic thread of the Listener's own.
LEMMA OneTestKept ==
    ASSUME OneTest, Own' \subseteq Own, Pending' \subseteq Pending,
           \A l \in ListenerThread : st'[l] = "accepting" => st[l] = "accepting"
    PROVE  OneTest'
  BY DEF OneTest

\* Fewer counted threads and the same or empty lists.
LEMMA OwnKept ==
    ASSUME UNCHANGED next, \A t \in Traffic : st[t] \in Uncounted => st'[t] \in Uncounted
    PROVE  Own' \subseteq Own
  BY Kinds DEF Own, Counted, Uncounted

\* A list that is kept or emptied has nothing new to start.
LEMMA PendingKept ==
    ASSUME \A l \in ListenerThread : todo'[l] = todo[l] \/ todo'[l] = <<>>
    PROVE  Pending' \subseteq Pending
<1> SUFFICES ASSUME NEW t \in Pending' PROVE t \in Pending
  OBVIOUS
<1>1. PICK l \in ListenerThread : \E k \in 1 .. Len(todo'[l]) : todo'[l][k] = t
  BY DEF Pending
<1>2. todo'[l] # <<>>
  BY <1>1, EmptySeq
<1> QED BY <1>1, <1>2 DEF Pending

\* thread_start_all keeps the lists right.
LEMMA StartLists ==
    ASSUME TypeOK, ServeInv, NEW s \in Starter,
           ThreadStart(s) \/ ThreadStartFailing(s) \/ ThreadStartFailed(s)
    PROVE  Lists' /\ (setup.role = "server" => ServerLists')
<1>1. todo[s] # <<>> /\ UNCHANGED <<setup, next>>
  BY DEF ThreadStart, ThreadStartFailing, ThreadStartFailed
<1>2. PICK t \in Thread : t = Head(todo[s])
  BY <1>1, ListType
<1>3. /\ st[t] \in {"none", "counted"} /\ DOMAIN st = Thread /\ DOMAIN todo = Starter
      /\ todo' = todo \/ todo' = [todo EXCEPT ![s] = Tail(@)]
  BY <1>2 DEF ThreadStart, ThreadStartFailing, ThreadStartFailed, TypeOK
<1>4. PICK x \in {"running", "traffic", "counted", "failed"} : st' = [st EXCEPT ![t] = x]
  BY <1>2 DEF ThreadStart, ThreadStartFailing, ThreadStartFailed, FirstState, Become
<1>5. todo[t] = <<>>
  <2>1. t \in Traffic \/ t \in ListenerThread \/ t = Reporter
    BY DEF Thread
  <2> QED BY <1>3, <2>1 DEF ServeInv, Lists
<1>6. \A u \in Starter : todo[u] = <<>> => todo'[u] = <<>>
  BY <1>1, <1>3
<1>7. ASSUME NEW u \in Thread PROVE todo'[u] \in Seq(Traffic)
  <2>1. todo[u] \in Seq(Traffic)
    BY DEF ServeInv, Lists
  <2>2. u = s => Tail(todo[u]) \in Seq(Traffic)
    BY <1>1, <2>1, TailElements
  <2> QED BY <1>3, <2>1, <2>2, Kinds
<1>8. Lists'
  <2>1. \A u \in Thread : todo'[u] # <<>> => u # t /\ st'[u] = st[u] /\ todo[u] # <<>>
    BY <1>3, <1>4, <1>5, <1>6, Kinds
  <2>2. \A l \in ListenerThread : todo'[l] # <<>> => st'[l] = "starting"
    BY <2>1, Kinds DEF ServeInv, Lists
  <2>3. \A u \in Traffic : todo'[u] # <<>> => st'[u] \in {"starting", "gone"}
    BY <2>1, Kinds DEF ServeInv, Lists
  <2>4. todo'[Reporter] = <<>>
    BY <1>6, Kinds DEF ServeInv, Lists
  <2>5. \A u \in Thread : next'[u] # <<>> => u \in Traffic /\ next'[u] = <<ClientOf(u[2])>>
    BY <1>1 DEF ServeInv, Lists
  <2> QED BY <1>7, <2>2, <2>3, <2>4, <2>5 DEF Lists
<1>9. setup.role = "server" => ServerLists'
  <2> SUFFICES ASSUME setup.role = "server" PROVE ServerLists'
    OBVIOUS
  <2>1. ServerLists /\ ServerListeners' = ServerListeners
    BY <1>1 DEF ServeInv, ServerListeners
  <2>2. todo'[MainThread] \in Seq({Reporter} \cup ServerListeners)
    <3>1. todo[MainThread] \in Seq({Reporter} \cup ServerListeners) /\ MainThread \in Starter
      BY <2>1 DEF ServerLists, Starter
    <3>2. s = MainThread => Tail(todo[MainThread]) \in Seq({Reporter} \cup ServerListeners)
      BY <1>1, <3>1, TailElements
    <3> QED BY <1>3, <3>1, <3>2
  <2>3. t \in ListenerThread => t \in ServerListeners
    <3>1. CASE s = MainThread
      <4>1. t \in {Reporter} \cup ServerListeners
        BY <1>1, <1>2, <2>1, <3>1, TailElements DEF ServerLists
      <4> QED BY <4>1, Kinds
    <3>2. CASE s \in Thread
      <4>1. t \in Traffic
        BY <1>1, <1>2, <3>2, TailElements DEF ServeInv, Lists
      <4> QED BY <4>1, Kinds
    <3> QED BY <3>1, <3>2 DEF Starter
  <2>4. \A l \in ListenerThread : st'[l] # "none" => l \in ServerListeners
    BY <1>3, <1>4, <2>1, <2>3, Kinds DEF ServerLists
  <2>5. ASSUME NEW u \in Traffic, todo'[u] # <<>>
        PROVE  \E v \in Traffic : todo'[u] = <<v>> /\ next'[u] = <<v>>
    <3>1. todo[u] # <<>> /\ u \in Starter
      BY <1>6, <2>5, Kinds
    <3>2. PICK v \in Traffic : todo[u] = <<v>> /\ next[u] = <<v>>
      BY <2>1, <3>1 DEF ServerLists
    <3>3. Tail(todo[u]) = <<>>
      BY <3>2
    <3>4. todo'[u] = todo[u]
      BY <1>3, <2>5, <3>1, <3>3
    <3> QED BY <1>1, <3>2, <3>4
  <2> QED BY <2>1, <2>2, <2>4, <2>5 DEF ServerLists
<1> QED BY <1>8, <1>9

\* A thread that starts is the Listener's, or a runNext, or no traffic thread.
LEMMA StartServe ==
    ASSUME TypeOK, ServeInv, NEW s \in Starter,
           ThreadStart(s) \/ ThreadStartFailing(s) \/ ThreadStartFailed(s)
    PROVE  ServeInv'
<1>1. todo[s] # <<>> /\ UNCHANGED <<setup, next>>
  BY DEF ThreadStart, ThreadStartFailing, ThreadStartFailed
<1>2. Lists' /\ (setup.role = "server" => ServerLists')
  BY StartLists
<1>3. Serving => OneTest'
  <2> SUFFICES ASSUME Serving PROVE OneTest'
    OBVIOUS
  <2>1. Lists /\ ServerLists /\ OneTest
    BY DEF ServeInv, Serving
  <2>2. PICK t \in Thread : t = Head(todo[s])
    BY <1>1, ListType
  <2>3. /\ st[t] \in {"none", "counted"} /\ DOMAIN st = Thread /\ DOMAIN todo = Starter
        /\ todo' = todo \/ todo' = [todo EXCEPT ![s] = Tail(@)]
    BY <2>2 DEF ThreadStart, ThreadStartFailing, ThreadStartFailed, TypeOK
  <2>4. PICK x \in {"running", "traffic", "counted", "failed"} : st' = [st EXCEPT ![t] = x]
    BY <2>2 DEF ThreadStart, ThreadStartFailing, ThreadStartFailed, FirstState, Become
  <2>5. Pending' \subseteq Pending
    <3> SUFFICES ASSUME NEW u \in Pending' PROVE u \in Pending
      OBVIOUS
    <3>1. PICK l \in ListenerThread : \E k \in 1 .. Len(todo'[l]) : todo'[l][k] = u
      BY DEF Pending
    <3>2. u \in Traffic /\ l \in Starter
      BY Kinds DEF Pending
    <3>3. todo'[l] = todo[l] \/ (l = s /\ todo'[l] = Tail(todo[l]))
      BY <2>3, <3>2
    <3>4. todo[l] \in Seq(Traffic)
      BY <2>1, Kinds DEF Lists
    <3>5. \E i \in 1 .. Len(todo[l]) : todo[l][i] = u
      <4>1. CASE todo'[l] = todo[l]
        BY <3>1, <4>1
      <4>2. CASE l = s /\ todo'[l] = Tail(todo[l])
        <5>1. \A i \in 1 .. Len(Tail(todo[l])) : \E k \in 1 .. Len(todo[l]) : todo[l][k] = Tail(todo[l])[i]
          BY <1>1, <3>4, <4>2, TailElements
        <5> QED BY <3>1, <4>2, <5>1
      <4> QED BY <3>3, <4>1, <4>2
    <3> QED BY <3>2, <3>5 DEF Pending
  <2>6. Own' \subseteq Own \cup ({t} \cap Traffic)
    BY <1>1, <2>3, <2>4, Kinds DEF Own, Counted
  <2>7. \A l \in ListenerThread : st'[l] = "accepting" => st[l] = "accepting"
    BY <2>3, <2>4, Kinds
  <2>8. CASE s = MainThread
    <3>1. t \notin Traffic
      <4>1. t \in {Reporter} \cup ServerListeners
        BY <1>1, <2>1, <2>2, <2>8, TailElements DEF ServerLists
      <4>2. ServerListeners \subseteq ListenerThread
        BY ThreadAssumption DEF ServerListeners, ListenerThread, TypeOK, Setup
      <4> QED BY <4>1, <4>2, Kinds
    <3> QED BY <2>1, <2>5, <2>6, <2>7, <3>1, OneTestKept
  <2>9. CASE s \in ListenerThread
    <3>1. st[s] = "starting" /\ todo[s] \in Seq(Traffic)
      BY <1>1, <2>1, <2>9, Kinds DEF Lists
    <3>2. \A l \in ListenerThread : st[l] # "accepting"
      BY <2>1, <2>9, <3>1, OneListener
    <3>3. t \in Pending
      BY <1>1, <2>2, <2>9, <3>1, TailElements DEF Pending
    <3>4. Own' \cup Pending' \subseteq Own \cup Pending
      BY <2>5, <2>6, <3>3
    <3> QED BY <2>1, <2>7, <3>2, <3>4 DEF OneTest
  <2>10. CASE s \in Traffic
    <3>1. PICK v \in Traffic : todo[s] = <<v>> /\ next[s] = <<v>>
      BY <1>1, <2>1, <2>10 DEF ServerLists
    <3>2. t = v /\ s \in Thread
      BY <2>2, <2>10, <3>1, Kinds
    <3>3. t \notin Own'
      BY <1>1, <3>1, <3>2 DEF Own
    <3>4. Own' \subseteq Own
      BY <2>6, <3>3
    <3> QED BY <2>1, <2>5, <2>7, <3>4, OneTestKept
  <2>11. s # Reporter
    BY <1>1, <2>1 DEF Lists
  <2> QED BY <2>8, <2>9, <2>10, <2>11 DEF Starter, Thread
<1>4. Serving' = Serving /\ setup' = setup
  BY <1>1 DEF Serving
<1> QED BY <1>2, <1>3, <1>4 DEF ServeInv

\* The end of a thread: it leaves its runNext, a Listener has none.
LEMMA EndServe ==
    ASSUME TypeOK, ServeInv, NEW t \in Thread,
           ThreadExit(t) \/ (ThreadStop(t) /\ st[t] \in {"traffic", "loop", "accepting"})
    PROVE  ServeInv'
<1>1. UNCHANGED <<setup, next>> /\ DOMAIN st = Thread /\ DOMAIN todo = Starter /\ t \in Starter
  BY Kinds DEF ThreadExit, ThreadStop, TypeOK
<1>2. /\ st[t] \in {"left", "traffic", "loop", "accepting"}
      /\ \/ st' = [st EXCEPT ![t] = "gone"] /\ todo' = [todo EXCEPT ![t] = next[t]]
         \/ st' = [st EXCEPT ![t] = "stopped"] /\ todo' = todo
  BY DEF ThreadExit, ThreadStop, Become
<1>3. todo[t] = <<>>
  BY <1>2 DEF ServeInv, Lists, Thread
<1>4. ASSUME NEW u \in Thread, u # t PROVE st'[u] = st[u] /\ todo'[u] = todo[u]
  BY <1>1, <1>2, <1>4, Kinds
<1>5. /\ st'[t] \in {"gone", "stopped"} /\ todo'[t] \in Seq(Traffic)
      /\ todo'[t] # <<>> => t \in Traffic /\ st'[t] = "gone" /\ todo'[t] = next[t]
  <2>1. next[t] \in Seq(Traffic) /\ (t \notin Traffic => next[t] = <<>>)
    BY DEF TypeOK, ServeInv, Lists
  <2> QED BY <1>1, <1>2, <1>3, <2>1, EmptySeq
<1>6. Lists'
  <2>1. \A u \in Thread : todo'[u] \in Seq(Traffic)
    BY <1>4, <1>5 DEF ServeInv, Lists
  <2>2. todo'[Reporter] = <<>>
    BY <1>4, <1>5, Kinds DEF ServeInv, Lists
  <2>3. \A l \in ListenerThread : todo'[l] # <<>> => st'[l] = "starting"
    BY <1>4, <1>5, Kinds DEF ServeInv, Lists
  <2>4. \A u \in Traffic : todo'[u] # <<>> => st'[u] \in {"starting", "gone"}
    BY <1>4, <1>5, Kinds DEF ServeInv, Lists
  <2> QED BY <1>1, <2>1, <2>2, <2>3, <2>4 DEF ServeInv, Lists
<1>7. setup.role = "server" => ServerLists'
  <2> SUFFICES ASSUME setup.role = "server" PROVE ServerLists'
    OBVIOUS
  <2>1. /\ ServerLists /\ ServerListeners' = ServerListeners
        /\ MainThread \in Starter /\ MainThread # t
    BY <1>1, Kinds DEF ServeInv, ServerListeners, Starter
  <2>2. todo'[MainThread] = todo[MainThread]
    BY <1>1, <1>2, <2>1
  <2>3. \A l \in ListenerThread : st'[l] # "none" => l \in ServerListeners
    BY <1>2, <1>4, <2>1, Kinds DEF ServerLists
  <2>4. ASSUME NEW u \in Traffic, todo'[u] # <<>>
        PROVE  \E v \in Traffic : todo'[u] = <<v>> /\ next'[u] = <<v>>
    <3>1. CASE u = t
      BY <1>1, <1>5, <2>4, <3>1, Kinds DEF ServeInv, Lists
    <3>2. CASE u # t
      BY <1>1, <1>4, <2>1, <2>4, <3>2, Kinds DEF ServerLists
    <3> QED BY <3>1, <3>2
  <2> QED BY <2>1, <2>2, <2>3, <2>4 DEF ServerLists
<1>8. Serving => OneTest'
  <2>1. Own' \subseteq Own
    BY <1>1, <1>2, <1>4, <1>5, OwnKept, Kinds DEF Uncounted
  <2>2. Pending' \subseteq Pending
    BY <1>4, <1>5, PendingKept, Kinds
  <2>3. \A l \in ListenerThread : st'[l] = "accepting" => st[l] = "accepting"
    BY <1>4, <1>5, Kinds
  <2> QED BY <2>1, <2>2, <2>3, OneTestKept DEF ServeInv
<1>9. Serving' = Serving /\ setup' = setup
  BY <1>1 DEF Serving
<1> QED BY <1>6, <1>7, <1>8, <1>9 DEF ServeInv

\* A step that moves threads that have nothing to start, and changes no list.
LEMMA MoveServe ==
    ASSUME TypeOK, ServeInv, UNCHANGED <<setup, todo, next>>,
           \A t \in Thread : st'[t] = st[t] \/ todo[t] = <<>>,
           \A t \in Thread : st[t] \in Uncounted => st'[t] = st[t],
           \A l \in ListenerThread : /\ st'[l] = "accepting" /\ Serving => Own = {}
                                     /\ st'[l] = "none" <=> st[l] = "none"
    PROVE  ServeInv'
<1>1. Lists'
  BY Kinds DEF ServeInv, Lists
<1>2. setup.role = "server" => ServerLists'
  BY DEF ServeInv, ServerLists, ServerListeners
<1>3. Own' \subseteq Own /\ Pending' \subseteq Pending
  BY OwnKept, PendingKept, Kinds DEF Uncounted
<1>4. Serving => OneTest'
  BY <1>3 DEF ServeInv, OneTest
<1>5. Serving' = Serving /\ setup' = setup
  BY DEF Serving
<1> QED BY <1>1, <1>2, <1>4, <1>5 DEF ServeInv

\* The Listener's loop: with -1 it accepts when thread_trfc_sNum is zero, and the
\* count is exact.
LEMMA ListenerServe ==
    ASSUME CountInv, ServeInv, NEW l \in ListenerThread,
           \/ Register(l) \/ ListenerLoop(l) \/ ListenerTimeout(l)
           \/ ListenerStarted(l) \/ Unregister(l) \/ AcceptReject(l)
    PROVE  ServeInv'
<1>1. TypeOK /\ l \in Thread /\ UNCHANGED <<setup, todo, next>> /\ DOMAIN st = Thread
  BY Kinds DEF Register, ListenerLoop, ListenerTimeout, ListenerStarted, Unregister, AcceptReject,
               CountInv, TypeOK
<1>2. PICK x \in InLoop \cup {"left"} : /\ st' = [st EXCEPT ![l] = x]
                                        /\ x = "accepting" => ListenerLoop(l)
  BY DEF Register, ListenerLoop, ListenerTimeout, ListenerStarted, Unregister, AcceptReject,
         InLoop, Become
<1>3. todo[l] = <<>> /\ st[l] \in InLoop \cup {"running"}
  BY DEF Register, ListenerLoop, ListenerTimeout, ListenerStarted, Unregister, AcceptReject,
         InLoop, ServeInv, Lists
<1>4. \A t \in Thread : st'[t] = st[t] \/ todo[t] = <<>>
  BY <1>1, <1>2, <1>3
<1>5. \A t \in Thread : st[t] \in Uncounted => st'[t] = st[t]
  BY <1>1, <1>2, <1>3 DEF Uncounted, InLoop
<1>6. \A k \in ListenerThread : st'[k] = "none" <=> st[k] = "none"
  BY <1>1, <1>2, <1>3, Kinds DEF InLoop
<1>7. ASSUME NEW k \in ListenerThread, st'[k] = "accepting", Serving PROVE Own = {}
  <2>1. CASE k # l
    BY <1>1, <1>2, <1>7, <2>1, Kinds DEF ServeInv, OneTest
  <2>2. CASE k = l
    <3>1. ListenerLoop(l) /\ st'[l] = "accepting"
      BY <1>1, <1>2, <1>7, <2>2
    <3>2. ~SingleClientBusy
      BY <1>1, <3>1 DEF ListenerLoop, Become
    <3>3. ~(trfcNum > 0) /\ trfcNum = Cardinality(Counted \cap Traffic)
      BY <1>7, <3>2 DEF SingleClientBusy, Serving, CountInv, CountsExact
    <3>4. Cardinality(Counted \cap Traffic) = 0
      BY <3>3, CountedType
    <3>5. Counted \cap Traffic = {}
      BY <3>4, CountedType, NoThread
    <3> QED BY <3>5 DEF Own
  <2> QED BY <2>1, <2>2
<1> QED BY <1>1, <1>4, <1>5, <1>6, <1>7, MoveServe

\* An accepted test: there is no own traffic and nothing pending, so that the new
\* threads, all of one test, are alone.
LEMMA AcceptServe ==
    ASSUME TypeOK, ServeInv, NEW l \in ListenerThread, NEW i \in Tests, AcceptTest(l, i)
    PROVE  ServeInv'
<1>1. PICK S \in Traffic, C \in Traffic : S = ServerOf(i) /\ C = ClientOf(i)
  BY Kinds
<1>2. l \in Thread /\ l \in Starter /\ l \notin Traffic /\ S \in Thread /\ S \in Starter /\ S # l
  BY Kinds
<1>3. /\ st[l] = "accepting" /\ st' = [st EXCEPT ![l] = "starting"] /\ DOMAIN st = Thread
      /\ DOMAIN todo = Starter /\ DOMAIN next = Thread /\ setup' = setup
  BY DEF AcceptTest, Become, TypeOK
<1>4. st[S] = "none" /\ todo[S] = <<>>
  <2>1. st[S] = "none"
    BY <1>1 DEF AcceptTest, Free
  <2> QED BY <2>1 DEF ServeInv, Lists
<1>5. PICK q \in {<<S>>, <<C>>, <<S, C>>} : todo' = [todo EXCEPT ![l] = q]
  BY <1>1 DEF AcceptTest
<1>6. next' = next \/ next' = [next EXCEPT ![S] = <<C>>]
  BY <1>1 DEF AcceptTest
<1>7. q \in Seq(Traffic) /\ \A k \in 1 .. Len(q) : q[k] \in {S, C}
  <2>1. CASE q = <<S>>
    BY <2>1
  <2>2. CASE q = <<C>>
    BY <2>2
  <2>3. CASE q = <<S, C>>
    BY <2>3
  <2> QED BY <1>5, <2>1, <2>2, <2>3
<1>8. todo'[l] = q /\ \A u \in Starter \ {l} : todo'[u] = todo[u]
  BY <1>2, <1>3, <1>5
<1>9. st'[l] = "starting" /\ \A u \in Thread \ {l} : st'[u] = st[u]
  BY <1>2, <1>3
<1>10. \A u \in Thread : next'[u] = next[u] \/ (u = S /\ next'[u] = <<C>>)
  BY <1>2, <1>3, <1>6
<1>11. Lists'
  <2>1. \A u \in Thread : todo'[u] \in Seq(Traffic)
    BY <1>7, <1>8, Kinds DEF ServeInv, Lists
  <2>2. todo'[Reporter] = <<>>
    BY <1>8, Kinds DEF ServeInv, Lists
  <2>3. \A k \in ListenerThread : todo'[k] # <<>> => st'[k] = "starting"
    BY <1>8, <1>9, Kinds DEF ServeInv, Lists
  <2>4. \A u \in Traffic : todo'[u] # <<>> => st'[u] \in {"starting", "gone"}
    BY <1>2, <1>8, <1>9, Kinds DEF ServeInv, Lists
  <2>5. \A u \in Thread : next'[u] # <<>> => u \in Traffic /\ next'[u] = <<ClientOf(u[2])>>
    BY <1>1, <1>10 DEF ServeInv, Lists, ServerOf
  <2> QED BY <2>1, <2>2, <2>3, <2>4, <2>5 DEF Lists
<1>12. setup.role = "server" => ServerLists'
  <2> SUFFICES ASSUME setup.role = "server" PROVE ServerLists'
    OBVIOUS
  <2>1. ServerLists /\ ServerListeners' = ServerListeners /\ MainThread \in Starter \ {l}
    BY <1>2, <1>3, Kinds DEF ServeInv, ServerListeners, Starter
  <2>2. todo'[MainThread] = todo[MainThread]
    BY <1>8, <2>1
  <2>3. \A k \in ListenerThread : st'[k] # "none" => k \in ServerListeners
    BY <1>3, <1>9, <2>1, Kinds DEF ServerLists
  <2>4. ASSUME NEW u \in Traffic, todo'[u] # <<>>
        PROVE  \E v \in Traffic : todo'[u] = <<v>> /\ next'[u] = <<v>>
    <3>1. u \in Thread /\ u \in Starter \ {l} /\ todo'[u] = todo[u]
      BY <1>2, <1>8, Kinds
    <3>2. u # S /\ next'[u] = next[u]
      BY <1>4, <1>10, <2>4, <3>1
    <3> QED BY <2>1, <2>4, <3>1, <3>2 DEF ServerLists
  <2> QED BY <2>1, <2>2, <2>3, <2>4 DEF ServerLists
<1>13. Serving => OneTest'
  <2> SUFFICES ASSUME Serving PROVE OneTest'
    OBVIOUS
  <2>1. Lists /\ ServerLists /\ OneTest
    BY DEF ServeInv, Serving
  <2>2. Own = {}
    BY <1>3, <2>1 DEF OneTest
  <2>3. Own' \subseteq Own
    <3> SUFFICES ASSUME NEW t \in Own' PROVE t \in Own
      OBVIOUS
    <3>1. t \in Traffic /\ t \in Thread /\ t # l /\ st'[t] \notin Uncounted
      BY <1>2, Kinds DEF Own, Counted, Uncounted
    <3>2. t \in Counted
      BY <1>9, <3>1 DEF Counted, Uncounted
    <3>3. ASSUME NEW u \in Thread PROVE next[u] # <<t>>
      <4>1. next'[u] # <<t>>
        BY DEF Own
      <4>2. next[u] # <<>> => next[u] = <<ClientOf(u[2])>>
        BY DEF ServeInv, Lists
      <4>3. u = S => ClientOf(u[2]) = C
        BY <1>1 DEF ServerOf
      <4> QED BY <1>10, <4>1, <4>2, <4>3
    <3> QED BY <3>1, <3>2, <3>3 DEF Own
  <2>4. ASSUME NEW t \in Pending' PROVE t \in {S, C}
    <3>1. PICK k \in ListenerThread : \E j \in 1 .. Len(todo'[k]) : todo'[k][j] = t
      BY DEF Pending
    <3>2. CASE k = l
      BY <1>7, <1>8, <3>1, <3>2
    <3>3. CASE k # l
      <4>1. todo'[k] = todo[k] /\ todo[k] # <<>>
        BY <1>8, <3>1, <3>3, Kinds, EmptySeq
      <4>2. st[k] = "starting"
        BY <2>1, <4>1 DEF Lists
      <4> QED BY <1>3, <2>1, <3>3, <4>2, OneListener
    <3> QED BY <3>2, <3>3
  <2>5. \A t \in Own' \cup Pending' : t[2] = i
    BY <1>1, <2>2, <2>3, <2>4 DEF ServerOf, ClientOf
  <2> QED BY <2>2, <2>3, <2>5 DEF OneTest
<1>14. Serving' = Serving
  BY <1>3 DEF Serving
<1> QED BY <1>3, <1>11, <1>12, <1>13, <1>14 DEF ServeInv

\* A traffic thread that connects, waits, takes its role or ends.
LEMMA TrafficServe ==
    ASSUME TypeOK, ServeInv, NEW t \in Traffic,
           \/ Connect(t) \/ BarrierEnter(t) \/ BarrierSpurious(t)
           \/ ClientRole(t) \/ ClientStarted(t) \/ TrafficEnd(t) \/ TrafficNotBegun(t)
    PROVE  ServeInv'
<1>1. t \in Thread /\ t \in Starter /\ t \notin ListenerThread /\ t # MainThread /\ t # Reporter
      /\ DOMAIN st = Thread /\ DOMAIN todo = Starter
  BY Kinds DEF TypeOK
<1>2. UNCHANGED <<setup, next>> /\ todo[t] = <<>>
  BY DEF Connect, BarrierEnter, BarrierSpurious, ClientRole, ClientStarted, TrafficEnd,
         TrafficNotBegun, ServeInv, Lists
<1>3. st[t] \in {"running", "connected", "barrier", "go", "starting", "traffic"}
  BY DEF Connect, BarrierEnter, BarrierSpurious, ClientRole, ClientStarted, TrafficEnd,
         TrafficNotBegun
<1>4. st'[t] \in {"connected", "barrier", "go", "starting", "traffic", "left"}
      /\ \A u \in Thread \ {t} : st'[u] = st[u] \/ (st[u] = "barrier" /\ st'[u] = "go")
  <2>1. CASE BarrierEnter(t) /\ BarrierOpens
    BY <1>1, <2>1 DEF BarrierEnter
  <2>2. CASE ~(BarrierEnter(t) /\ BarrierOpens)
    <3>1. PICK x \in {"connected", "go", "barrier", "left", "traffic", "starting"} : Become(t, x)
      BY <2>2 DEF Connect, BarrierEnter, BarrierSpurious, ClientRole, ClientStarted, TrafficEnd,
             TrafficNotBegun
    <3> QED BY <1>1, <3>1 DEF Become
  <2> QED BY <2>1, <2>2
<1>5. CASE todo' = todo
  <2>1. \A u \in Thread : st'[u] = st[u] \/ todo[u] = <<>>
    <3>1. \A u \in Thread : st[u] = "barrier" => todo[u] = <<>>
      BY Kinds DEF ServeInv, Lists, Thread
    <3> QED BY <1>2, <1>4, <3>1
  <2>2. \A u \in Thread : st[u] \in Uncounted => st'[u] = st[u]
    BY <1>3, <1>4 DEF Uncounted
  <2>3. \A l \in ListenerThread : /\ st'[l] = "accepting" /\ Serving => Own = {}
                                  /\ st'[l] = "none" <=> st[l] = "none"
    BY <1>1, <1>4, Kinds DEF ServeInv, OneTest
  <2> QED BY <1>2, <1>5, <2>1, <2>2, <2>3, MoveServe
<1>6. CASE todo' # todo
  <2>1. /\ ClientRole(t) /\ setup.role # "server" /\ st' = [st EXCEPT ![t] = "starting"]
        /\ todo' = [todo EXCEPT ![t] = <<ServerOf(t[2])>>]
    BY <1>6 DEF Connect, BarrierEnter, BarrierSpurious, ClientRole, ClientStarted, TrafficEnd,
                TrafficNotBegun, Become
  <2>2. <<ServerOf(t[2])>> \in Seq(Traffic)
    BY Kinds
  <2>3. Lists'
    BY <1>1, <1>2, <2>1, <2>2, Kinds DEF ServeInv, Lists
  <2> QED BY <1>2, <2>1, <2>3 DEF ServeInv, Serving
<1> QED BY <1>5, <1>6

\* Steps of main, of the reporter and of signals keep the lists.
LEMMA MainServe ==
    ASSUME TypeOK, ServeInv,
           \/ StartedAll \/ JoinAll \/ ReporterReady \/ ReporterLeave
           \/ \E sig, h : Signal(sig, h)
           \/ UNCHANGED vars
    PROVE  ServeInv'
<1>1. /\ UNCHANGED <<setup, todo, next>> /\ DOMAIN st = Thread
      /\ st' = st \/ (st[Reporter] = "running" /\ st' = [st EXCEPT ![Reporter] = "left"])
  BY DEF StartedAll, JoinAll, ReporterReady, ReporterLeave, Signal, vars, Become, TypeOK
<1>2. \A t \in Thread : st'[t] = st[t] \/ todo[t] = <<>>
  BY <1>1 DEF ServeInv, Lists
<1>3. \A t \in Thread : st[t] \in Uncounted => st'[t] = st[t]
  BY <1>1 DEF Uncounted
<1>4. \A l \in ListenerThread : st'[l] = st[l]
  BY <1>1, Kinds
<1>5. \A l \in ListenerThread : st'[l] = "accepting" /\ Serving => Own = {}
  BY <1>4 DEF ServeInv, OneTest
<1> QED BY <1>1, <1>2, <1>3, <1>4, <1>5, MoveServe

\* Every step keeps the lists, and the threads of one test.
LEMMA StepServe == ASSUME CountInv, ServeInv, [Next]_vars PROVE ServeInv'
<1>1. TypeOK
  BY DEF CountInv
<1>2. CASE Step
  BY <1>1, <1>2, StartServe, EndServe, MainServe, ListenerServe, TrafficServe DEF Step
<1>3. CASE Environment
  <2>1. ASSUME NEW t \in Traffic, TrafficFails(t) PROVE ServeInv'
    BY <1>1, <2>1, EndServe, Kinds DEF TrafficFails
  <2>2. ASSUME NEW l \in ListenerThread, ListenFails(l) \/ AcceptFails(l) PROVE ServeInv'
    BY <1>1, <2>2, EndServe, Kinds DEF ListenFails, AcceptFails
  <2> QED BY <1>1, <1>3, <2>1, <2>2, StartServe, MainServe, ListenerServe, AcceptServe,
             TrafficServe DEF Environment
<1> QED BY <1>1, <1>2, <1>3, MainServe DEF Next

\* Traffic starts in order, for any -P and any number of tests: no client is past the
\* barrier before -P clients have tried to connect (Client::BarrierClient), and with
\* -1 on one port the own traffic threads of a server are of one test (Listener::Run).
THEOREM StartsInOrderAlways == Spec => []StartsInOrder
<1>1. Init => BarrierInv /\ ServeInv
  BY InitBarrier, InitServe
<1>2. CountInv /\ BarrierInv /\ ServeInv /\ [Next]_vars => BarrierInv' /\ ServeInv'
  BY StepBarrier, StepServe DEF CountInv
<1>3. CountInv /\ BarrierInv /\ ServeInv => StartsInOrder
  <2> SUFFICES ASSUME CountInv, BarrierInv, ServeInv PROVE StartsInOrder
    OBVIOUS
  <2>1. TrafficAfterConnects
    BY BarrierCount DEF CountInv, BarrierInv, TrafficAfterConnects
  <2>2. OneClientAtATime
    BY DEF ServeInv, Serving, OneTest, Own, OneClientAtATime
  <2> QED BY <2>1, <2>2 DEF StartsInOrder
<1> QED BY <1>1, <1>2, <1>3, CountInvariant, PTL DEF Spec
=============================================================================
