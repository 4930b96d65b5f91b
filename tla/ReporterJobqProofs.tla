------------------------- MODULE ReporterJobqProofs -------------------------
(***************************************************************************)
(* Proofs about ReporterJobq for any number of traffic threads and any     *)
(* length of the rings: the job queue is one list of live reports, and the *)
(* reporter leaves last.                                                   *)
(***************************************************************************)
EXTENDS ReporterJobq, FiniteSetTheorems, SequenceTheorems, TLAPS

\* Where a thread is when a report of a kind can be in the queue.
Finished == {"relayed", "exit", "starting", "gone"}
AfterEndJob == Finished \cup {"ended"}
AfterTraffic == AfterEndJob \cup {"endjob"}
After(kind) ==
    IF kind = "relay" THEN Finished
    ELSE IF kind = "data" THEN AfterTraffic \cup {"traffic"}
    ELSE AfterTraffic \cup {"traffic", "connected"}

Posted ==
    /\ \A i \in DOMAIN pending : thread[pending[i].of] \in After(pending[i].kind)
    /\ \A i \in DOMAIN root : thread[root[i].of] \in After(root[i].kind)

\* The two lists together have no report twice.
Distinct ==
    /\ IsInjective(pending) /\ IsInjective(root)
    /\ \A i \in DOMAIN pending, j \in DOMAIN root : pending[i] # root[j]

\* A data report whose final packet was handled is out of both lists, or about to
\* be unlinked where work_item points,
Handled ==
    \A t \in consumerdone :
        /\ \A i \in DOMAIN pending : pending[i] # Data(t)
        /\ \A i \in DOMAIN root : root[i] = Data(t) => rpc = "unlink" /\ i = pos

\* and EndJob lets its thread go on, and free it, only then.
Waited ==
    /\ \A t \in final : thread[t] \in AfterTraffic
    /\ \A t \in Thread : thread[t] \in AfterEndJob => t \in consumerdone
    /\ \A t \in Thread : Data(t) \in freed => thread[t] \in {"exit", "starting", "gone"}

\* work_item points into the list while it is walked, and the reporter looks at
\* the thread count with the list empty.
Walking ==
    /\ rpc \in {"walk", "unlink"} => pos \in 1 .. Len(root)
    /\ rpc \in {"wait", "exitcheck", "leaving", "gone"} => root = <<>>

\* thread_sNum has the threads that run and the reporter; a thread that has still
\* to start its runNext is not counted.
Alive == {t \in Thread : thread[t] \notin {"unborn", "starting", "gone"}}
Counts == sNum = Cardinality(Alive) + IF rpc = "gone" THEN 0 ELSE 1

\* A runNext thread is born when the thread before it is gone.
Chains ==
    \A t \in Thread :
        /\ t \notin Chained => thread[t] # "unborn"
        /\ RunNext[t] # NoThread => (thread[RunNext[t]] = "unborn" <=> thread[t] # "gone")
        /\ RunNext[t] = NoThread => thread[t] # "starting"

LeftLast == rpc \in {"leaving", "gone"} /\ ~handover => \A t \in Thread : thread[t] = "gone"

QueueInv == TypeOK /\ Posted /\ Distinct /\ Handled /\ Waited /\ Walking
JobqInv == QueueInv /\ Counts /\ Chains /\ LeftLast

-----------------------------------------------------------------------------
\* Sequences: what PostReport, reporter_jobq_set_root and the unlinking make.
LEMMA AppendElements ==
    ASSUME NEW S, NEW q \in Seq(S), NEW r \in S
    PROVE  /\ Append(q, r) \in Seq(S)
           /\ DOMAIN Append(q, r) = 1 .. Len(q) + 1 /\ DOMAIN q = 1 .. Len(q) /\ Len(q) \in Nat
           /\ \A i \in 1 .. Len(q) : Append(q, r)[i] = q[i]
           /\ Append(q, r)[Len(q) + 1] = r
  OBVIOUS

\* The elements of two lists, one behind the other.
LEMMA ConcatElements ==
    ASSUME NEW S, NEW p \in Seq(S), NEW q \in Seq(S)
    PROVE  /\ p \o q \in Seq(S)
           /\ DOMAIN (p \o q) = 1 .. Len(p) + Len(q)
           /\ DOMAIN p = 1 .. Len(p) /\ DOMAIN q = 1 .. Len(q) /\ Len(p) \in Nat /\ Len(q) \in Nat
           /\ \A i \in 1 .. Len(p) : (p \o q)[i] = p[i]
           /\ \A i \in Len(p) + 1 .. Len(p) + Len(q) : (p \o q)[i] = q[i - Len(p)]
  OBVIOUS

\* Two lists without a common element make one without a repeated one.
LEMMA ConcatInjective ==
    ASSUME NEW S, NEW p \in Seq(S), NEW q \in Seq(S), IsInjective(p), IsInjective(q),
           \A i \in DOMAIN p, j \in DOMAIN q : p[i] # q[j]
    PROVE  IsInjective(p \o q)
<1> SUFFICES ASSUME NEW a \in DOMAIN (p \o q), NEW b \in DOMAIN (p \o q), (p \o q)[a] = (p \o q)[b]
             PROVE  a = b
  BY DEF IsInjective
<1>1. ASSUME NEW i \in DOMAIN (p \o q)
      PROVE  \/ i \in DOMAIN p /\ (p \o q)[i] = p[i]
             \/ i - Len(p) \in DOMAIN q /\ (p \o q)[i] = q[i - Len(p)]
  BY ConcatElements
<1>2. a \in Int /\ b \in Int /\ Len(p) \in Int
  BY ConcatElements
<1> QED BY <1>1, <1>2 DEF IsInjective

\* The elements of a list of which one was taken out.
LEMMA RemoveElements ==
    ASSUME NEW S, NEW q \in Seq(S), NEW k \in 1 .. Len(q)
    PROVE  /\ RemoveAt(q, k) \in Seq(S)
           /\ DOMAIN RemoveAt(q, k) = 1 .. Len(q) - 1 /\ Len(RemoveAt(q, k)) = Len(q) - 1
           /\ DOMAIN q = 1 .. Len(q) /\ Len(q) \in Nat
           /\ \A i \in 1 .. Len(q) - 1 : RemoveAt(q, k)[i] = IF i < k THEN q[i] ELSE q[i + 1]
<1> DEFINE a == SubSeq(q, 1, k - 1)
           b == SubSeq(q, k + 1, Len(q))
<1>1. Len(q) \in Nat /\ k \in Nat /\ k - 1 \in 0 .. Len(q)
  OBVIOUS
<1>2. a \in Seq(S) /\ Len(a) = k - 1 /\ \A i \in 1 .. k - 1 : a[i] = q[i]
  BY <1>1
<1>3. b \in Seq(S) /\ Len(b) = Len(q) - k /\ \A i \in 1 .. Len(q) - k : b[i] = q[i + k]
  BY <1>1
<1>4. RemoveAt(q, k) = a \o b
  BY DEF RemoveAt
<1> HIDE DEF a, b
<1>5. /\ a \o b \in Seq(S) /\ DOMAIN (a \o b) = 1 .. Len(a) + Len(b)
      /\ Len(a \o b) = Len(a) + Len(b)
      /\ \A i \in 1 .. Len(a) : (a \o b)[i] = a[i]
      /\ \A i \in Len(a) + 1 .. Len(a) + Len(b) : (a \o b)[i] = b[i - Len(a)]
  <2>1. Len(a \o b) = Len(a) + Len(b)
    BY <1>2, <1>3, ConcatProperties
  <2> QED BY <1>2, <1>3, <2>1, ConcatElements
<1>6. ASSUME NEW i \in 1 .. Len(q) - 1 PROVE (a \o b)[i] = IF i < k THEN q[i] ELSE q[i + 1]
  <2>1. CASE i < k
    BY <1>1, <1>2, <1>5, <2>1
  <2>2. CASE ~(i < k)
    <3>1. i \in Len(a) + 1 .. Len(a) + Len(b) /\ i - Len(a) \in 1 .. Len(q) - k
      BY <1>1, <1>2, <1>3, <2>2
    <3>2. (a \o b)[i] = q[i - Len(a) + k]
      BY <1>3, <1>5, <3>1
    <3> QED BY <1>1, <1>2, <2>2, <3>2
  <2> QED BY <2>1, <2>2
<1>7. Len(a) + Len(b) = Len(q) - 1
  BY <1>1, <1>2, <1>3
<1> QED BY <1>1, <1>4, <1>5, <1>6, <1>7

-----------------------------------------------------------------------------
\* There are finitely many threads to count.
LEMMA ThreadFinite ==
    ASSUME NEW S \in SUBSET Thread
    PROVE  IsFiniteSet(S) /\ Cardinality(S) \in 0 .. Cardinality(Thread) /\ Cardinality(Thread) \in Nat
<1>1. IsFiniteSet(S) /\ Cardinality(S) <= Cardinality(Thread)
  BY FS_Subset, JobqAssumption
<1> QED BY <1>1, FS_CardinalityType, JobqAssumption

\* The reports are told apart by their kinds and threads.
LEMMA ReportKinds ==
    /\ \A t \in Thread : Data(t) \in Report /\ Data(t).kind = "data" /\ Data(t).of = t
    /\ \A t \in Thread : [kind |-> "connection", of |-> t] \in Report
    /\ \A t \in Thread : [kind |-> "relay", of |-> t] \in Report
    /\ \A r \in Report : r.of \in Thread /\ (r.kind = "data" => r = Data(r.of))
  BY DEF Data, Report

\* The reports in the two lists, for a list that is typed.
LEMMA ListTypes ==
    ASSUME TypeOK
    PROVE  /\ DOMAIN pending = 1 .. Len(pending) /\ Len(pending) \in Nat
           /\ DOMAIN root = 1 .. Len(root) /\ Len(root) \in Nat
           /\ \A i \in DOMAIN pending : pending[i] \in Report
           /\ \A i \in DOMAIN root : root[i] \in Report
  BY DEF TypeOK

\* Before anything is posted.
LEMMA InitJobq == ASSUME Init PROVE JobqInv
<1>1. Alive = Thread \ Chained /\ Thread \ Chained \in SUBSET Thread
  BY DEF Init, Alive
<1>2. sNum = Cardinality(Alive) + 1 /\ sNum \in 0 .. 1 + Cardinality(Thread)
  BY <1>1, ThreadFinite DEF Init
<1>3. DOMAIN pending = {} /\ DOMAIN root = {} /\ pending \in Seq(Report) /\ root \in Seq(Report)
  BY DEF Init
<1>4. TypeOK
  <2>1. mainGone \in BOOLEAN /\ handover \in BOOLEAN
    BY DEF Init
  <2>2. backlog \in [Thread -> 0 .. MaxBacklog]
    BY JobqAssumption DEF Init
  <2>3. /\ thread \in [Thread -> {"unborn", "run", "connected", "traffic", "endjob",
                                "ended", "relayed", "exit", "starting", "gone"}]
        /\ rpc = "setroot" /\ pos \in Nat \ {0}
    BY DEF Init
  <2>4. final = {} /\ consumerdone = {} /\ freed = {}
    BY DEF Init
  <2> QED BY <1>2, <1>3, <2>1, <2>2, <2>3, <2>4 DEF TypeOK
<1>5. Posted /\ Distinct /\ Handled /\ Walking
  BY <1>3 DEF Init, Posted, Distinct, Handled, Walking, IsInjective
<1>6. Waited
  BY DEF Init, Waited, AfterEndJob, AfterTraffic, Finished
<1>7. Counts
  BY <1>2 DEF Init, Counts
<1>8. Chains
  <2>1. ASSUME NEW t \in Thread, RunNext[t] # NoThread
        PROVE  RunNext[t] \in Thread /\ RunNext[t] \in Chained /\ t \notin Chained
    BY <2>1, JobqAssumption DEF Chained
  <2> QED BY <2>1 DEF Init, Chains
<1>9. LeftLast
  BY DEF Init, LeftLast
<1> QED BY <1>4, <1>5, <1>6, <1>7, <1>8, <1>9 DEF JobqInv, QueueInv

-----------------------------------------------------------------------------
\* PostReport of a report that was not posted before.
LEMMA PostQueue ==
    ASSUME QueueInv, NEW t \in Thread, NEW to, NEW r \in Report,
           r.of = t, thread[t] \notin After(r.kind), to \in After(r.kind),
           r = Data(t) => t \notin consumerdone,
           \A kind \in {"connection", "data", "relay"} : thread[t] \in After(kind) => to \in After(kind),
           pending' = Append(pending, r), thread' = [thread EXCEPT ![t] = to],
           UNCHANGED <<root, rpc, pos, consumerdone>>
    PROVE  Posted' /\ Distinct' /\ Handled' /\ pending' \in Seq(Report)
<1> DEFINE n == Len(pending)
<1>1. /\ pending \in Seq(Report) /\ root \in Seq(Report) /\ DOMAIN thread = Thread
  BY DEF QueueInv, TypeOK
<1>2. /\ pending' \in Seq(Report) /\ n \in Nat
      /\ DOMAIN pending' = 1 .. n + 1 /\ DOMAIN pending = 1 .. n
      /\ \A i \in 1 .. n : pending'[i] = pending[i]
      /\ pending'[n + 1] = r
  BY <1>1, AppendElements
<1>3. /\ \A i \in 1 .. n : pending[i] \in Report /\ pending[i] # r
      /\ \A i \in DOMAIN root : root[i] \in Report /\ root[i] # r
  <2>1. Posted /\ TypeOK
    BY DEF QueueInv
  <2> QED BY <1>2, <2>1, ListTypes DEF Posted
<1>4. ASSUME NEW v \in Report, thread[v.of] \in After(v.kind)
      PROVE  thread'[v.of] \in After(v.kind)
  BY <1>1, <1>4 DEF Report
<1>5. Posted'
  <2>1. \A i \in DOMAIN pending' : thread'[pending'[i].of] \in After(pending'[i].kind)
    <3>1. ASSUME NEW i \in 1 .. n PROVE thread'[pending'[i].of] \in After(pending'[i].kind)
      BY <1>2, <1>3, <1>4 DEF QueueInv, Posted
    <3>2. thread'[pending'[n + 1].of] \in After(pending'[n + 1].kind)
      BY <1>1, <1>2
    <3> QED BY <1>2, <3>1, <3>2
  <2>2. \A i \in DOMAIN root : thread'[root[i].of] \in After(root[i].kind)
    BY <1>3, <1>4 DEF QueueInv, Posted
  <2> QED BY <2>1, <2>2 DEF Posted
<1>6. Distinct'
  <2>1. IsInjective(pending')
    <3> SUFFICES ASSUME NEW i \in DOMAIN pending', NEW j \in DOMAIN pending', pending'[i] = pending'[j]
                 PROVE  i = j
      BY DEF IsInjective
    <3>1. i \in 1 .. n /\ j \in 1 .. n => i = j
      BY <1>2 DEF QueueInv, Distinct, IsInjective
    <3>2. i \in 1 .. n + 1 /\ j \in 1 .. n + 1
      BY <1>2
    <3> QED BY <1>2, <1>3, <3>1, <3>2
  <2>2. \A i \in DOMAIN pending', j \in DOMAIN root : pending'[i] # root[j]
    BY <1>2, <1>3 DEF QueueInv, Distinct
  <2> QED BY <2>1, <2>2 DEF QueueInv, Distinct
<1>7. Handled'
  <2>1. ASSUME NEW u \in consumerdone, NEW i \in DOMAIN pending' PROVE pending'[i] # Data(u)
    <3>1. i \in 1 .. n => pending'[i] # Data(u)
      BY <1>2 DEF QueueInv, Handled
    <3>2. r # Data(u)
      <4>1. u \in Thread
        BY DEF QueueInv, TypeOK
      <4>2. r = Data(u) => u = t
        BY <4>1, ReportKinds
      <4> QED BY <4>2
    <3>3. i \in 1 .. n + 1
      BY <1>2
    <3> QED BY <1>2, <3>1, <3>2, <3>3
  <2>2. \A u \in consumerdone : \A i \in DOMAIN root : root[i] = Data(u) => rpc = "unlink" /\ i = pos
    BY DEF QueueInv, Handled
  <2> QED BY <2>1, <2>2 DEF Handled
<1> QED BY <1>2, <1>5, <1>6, <1>7

\* The queue, when a thread only goes on.
LEMMA QueueKept ==
    ASSUME QueueInv, UNCHANGED <<pending, root, rpc, pos, consumerdone>>,
           \A v \in Thread : \A kind \in {"connection", "data", "relay"} :
               thread[v] \in After(kind) => thread'[v] \in After(kind)
    PROVE  Posted' /\ Distinct' /\ Handled' /\ Walking'
<1>1. Posted'
  <2>1. \A v \in Report : thread[v.of] \in After(v.kind) => thread'[v.of] \in After(v.kind)
    BY DEF Report
  <2> QED BY <2>1, ListTypes DEF QueueInv, Posted
<1>2. Distinct' /\ Handled' /\ Walking'
  BY DEF QueueInv, Distinct, Handled, Walking
<1> QED BY <1>1, <1>2

\* A thread that goes on and stays counted.
Running == {"run", "connected", "traffic", "endjob", "ended", "relayed", "exit"}

\* A thread that goes on running changes neither the counts nor the chains.
LEMMA StandingKept ==
    ASSUME JobqInv, NEW t \in Thread, NEW to \in Running, thread[t] \in Running,
           thread' = [thread EXCEPT ![t] = to], UNCHANGED <<rpc, sNum, handover>>
    PROVE  Counts' /\ Chains' /\ LeftLast'
<1>1. DOMAIN thread = Thread /\ thread'[t] = to /\ \A u \in Thread \ {t} : thread'[u] = thread[u]
  BY DEF JobqInv, QueueInv, TypeOK
<1>2. Alive' = Alive
  BY <1>1 DEF Alive, Running
<1>3. Counts'
  BY <1>2 DEF JobqInv, Counts
<1>4. \A u \in Thread : /\ thread'[u] = "unborn" <=> thread[u] = "unborn"
                        /\ thread'[u] = "gone" <=> thread[u] = "gone"
                        /\ thread'[u] = "starting" <=> thread[u] = "starting"
  BY <1>1 DEF Running
<1>5. Chains'
  <2>1. \A u \in Thread : RunNext[u] # NoThread => RunNext[u] \in Thread
    BY JobqAssumption
  <2> QED BY <1>4, <2>1 DEF JobqInv, Chains
<1>6. LeftLast'
  BY <1>4 DEF JobqInv, LeftLast
<1> QED BY <1>3, <1>5, <1>6

\* PostReport keeps the invariant, whichever report it is.
LEMMA PostInv ==
    ASSUME JobqInv, NEW t \in Thread, PostConnection(t) \/ PostData(t) \/ PostRelay(t)
    PROVE  JobqInv'
<1> USE DEF AfterEndJob, AfterTraffic, Finished
<1>1. UNCHANGED <<root, rpc, pos, backlog, final, consumerdone, freed, sNum, mainGone, handover>>
  BY DEF PostConnection, PostData, PostRelay, PostReport, reporterVars, ringVars, exitVars
<1>2. PICK r \in Report, from \in Running, to \in Running :
          /\ r.of = t /\ pending' = Append(pending, r)
          /\ thread[t] = from /\ thread' = [thread EXCEPT ![t] = to]
          /\ \/ r.kind = "connection" /\ from = "run" /\ to = "connected"
             \/ r.kind = "data" /\ from = "connected" /\ to = "traffic"
             \/ r.kind = "relay" /\ from = "ended" /\ to = "relayed"
  BY ReportKinds DEF PostConnection, PostData, PostRelay, PostReport, Goto, Running
<1>3. from \notin After(r.kind) /\ to \in After(r.kind)
  BY <1>2 DEF After
<1>4. \A kind \in {"connection", "data", "relay"} : from \in After(kind) => to \in After(kind)
  BY <1>2 DEF After
<1>5. r = Data(t) => t \notin consumerdone
  BY <1>2, ReportKinds DEF JobqInv, QueueInv, Waited, TypeOK
<1>6. Posted' /\ Distinct' /\ Handled' /\ pending' \in Seq(Report)
  BY <1>1, <1>2, <1>3, <1>4, <1>5, PostQueue DEF JobqInv
<1>7. Counts' /\ Chains' /\ LeftLast'
  BY <1>1, <1>2, StandingKept
<1>8. TypeOK'
  <2>1. thread' \in [Thread -> {"unborn", "run", "connected", "traffic", "endjob",
                                "ended", "relayed", "exit", "starting", "gone"}]
    BY <1>2 DEF JobqInv, QueueInv, TypeOK, Running
  <2> QED BY <1>1, <1>6, <2>1 DEF JobqInv, QueueInv, TypeOK
<1>9. Waited' /\ Walking'
  <2>1. thread'[t] = to /\ \A u \in Thread \ {t} : thread'[u] = thread[u]
    BY <1>2 DEF JobqInv, QueueInv, TypeOK
  <2>2. Waited'
    BY <1>1, <1>2, <2>1 DEF JobqInv, QueueInv, Waited, TypeOK
  <2> QED BY <1>1, <2>2 DEF JobqInv, QueueInv, Walking
<1> QED BY <1>6, <1>7, <1>8, <1>9 DEF JobqInv, QueueInv

\* The other steps of a traffic thread before its end.
LEMMA GoOnInv ==
    ASSUME JobqInv, NEW t \in Thread, EndJob(t) \/ EndJobReturn(t) \/ NoRelay(t) \/ FreeData(t)
    PROVE  JobqInv'
<1> USE DEF AfterEndJob, AfterTraffic, Finished
<1>1. UNCHANGED <<pending, root, rpc, pos, backlog, consumerdone, sNum, mainGone, handover>>
  BY DEF EndJob, EndJobReturn, NoRelay, FreeData, queueVars, ringVars, exitVars
<1>2. PICK from \in Running, to \in Running :
          /\ thread[t] = from /\ thread' = [thread EXCEPT ![t] = to]
          /\ \/ from = "traffic" /\ to = "endjob" /\ final' = final \cup {t} /\ freed' = freed
             \/ /\ from = "endjob" /\ to = "ended" /\ t \in consumerdone
                /\ final' = final /\ freed' = freed
             \/ from = "ended" /\ to = "relayed" /\ final' = final /\ freed' = freed
             \/ from = "relayed" /\ to = "exit" /\ final' = final /\ freed' = freed \cup {Data(t)}
  BY DEF EndJob, EndJobReturn, NoRelay, FreeData, Goto, Running, ringVars
<1>3. DOMAIN thread = Thread /\ thread'[t] = to /\ \A u \in Thread \ {t} : thread'[u] = thread[u]
  BY <1>2 DEF JobqInv, QueueInv, TypeOK
<1>4. \A kind \in {"connection", "data", "relay"} : from \in After(kind) => to \in After(kind)
  BY <1>2 DEF After
<1>5. Posted' /\ Distinct' /\ Handled' /\ Walking'
  BY <1>1, <1>2, <1>3, <1>4, QueueKept DEF JobqInv
<1>6. Counts' /\ Chains' /\ LeftLast'
  BY <1>1, <1>2, StandingKept
<1>7. TypeOK'
  <2>1. thread' \in [Thread -> {"unborn", "run", "connected", "traffic", "endjob",
                                "ended", "relayed", "exit", "starting", "gone"}]
    BY <1>2 DEF JobqInv, QueueInv, TypeOK, Running
  <2>2. final' \subseteq Thread /\ consumerdone' \subseteq final' /\ freed' \subseteq {Data(u) : u \in Thread}
    BY <1>1, <1>2 DEF JobqInv, QueueInv, TypeOK
  <2> QED BY <1>1, <2>1, <2>2 DEF JobqInv, QueueInv, TypeOK
<1>8. Waited'
  <2>1. \A u \in final' : thread'[u] \in AfterTraffic
    BY <1>2, <1>3 DEF JobqInv, QueueInv, Waited, TypeOK
  <2>2. \A u \in Thread : thread'[u] \in AfterEndJob => u \in consumerdone'
    BY <1>1, <1>2, <1>3 DEF JobqInv, QueueInv, Waited
  <2>3. ASSUME NEW u \in Thread, Data(u) \in freed' PROVE thread'[u] \in {"exit", "starting", "gone"}
    <3>1. \A v \in Thread : Data(v) = Data(u) => v = u
      BY ReportKinds
    <3>2. Data(u) \in freed => thread[u] \in {"exit", "starting", "gone"}
      BY DEF JobqInv, QueueInv, Waited
    <3> QED BY <1>2, <1>3, <2>3, <3>1, <3>2
  <2> QED BY <2>1, <2>2, <2>3 DEF Waited
<1> QED BY <1>5, <1>6, <1>7, <1>8 DEF JobqInv, QueueInv

\* A packet put into a ring keeps the invariant.
LEMMA RecordInv == ASSUME JobqInv, NEW t \in Thread, Record(t) PROVE JobqInv'
<1>1. UNCHANGED <<pending, root, rpc, pos, thread, final, consumerdone, freed, sNum, mainGone,
                  handover>>
  BY DEF Record, queueVars, exitVars
<1>2. backlog' \in [Thread -> 0 .. MaxBacklog]
  BY JobqAssumption DEF Record, JobqInv, QueueInv, TypeOK
<1>3. TypeOK'
  BY <1>1, <1>2 DEF JobqInv, QueueInv, TypeOK
<1>4. Posted' /\ Distinct' /\ Handled' /\ Waited' /\ Walking'
  BY <1>1 DEF JobqInv, QueueInv, Posted, Distinct, Handled, Waited, Walking
<1>5. Counts' /\ Chains' /\ LeftLast'
  BY <1>1 DEF JobqInv, Counts, Alive, Chains, LeftLast
<1> QED BY <1>3, <1>4, <1>5 DEF JobqInv, QueueInv

\* thread_run_wrapper: the thread is taken off the count, before its runNext is put on.
LEMMA ExitInv == ASSUME JobqInv, NEW t \in Thread, ThreadExit(t) PROVE JobqInv'
<1> USE DEF AfterEndJob, AfterTraffic, Finished
<1>1. UNCHANGED <<pending, root, rpc, pos, backlog, final, consumerdone, freed, mainGone, handover>>
  BY DEF ThreadExit, queueVars, ringVars, exitVars
<1>2. PICK to \in {"gone", "starting"} :
          /\ thread' = [thread EXCEPT ![t] = to] /\ (to = "gone" <=> RunNext[t] = NoThread)
  BY DEF ThreadExit, Goto
<1>3. /\ thread[t] = "exit" /\ sNum' = sNum - 1 /\ DOMAIN thread = Thread
      /\ thread'[t] = to /\ \A u \in Thread \ {t} : thread'[u] = thread[u]
  BY <1>2 DEF ThreadExit, Goto, JobqInv, QueueInv, TypeOK
<1>4. Posted' /\ Distinct' /\ Handled' /\ Walking'
  <2>1. \A v \in Thread : \A kind \in {"connection", "data", "relay"} :
            thread[v] \in After(kind) => thread'[v] \in After(kind)
    BY <1>2, <1>3 DEF After
  <2> QED BY <1>1, <2>1, QueueKept DEF JobqInv
<1>5. Waited'
  BY <1>1, <1>2, <1>3 DEF JobqInv, QueueInv, Waited, TypeOK
<1>6. /\ Alive' = Alive \ {t} /\ t \in Alive /\ Alive \in SUBSET Thread /\ Alive' \in SUBSET Thread
  BY <1>2, <1>3 DEF Alive
<1>7. Cardinality(Alive') = Cardinality(Alive) - 1
  BY <1>6, ThreadFinite, FS_RemoveElement
<1>8. Counts' /\ sNum' \in 0 .. 1 + Cardinality(Thread)
  BY <1>1, <1>3, <1>6, <1>7, ThreadFinite DEF JobqInv, Counts
<1>9. Chains'
  <2>1. \A u \in Thread : RunNext[u] # NoThread => RunNext[u] \in Thread
    BY JobqAssumption
  <2>2. \A u \in Thread : thread'[u] = "unborn" <=> thread[u] = "unborn"
    BY <1>2, <1>3
  <2>3. \A u \in Thread : RunNext[u] # NoThread => (thread'[u] = "gone" <=> thread[u] = "gone")
    BY <1>2, <1>3
  <2>4. \A u \in Thread : RunNext[u] = NoThread => thread'[u] # "starting"
    BY <1>2, <1>3 DEF JobqInv, Chains
  <2> QED BY <2>1, <2>2, <2>3, <2>4 DEF JobqInv, Chains
<1>10. LeftLast'
  BY <1>1, <1>3 DEF JobqInv, LeftLast
<1>11. TypeOK'
  <2>1. thread' \in [Thread -> {"unborn", "run", "connected", "traffic", "endjob",
                                "ended", "relayed", "exit", "starting", "gone"}]
    BY <1>2 DEF JobqInv, QueueInv, TypeOK
  <2> QED BY <1>1, <1>8, <2>1 DEF JobqInv, QueueInv, TypeOK
<1> QED BY <1>4, <1>5, <1>8, <1>9, <1>10, <1>11 DEF JobqInv, QueueInv

\* thread_start of the runNext thread.
LEMMA StartNextInv == ASSUME JobqInv, NEW t \in Thread, StartRunNext(t) PROVE JobqInv'
<1> USE DEF AfterEndJob, AfterTraffic, Finished
<1>1. UNCHANGED <<pending, root, rpc, pos, backlog, final, consumerdone, freed, mainGone, handover>>
  BY DEF StartRunNext, queueVars, ringVars, exitVars
<1>2. thread[t] = "starting" /\ sNum' = sNum + 1 /\ DOMAIN thread = Thread
  BY DEF StartRunNext, JobqInv, QueueInv, TypeOK
<1>3. RunNext[t] # NoThread
  BY <1>2 DEF JobqInv, Chains
<1>4. PICK n \in Thread : n = RunNext[t]
  BY <1>3, JobqAssumption
<1>5. n # t /\ thread[n] = "unborn" /\ \A u \in Thread : RunNext[u] = n => u = t
  BY <1>2, <1>3, <1>4, JobqAssumption DEF JobqInv, Chains
<1>6. /\ thread'[t] = "gone" /\ thread'[n] = "run"
      /\ \A u \in Thread \ {t, n} : thread'[u] = thread[u]
  BY <1>2, <1>4, <1>5 DEF StartRunNext
<1>7. Posted' /\ Distinct' /\ Handled' /\ Walking'
  <2>1. \A v \in Thread : \A kind \in {"connection", "data", "relay"} :
            thread[v] \in After(kind) => thread'[v] \in After(kind)
    BY <1>2, <1>5, <1>6 DEF After
  <2> QED BY <1>1, <2>1, QueueKept DEF JobqInv
<1>8. Waited'
  <2>1. n \notin final /\ Data(n) \notin freed
    BY <1>5 DEF JobqInv, QueueInv, Waited
  <2>2. \A u \in final : thread'[u] \in AfterTraffic
    BY <1>6, <2>1 DEF JobqInv, QueueInv, Waited, TypeOK
  <2>3. \A u \in Thread : thread'[u] \in AfterEndJob => u \in consumerdone
    BY <1>2, <1>6 DEF JobqInv, QueueInv, Waited
  <2>4. \A u \in Thread : Data(u) \in freed => thread'[u] \in {"exit", "starting", "gone"}
    BY <1>6, <2>1 DEF JobqInv, QueueInv, Waited
  <2> QED BY <1>1, <2>2, <2>3, <2>4 DEF Waited
<1>9. Alive' = Alive \cup {n} /\ n \notin Alive /\ Alive \in SUBSET Thread /\ Alive' \in SUBSET Thread
  BY <1>2, <1>5, <1>6 DEF Alive
<1>10. Cardinality(Alive') = Cardinality(Alive) + 1
  BY <1>9, ThreadFinite, FS_AddElement
<1>11. Counts' /\ sNum' \in 0 .. 1 + Cardinality(Thread)
  BY <1>1, <1>2, <1>9, <1>10, ThreadFinite DEF JobqInv, Counts
<1>12. Chains'
  <2>1. ASSUME NEW u \in Thread, RunNext[u] # NoThread
        PROVE  thread'[RunNext[u]] = "unborn" <=> thread'[u] # "gone"
    <3>1. RunNext[u] \in Thread /\ RunNext[u] # t
      BY <1>3, <2>1, JobqAssumption
    <3>2. u # n
      BY <1>3, <1>4, <2>1, JobqAssumption
    <3>3. CASE u = t
      BY <1>4, <1>6, <3>3
    <3>4. CASE u # t
      BY <1>5, <1>6, <2>1, <3>1, <3>2, <3>4 DEF JobqInv, Chains
    <3> QED BY <3>3, <3>4
  <2>2. \A u \in Thread \ Chained : thread'[u] # "unborn"
    BY <1>6 DEF JobqInv, Chains
  <2>3. \A u \in Thread : RunNext[u] = NoThread => thread'[u] # "starting"
    BY <1>6 DEF JobqInv, Chains
  <2> QED BY <2>1, <2>2, <2>3 DEF Chains
<1>13. LeftLast'
  BY <1>1, <1>2 DEF JobqInv, LeftLast
<1>14. TypeOK'
  <2>1. thread' \in [Thread -> {"unborn", "run", "connected", "traffic", "endjob",
                                "ended", "relayed", "exit", "starting", "gone"}]
    BY <1>4 DEF StartRunNext, JobqInv, QueueInv, TypeOK
  <2> QED BY <1>1, <1>11, <2>1 DEF JobqInv, QueueInv, TypeOK
<1> QED BY <1>7, <1>8, <1>11, <1>12, <1>13, <1>14 DEF JobqInv, QueueInv

-----------------------------------------------------------------------------
\* The reporter. Its steps leave the threads and, until it leaves, the counts alone.
LEMMA ReporterKept ==
    ASSUME JobqInv, UNCHANGED <<thread, freed, final, sNum>>, consumerdone \subseteq consumerdone',
           rpc # "gone", rpc' \notin {"leaving", "gone"}
    PROVE  Waited' /\ Counts' /\ Chains' /\ LeftLast'
  BY DEF JobqInv, QueueInv, Waited, Counts, Alive, Chains, LeftLast

\* reporter_jobq_set_root: the pending reports in front of the queue.
LEMMA TakeInv ==
    ASSUME JobqInv, rpc \in {"setroot", "wait"}, TakePending
    PROVE  JobqInv'
<1>1. /\ root' = pending \o root /\ pending' = <<>> /\ pos' = 1
      /\ rpc' = IF root' = <<>> THEN "exitcheck" ELSE "walk"
      /\ UNCHANGED <<thread, backlog, final, consumerdone, freed, sNum, mainGone, handover>>
  BY DEF TakePending, threadVars, ringVars, exitVars
<1>2. pending \in Seq(Report) /\ root \in Seq(Report)
  BY DEF JobqInv, QueueInv, TypeOK
<1>3. root' \in Seq(Report) /\ pending' \in Seq(Report) /\ DOMAIN pending' = {}
  BY <1>1, <1>2, ConcatElements
<1>4. ASSUME NEW i \in DOMAIN root'
      PROVE  (\E j \in DOMAIN pending : root'[i] = pending[j]) \/ (\E j \in DOMAIN root : root'[i] = root[j])
  <2>1. \/ i \in DOMAIN pending /\ root'[i] = pending[i]
        \/ i - Len(pending) \in DOMAIN root /\ root'[i] = root[i - Len(pending)]
    BY <1>1, <1>2, ConcatElements
  <2> QED BY <2>1
<1>5. TypeOK'
  BY <1>1, <1>3 DEF JobqInv, QueueInv, TypeOK
<1>6. Posted'
  BY <1>1, <1>3, <1>4 DEF JobqInv, QueueInv, Posted
<1>7. Distinct'
  <2>1. IsInjective(root')
    BY <1>1, <1>2, ConcatInjective DEF JobqInv, QueueInv, Distinct
  <2> QED BY <1>3, <2>1 DEF Distinct, IsInjective
<1>8. Handled'
  <2>1. \A t \in consumerdone : \A i \in DOMAIN root' : root'[i] # Data(t)
    BY <1>4 DEF JobqInv, QueueInv, Handled
  <2> QED BY <1>1, <1>3, <2>1 DEF Handled
<1>9. Walking'
  <2>1. root' # <<>> => 1 \in 1 .. Len(root')
    BY <1>3, EmptySeq
  <2> QED BY <1>1, <2>1 DEF Walking
<1>10. Waited' /\ Counts' /\ Chains' /\ LeftLast'
  BY <1>1, ReporterKept
<1> QED BY <1>5, <1>6, <1>7, <1>8, <1>9, <1>10 DEF JobqInv, QueueInv

\* A report is looked at where work_item points, and nothing is removed yet.
LEMMA VisitInv ==
    ASSUME JobqInv, (\E t \in Thread : VisitData(t)) \/ VisitOther
    PROVE  JobqInv'
<1>1. /\ rpc = "walk" /\ pos \in 1 .. Len(root)
      /\ UNCHANGED <<pending, root, thread, final, freed, sNum, mainGone, handover>>
  BY DEF VisitData, VisitOther, queueVars, threadVars, ringVars, exitVars, JobqInv, QueueInv, Walking
<1>2. pos \in Nat \ {0} /\ Len(root) \in Nat /\ backlog \in [Thread -> 0 .. MaxBacklog]
  BY ListTypes DEF JobqInv, QueueInv, TypeOK
<1>3. backlog' \in [Thread -> 0 .. MaxBacklog]
  <2>1. CASE backlog' = backlog
    BY <1>2, <2>1
  <2>2. CASE \E t \in Thread : backlog[t] > 0 /\ backlog' = [backlog EXCEPT ![t] = @ - 1]
    BY <1>2, <2>2, JobqAssumption
  <2> QED BY <2>1, <2>2 DEF VisitData, VisitOther, threadVars, ringVars
<1>4. \/ consumerdone' = consumerdone /\ Advance
      \/ consumerdone' = consumerdone /\ pos' = pos /\ rpc' = "unlink"
      \/ \E t \in final : /\ consumerdone' = consumerdone \cup {t} /\ root[pos] = Data(t)
                          /\ pos' = pos /\ rpc' = "unlink"
  BY DEF VisitData, VisitOther, threadVars, ringVars
<1>5. /\ pos' \in Nat \ {0} /\ rpc' \in {"setroot", "walk", "unlink"}
      /\ rpc' \in {"walk", "unlink"} => pos' \in 1 .. Len(root)
      /\ consumerdone \subseteq consumerdone' /\ consumerdone' \subseteq final
  <2>1. consumerdone \subseteq final
    BY DEF JobqInv, QueueInv, TypeOK
  <2> QED BY <1>1, <1>2, <1>4, <2>1 DEF Advance
<1>6. TypeOK'
  BY <1>1, <1>3, <1>5 DEF JobqInv, QueueInv, TypeOK
<1>7. Posted' /\ Distinct' /\ Walking'
  BY <1>1, <1>5 DEF JobqInv, QueueInv, Posted, Distinct, Walking
<1>8. Handled'
  <2>1. \A t \in consumerdone : /\ \A i \in DOMAIN pending : pending[i] # Data(t)
                                /\ \A i \in DOMAIN root : root[i] # Data(t)
    BY <1>1 DEF JobqInv, QueueInv, Handled
  <2>2. CASE consumerdone' = consumerdone
    BY <1>1, <2>1, <2>2 DEF Handled
  <2>3. CASE consumerdone' # consumerdone
    <3>1. PICK t \in final : /\ consumerdone' = consumerdone \cup {t} /\ root[pos] = Data(t)
                             /\ pos' = pos /\ rpc' = "unlink"
      BY <1>4, <2>3
    <3>2. pos \in DOMAIN root
      BY <1>1, ListTypes DEF JobqInv, QueueInv
    <3>3. \A i \in DOMAIN pending : pending[i] # Data(t)
      BY <3>1, <3>2 DEF JobqInv, QueueInv, Distinct
    <3>4. \A i \in DOMAIN root : root[i] = Data(t) => i = pos
      BY <3>1, <3>2 DEF JobqInv, QueueInv, Distinct, IsInjective
    <3> QED BY <1>1, <2>1, <3>1, <3>3, <3>4 DEF Handled
  <2> QED BY <2>2, <2>3
<1>9. Waited' /\ Counts' /\ Chains' /\ LeftLast'
  BY <1>1, <1>5, ReporterKept
<1> QED BY <1>6, <1>7, <1>8, <1>9 DEF JobqInv, QueueInv

\* *work_item = tmp.
LEMMA UnlinkInv == ASSUME JobqInv, Unlink PROVE JobqInv'
<1>1. /\ rpc = "unlink" /\ root' = RemoveAt(root, pos) /\ pos' = pos + 1
      /\ rpc' = IF pos + 1 > Len(root') THEN "setroot" ELSE "walk"
      /\ UNCHANGED <<pending, thread, backlog, final, consumerdone, freed, sNum, mainGone, handover>>
  BY DEF Unlink, threadVars, ringVars, exitVars
<1>2. pos \in 1 .. Len(root) /\ root \in Seq(Report) /\ pos \in Nat \ {0}
  BY <1>1 DEF JobqInv, QueueInv, Walking, TypeOK
<1>3. /\ root' \in Seq(Report) /\ Len(root) \in Nat
      /\ DOMAIN root' = 1 .. Len(root) - 1 /\ Len(root') = Len(root) - 1 /\ DOMAIN root = 1 .. Len(root)
      /\ \A i \in 1 .. Len(root) - 1 : root'[i] = IF i < pos THEN root[i] ELSE root[i + 1]
  BY <1>1, <1>2, RemoveElements
<1>4. ASSUME NEW i \in DOMAIN root'
      PROVE  LET j == IF i < pos THEN i ELSE i + 1
             IN  j \in DOMAIN root /\ j # pos /\ root'[i] = root[j]
  BY <1>2, <1>3
<1>5. \A i \in DOMAIN root' : \E j \in DOMAIN root : j # pos /\ root'[i] = root[j]
  BY <1>4
<1>6. TypeOK'
  BY <1>1, <1>2, <1>3 DEF JobqInv, QueueInv, TypeOK
<1>7. Posted'
  BY <1>1, <1>5 DEF JobqInv, QueueInv, Posted
<1>8. Distinct'
  <2>1. IsInjective(root')
    <3> SUFFICES ASSUME NEW a \in DOMAIN root', NEW b \in DOMAIN root', root'[a] = root'[b]
                 PROVE  a = b
      BY DEF IsInjective
    <3>1. (IF a < pos THEN a ELSE a + 1) = (IF b < pos THEN b ELSE b + 1)
      BY <1>4 DEF JobqInv, QueueInv, Distinct, IsInjective
    <3>2. a \in Int /\ b \in Int
      BY <1>3
    <3> QED BY <1>2, <3>1, <3>2
  <2> QED BY <1>1, <1>5, <2>1 DEF JobqInv, QueueInv, Distinct
<1>9. Handled'
  <2>1. \A t \in consumerdone : \A i \in DOMAIN root' : root'[i] # Data(t)
    BY <1>5 DEF JobqInv, QueueInv, Handled
  <2> QED BY <1>1, <2>1 DEF JobqInv, QueueInv, Handled
<1>10. Walking'
  BY <1>1, <1>2, <1>3 DEF Walking
<1>11. Waited' /\ Counts' /\ Chains' /\ LeftLast'
  BY <1>1, ReporterKept
<1> QED BY <1>6, <1>7, <1>8, <1>9, <1>10, <1>11 DEF JobqInv, QueueInv

\* The lists and the threads stay as they are.
LEMMA IdleInv ==
    ASSUME JobqInv, UNCHANGED <<pending, root, pos, thread, backlog, final, consumerdone, freed>>,
           rpc # "unlink", rpc' \notin {"walk", "unlink"},
           rpc' \in {"wait", "exitcheck", "leaving", "gone"} => root = <<>>
    PROVE  Posted' /\ Distinct' /\ Handled' /\ Waited' /\ Walking' /\ Chains' /\ Alive' = Alive
  BY DEF JobqInv, QueueInv, Posted, Distinct, Handled, Waited, Walking, Chains, Alive

\* Nobody is counted and nobody is about to start a runNext: everybody is gone.
LEMMA NobodyCounted ==
    ASSUME JobqInv, rpc # "gone", sNum <= 1, \A t \in Thread : thread[t] # "starting"
    PROVE  \A t \in Thread : thread[t] = "gone"
<1>1. Alive \in SUBSET Thread
  BY DEF Alive
<1>2. Cardinality(Alive) = 0
  BY <1>1, ThreadFinite DEF JobqInv, Counts
<1>3. Alive = {}
  BY <1>1, <1>2, ThreadFinite, FS_EmptySet
<1>4. \A t \in Thread : thread[t] \in {"unborn", "gone"}
  BY <1>3 DEF Alive
<1>5. ASSUME NEW n \in Thread, thread[n] = "unborn" PROVE FALSE
  <2>1. n \in Chained
    BY <1>5 DEF JobqInv, Chains
  <2>2. PICK t \in Thread : RunNext[t] = n
    BY <2>1 DEF Chained
  <2>3. RunNext[t] # NoThread /\ t \notin Chained
    BY <2>2, JobqAssumption DEF Chained
  <2>4. thread[t] = "gone"
    BY <1>4, <2>3 DEF JobqInv, Chains
  <2> QED BY <1>5, <2>2, <2>3, <2>4 DEF JobqInv, Chains
<1> QED BY <1>4, <1>5

\* Waiting, looking at the thread count and leaving.
LEMMA LeaveInv == ASSUME JobqInv, SetRootWait \/ ExitCheck \/ ReporterExit PROVE JobqInv'
<1>1. UNCHANGED <<pending, root, pos, thread, backlog, final, consumerdone, freed, mainGone>>
  BY DEF SetRootWait, ExitCheck, ReporterExit, queueVars, threadVars, ringVars, exitVars
<1>2. Posted' /\ Distinct' /\ Handled' /\ Waited' /\ Walking' /\ Chains' /\ Alive' = Alive
  BY <1>1, IdleInv DEF SetRootWait, ExitCheck, ReporterExit, JobqInv, QueueInv, Walking
<1>3. Counts'
  <2>1. Alive \in SUBSET Thread
    BY DEF Alive
  <2>2. Cardinality(Alive) \in Nat
    BY <2>1, ThreadFinite
  <2>3. CASE SetRootWait \/ ExitCheck
    BY <1>2, <2>3 DEF SetRootWait, ExitCheck, threadVars, JobqInv, Counts
  <2>4. CASE ReporterExit
    BY <1>2, <2>2, <2>4 DEF ReporterExit, JobqInv, Counts
  <2> QED BY <2>3, <2>4
<1>4. sNum' \in 0 .. 1 + Cardinality(Thread)
  <2>1. Alive' \in SUBSET Thread
    BY DEF Alive
  <2>2. Cardinality(Alive') \in 0 .. Cardinality(Thread) /\ Cardinality(Thread) \in Nat
    BY <2>1, ThreadFinite
  <2> QED BY <1>3, <2>2 DEF Counts
<1>5. handover' \in BOOLEAN /\ rpc' \in {"setroot", "wait", "leaving", "gone"}
  BY DEF SetRootWait, ExitCheck, ReporterExit, threadVars, exitVars, JobqInv, QueueInv, TypeOK
<1>6. TypeOK'
  BY <1>1, <1>4, <1>5 DEF JobqInv, QueueInv, TypeOK
<1>7. LeftLast'
  <2>1. CASE SetRootWait
    BY <2>1 DEF SetRootWait, LeftLast
  <2>2. CASE ReporterExit
    BY <1>1, <2>2 DEF ReporterExit, exitVars, JobqInv, LeftLast
  <2>3. CASE ExitCheck
    <3> SUFFICES ASSUME rpc' \in {"leaving", "gone"}, ~handover'
                 PROVE  \A t \in Thread : thread'[t] = "gone"
      BY DEF LeftLast
    <3>1. rpc = "exitcheck" /\ ~(sNum > 1) /\ rpc' = "leaving"
      BY <2>3 DEF ExitCheck
    <3>2. \A t \in Thread : thread[t] # "starting"
      BY <2>3, <3>1 DEF ExitCheck
    <3>3. sNum <= 1
      BY <3>1, ThreadFinite DEF JobqInv, QueueInv, TypeOK
    <3> QED BY <1>1, <3>1, <3>2, <3>3, NobodyCounted
  <2> QED BY <2>1, <2>2, <2>3
<1> QED BY <1>2, <1>3, <1>6, <1>7 DEF JobqInv, QueueInv

\* The invariant holds in every order of posting, walking, ending and leaving.
THEOREM JobqInvariant == Spec => []JobqInv
<1>1. Init => JobqInv
  BY InitJobq
<1>2. JobqInv /\ [Next]_vars => JobqInv'
  <2> SUFFICES ASSUME JobqInv, [Next]_vars PROVE JobqInv'
    OBVIOUS
  <2>1. ASSUME NEW t \in Thread, Traffic(t) PROVE JobqInv'
    BY <2>1, PostInv, GoOnInv, RecordInv, ExitInv, StartNextInv DEF Traffic
  <2>2. CASE Reporter
    BY <2>2, TakeInv, LeaveInv, VisitInv, UnlinkInv DEF Reporter, SetRoot, SetRootWake
  <2>3. CASE JoinAll \/ UNCHANGED vars
    <3>1. /\ UNCHANGED <<pending, root, rpc, pos, thread, backlog, final, consumerdone, freed,
                         sNum, handover>>
          /\ mainGone' \in BOOLEAN
      BY <2>3 DEF JoinAll, vars, queueVars, ringVars, JobqInv, QueueInv, TypeOK
    <3>2. TypeOK'
      BY <3>1 DEF JobqInv, QueueInv, TypeOK
    <3>3. Posted' /\ Distinct' /\ Handled' /\ Waited' /\ Walking'
      BY <3>1 DEF JobqInv, QueueInv, Posted, Distinct, Handled, Waited, Walking
    <3>4. Counts' /\ Chains' /\ LeftLast'
      BY <3>1 DEF JobqInv, Counts, Alive, Chains, LeftLast
    <3> QED BY <3>2, <3>3, <3>4 DEF JobqInv, QueueInv
  <2> QED BY <2>1, <2>2, <2>3 DEF Next, ProcessOver
<1> QED BY <1>1, <1>2, PTL DEF Spec

\* The reporter walks live reports only, and no report is queued twice, for any
\* number of threads and however posting and walking interleave (PostReport,
\* reporter_jobq_set_root, the unlinking in reporter_spawn and FreeReport).
THEOREM QueueRightAlways == Spec => []QueueRight
<1>1. JobqInv => QueueRight
  <2> SUFFICES ASSUME JobqInv PROVE QueueRight
    OBVIOUS
  <2>1. QueuedOnce
    <3>1. pending \in Seq(Report) /\ root \in Seq(Report)
      BY DEF JobqInv, QueueInv, TypeOK
    <3> QED BY <3>1, ConcatInjective DEF JobqInv, QueueInv, Distinct, QueuedOnce
  <2>2. WalksLiveReports
    <3> SUFFICES ASSUME rpc = "walk" PROVE pos <= Len(root) /\ root[pos] \notin freed
      BY DEF WalksLiveReports
    <3>1. pos \in DOMAIN root /\ pos <= Len(root)
      BY ListTypes DEF JobqInv, QueueInv, Walking
    <3>2. ASSUME root[pos] \in freed PROVE FALSE
      <4>1. PICK t \in Thread : root[pos] = Data(t)
        BY <3>2 DEF JobqInv, QueueInv, TypeOK
      <4>2. t \in consumerdone
        BY <3>2, <4>1 DEF JobqInv, QueueInv, Waited, AfterEndJob, Finished
      <4> QED BY <3>1, <4>1, <4>2 DEF JobqInv, QueueInv, Handled
    <3> QED BY <3>1, <3>2
  <2> QED BY <2>1, <2>2 DEF JobqInv, QueueInv, QueueRight
<1> QED BY <1>1, JobqInvariant, PTL

\* When the reporter leaves, every traffic thread is finished and no data report is
\* left in the queue, except in the window before a runNext thread is counted
\* (reporter_spawn's look at thread_numuserthreads).
THEOREM ReporterLeavesLastAlways == Spec => []ReporterLeavesLast
<1>1. JobqInv => ReporterLeavesLast
  <2> SUFFICES ASSUME JobqInv, rpc \in {"leaving", "gone"}, ~handover
               PROVE  /\ \A t \in Thread : thread[t] = "gone"
                      /\ \A r \in ToSet(pending \o root) : r.kind # "data"
    BY DEF ReporterLeavesLast
  <2>1. \A t \in Thread : thread[t] = "gone" /\ t \in consumerdone
    BY DEF JobqInv, LeftLast, QueueInv, Waited, AfterEndJob, Finished
  <2>2. ASSUME NEW r \in ToSet(pending \o root), r.kind = "data" PROVE FALSE
    <3>1. pending \in Seq(Report) /\ root \in Seq(Report) /\ root = <<>>
      BY DEF JobqInv, QueueInv, TypeOK, Walking
    <3>2. pending \o root = pending
      BY <3>1, ConcatEmptySeq
    <3>3. PICK i \in DOMAIN pending : pending[i] = r
      BY <3>2 DEF ToSet
    <3>4. r \in Report
      BY <3>3, ListTypes DEF JobqInv, QueueInv
    <3>5. r.of \in Thread /\ r = Data(r.of)
      BY <2>2, <3>4, ReportKinds
    <3> QED BY <2>1, <3>3, <3>5 DEF JobqInv, QueueInv, Handled
  <2> QED BY <2>1, <2>2
<1> QED BY <1>1, JobqInvariant, PTL
=============================================================================
