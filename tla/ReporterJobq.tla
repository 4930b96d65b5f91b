---------------------------- MODULE ReporterJobq ----------------------------
(***************************************************************************)
(* The reporter thread and its job queue (reporter_spawn,                  *)
(* reporter_jobq_set_root and PostReport of src/Reporter.c) with the life  *)
(* of the traffic threads that feed it and the thread count that decides   *)
(* when the reporter and main may leave (compat/Thread.c).                 *)
(*                                                                         *)
(* A traffic thread posts a connection report and its data report, records *)
(* packets, ends its job, may post one more report (the server relay of a  *)
(* UDP client) and exits, starting its runNext thread if it has one.  The  *)
(* ring of a data report is abstracted to the number of packets in it that *)
(* make the reporter print an interval and a flag for the final packet;    *)
(* PacketRing and TransferReport have the details.                         *)
(***************************************************************************)
EXTENDS Integers, Sequences, SequencesExt, FiniteSets

CONSTANTS
    Thread,       \* traffic threads
    RunNext,      \* [Thread -> Thread \cup {NoThread}], thread->runNext
    NoThread,
    MaxBacklog    \* bound: interval-ending packets in one ring

\* A runNext thread is a client the Listener made for one server thread, from a
\* copy of its settings that has no runNext.
ASSUME JobqAssumption ==
    /\ IsFiniteSet(Thread)
    /\ NoThread \notin Thread
    /\ RunNext \in [Thread -> Thread \cup {NoThread}]
    /\ \A t \in Thread : RunNext[t] # NoThread =>
          /\ RunNext[RunNext[t]] = NoThread
          /\ \A u \in Thread : RunNext[u] = RunNext[t] => u = t
    /\ MaxBacklog \in Nat

\* Connection and relay reports belong to the reporter, which frees them; a
\* data report is freed by its traffic thread.
Report == [kind : {"connection", "data", "relay"}, of : Thread]
Data(t) == [kind |-> "data", of |-> t]

VARIABLES
    pending,       \* ReportPendingHead .. ReportPendingTail
    root,          \* the list at ReportRoot, touched by the reporter only
    rpc,           \* where the reporter is
    pos,           \* work_item: the link in front of root[pos]
    thread,        \* where each traffic thread is
    backlog,       \* interval-ending packets in each thread's ring
    final,         \* threads whose final packet is in the ring
    consumerdone,  \* threads whose final packet the reporter has handled
    freed,         \* data reports freed by their traffic thread
    sNum,          \* thread_sNum
    mainGone,      \* thread_joinall has returned
    handover       \* history: the reporter left between the end of a thread
                   \* and the start of its runNext

vars == <<pending, root, rpc, pos, thread, backlog, final, consumerdone, freed,
          sNum, mainGone, handover>>
queueVars == <<pending, root>>
exitVars == <<mainGone, handover>>
reporterVars == <<root, rpc, pos>>
ringVars == <<backlog, final, consumerdone, freed>>

\* Threads that another one starts when it is finished.
Chained == {RunNext[t] : t \in Thread} \ {NoThread}

\* main has started the reporter and the threads (thread_start_all) before it
\* lets the reporter go (threads_start.ready).
Init ==
    /\ pending = <<>>
    /\ root = <<>>
    /\ rpc = "setroot"
    /\ pos = 1
    /\ thread = [t \in Thread |-> IF t \in Chained THEN "unborn" ELSE "run"]
    /\ backlog = [t \in Thread |-> 0]
    /\ final = {}
    /\ consumerdone = {}
    /\ freed = {}
    /\ sNum = 1 + Cardinality(Thread \ Chained)
    /\ mainGone = FALSE
    /\ handover = FALSE

-----------------------------------------------------------------------------
(* Traffic threads.                                                        *)

Goto(t, from, to) == thread[t] = from /\ thread' = [thread EXCEPT ![t] = to]

\* PostReport: append under ReportCond's mutex, then signal the reporter.
PostReport(r) == pending' = Append(pending, r) /\ UNCHANGED reporterVars

PostConnection(t) ==
    /\ Goto(t, "run", "connected")
    /\ PostReport([kind |-> "connection", of |-> t])
    /\ UNCHANGED <<ringVars, sNum, exitVars>>

PostData(t) ==
    /\ Goto(t, "connected", "traffic")
    /\ PostReport(Data(t))
    /\ UNCHANGED <<ringVars, sNum, exitVars>>

\* ReportPacket, for a packet that ends an interval.
Record(t) ==
    /\ thread[t] = "traffic"
    /\ backlog[t] < MaxBacklog
    /\ backlog' = [backlog EXCEPT ![t] = @ + 1]
    /\ UNCHANGED <<queueVars, rpc, pos, thread, final, consumerdone, freed, sNum,
                   exitVars>>

\* EndJob: the final packet goes into the ring ...
EndJob(t) ==
    /\ Goto(t, "traffic", "endjob")
    /\ final' = final \cup {t}
    /\ UNCHANGED <<queueVars, rpc, pos, backlog, consumerdone, freed, sNum, exitVars>>

\* Fault: EndJob does not wait for the reporter.
EndJobNoWait(t) ==
    /\ Goto(t, "endjob", "ended")
    /\ UNCHANGED <<queueVars, rpc, pos, ringVars, sNum, exitVars>>

\* ... and the traffic thread goes on when the reporter is done with it.
EndJobReturn(t) ==
    /\ t \in consumerdone
    /\ Goto(t, "endjob", "ended")
    /\ UNCHANGED <<queueVars, rpc, pos, ringVars, sNum, exitVars>>

\* A UDP client that got the server's statistics posts them last of all.
PostRelay(t) ==
    /\ Goto(t, "ended", "relayed")
    /\ PostReport([kind |-> "relay", of |-> t])
    /\ UNCHANGED <<ringVars, sNum, exitVars>>

NoRelay(t) ==
    /\ Goto(t, "ended", "relayed")
    /\ UNCHANGED <<queueVars, rpc, pos, ringVars, sNum, exitVars>>

\* FreeReport(myJob), by the traffic thread.
FreeData(t) ==
    /\ Goto(t, "relayed", "exit")
    /\ freed' = freed \cup {Data(t)}
    /\ UNCHANGED <<queueVars, rpc, pos, backlog, final, consumerdone, sNum, exitVars>>

\* Fault: the thread is taken off the count twice.
ThreadExitTwice(t) ==
    /\ Goto(t, "exit", IF RunNext[t] = NoThread THEN "gone" ELSE "starting")
    /\ sNum' = sNum - 2
    /\ UNCHANGED <<queueVars, rpc, pos, ringVars, exitVars>>

\* The end of thread_run_wrapper, first half: decrement the count.
ThreadExit(t) ==
    /\ Goto(t, "exit", IF RunNext[t] = NoThread THEN "gone" ELSE "starting")
    /\ sNum' = sNum - 1
    /\ UNCHANGED <<queueVars, rpc, pos, ringVars, exitVars>>

\* Second half: thread_start(thread->runNext), which increments it.
StartRunNext(t) ==
    /\ ~mainGone
    /\ thread[t] = "starting"
    /\ thread' = [thread EXCEPT ![t] = "gone", ![RunNext[t]] = "run"]
    /\ sNum' = sNum + 1
    /\ UNCHANGED <<queueVars, rpc, pos, ringVars, exitVars>>

Traffic(t) ==
    \/ PostConnection(t)
    \/ PostData(t)
    \/ Record(t)
    \/ EndJob(t)
    \/ EndJobReturn(t)
    \/ PostRelay(t)
    \/ NoRelay(t)
    \/ FreeData(t)
    \/ ThreadExit(t)
    \/ StartRunNext(t)

-----------------------------------------------------------------------------
(* The reporter thread.                                                    *)

threadVars == <<thread, ringVars, sNum, exitVars>>

\* Fault: the pending list is not emptied when the queue takes it over.
TakePendingKeep ==
    /\ root' = pending \o root
    /\ pos' = 1
    /\ rpc' = IF root' = <<>> THEN "exitcheck" ELSE "walk"
    /\ UNCHANGED <<pending, threadVars>>

\* The second half of reporter_jobq_set_root: put the pending reports in front
\* of the queue and return its head, NULL leading to the thread count.
TakePending ==
    /\ root' = pending \o root
    /\ pending' = <<>>
    /\ pos' = 1
    /\ rpc' = IF root' = <<>> THEN "exitcheck" ELSE "walk"
    /\ UNCHANGED threadVars

SetRoot ==
    /\ rpc = "setroot"
    /\ root # <<>> \/ pending # <<>> \/ sNum <= 1
    /\ TakePending

\* Nothing to do and other threads alive: wait for a signal or a second ...
SetRootWait ==
    /\ rpc = "setroot"
    /\ root = <<>> /\ pending = <<>> /\ sNum > 1
    /\ rpc' = "wait"
    /\ UNCHANGED <<queueVars, pos, threadVars>>

\* ... and carry on with what there is then.
SetRootWake ==
    /\ rpc = "wait"
    /\ TakePending

\* Fault: an empty queue alone ends the reporter.
ExitWhenEmpty ==
    /\ rpc = "exitcheck"
    /\ rpc' = "leaving"
    /\ UNCHANGED <<queueVars, pos, threadVars>>

\* set_root has returned NULL: now the number of threads is looked at.
ExitCheck ==
    /\ rpc = "exitcheck"
    /\ rpc' = IF sNum > 1 THEN "setroot" ELSE "leaving"
    /\ handover' = (rpc' = "leaving" /\ \E t \in Thread : thread[t] = "starting")
    /\ UNCHANGED <<queueVars, pos, thread, ringVars, sNum, mainGone>>

\* thread_run_wrapper of the reporter.
ReporterExit ==
    /\ rpc = "leaving"
    /\ rpc' = "gone"
    /\ sNum' = sNum - 1
    /\ UNCHANGED <<queueVars, pos, thread, ringVars, exitVars>>

\* reporter_process_report on a data report: dequeue until an interval report
\* was printed, or the ring is empty, or the final packet was handled.
Advance == pos' = pos + 1 /\ rpc' = IF pos = Len(root) THEN "setroot" ELSE "walk"

VisitData(t) ==
    /\ rpc = "walk"
    /\ root[pos] = Data(t)
    /\ \/ /\ backlog[t] > 0
          /\ backlog' = [backlog EXCEPT ![t] = @ - 1]
          /\ Advance
          /\ UNCHANGED consumerdone
       \/ /\ backlog[t] = 0 /\ t \notin final
          /\ Advance
          /\ UNCHANGED <<backlog, consumerdone>>
       \/ /\ backlog[t] = 0 /\ t \in final
          /\ consumerdone' = consumerdone \cup {t}
          /\ rpc' = "unlink"
          /\ UNCHANGED <<backlog, pos>>
    /\ UNCHANGED <<queueVars, thread, final, freed, sNum, exitVars>>

\* The other reports are printed and freed.
VisitOther ==
    /\ rpc = "walk"
    /\ root[pos].kind # "data"
    /\ rpc' = "unlink"
    /\ UNCHANGED <<queueVars, pos, threadVars>>

\* Fault: the rest of the list goes with the removed report.
UnlinkRest ==
    /\ rpc = "unlink"
    /\ root' = SubSeq(root, 1, pos - 1)
    /\ rpc' = "setroot"
    /\ UNCHANGED <<pending, pos, threadVars>>

\* *work_item = tmp, stop at the end of the list; then work_item moves to the
\* link behind tmp, which is so passed over on this walk.
Unlink ==
    /\ rpc = "unlink"
    /\ root' = RemoveAt(root, pos)
    /\ pos' = pos + 1
    /\ rpc' = IF pos + 1 > Len(root') THEN "setroot" ELSE "walk"
    /\ UNCHANGED <<pending, threadVars>>

Reporter ==
    \/ SetRoot
    \/ SetRootWait
    \/ SetRootWake
    \/ ExitCheck
    \/ ReporterExit
    \/ \E t \in Thread : VisitData(t)
    \/ VisitOther
    \/ Unlink

\* thread_joinall in main.
JoinAll ==
    /\ ~mainGone
    /\ sNum = 0
    /\ mainGone' = TRUE
    /\ UNCHANGED <<queueVars, rpc, pos, thread, ringVars, sNum, handover>>

ProcessOver == mainGone /\ UNCHANGED vars

Next == (\E t \in Thread : Traffic(t)) \/ Reporter \/ JoinAll \/ ProcessOver

\* Every thread runs; a test ends, so a traffic thread gets to its EndJob even
\* if it could go on recording.
Fairness ==
    /\ \A t \in Thread : WF_vars(Traffic(t)) /\ SF_vars(EndJob(t))
    /\ WF_vars(Reporter)
    /\ WF_vars(JoinAll)

Spec == Init /\ [][Next]_vars /\ Fairness

-----------------------------------------------------------------------------
(* Properties.                                                             *)

TypeOK ==
    /\ pending \in Seq(Report)
    /\ root \in Seq(Report)
    /\ rpc \in {"setroot", "wait", "exitcheck", "walk", "unlink", "leaving", "gone"}
    /\ pos \in Nat \ {0}
    /\ thread \in [Thread -> {"unborn", "run", "connected", "traffic", "endjob",
                              "ended", "relayed", "exit", "starting", "gone"}]
    /\ backlog \in [Thread -> 0 .. MaxBacklog]
    /\ final \subseteq Thread
    /\ consumerdone \subseteq final
    /\ freed \subseteq {Data(t) : t \in Thread}
    /\ sNum \in 0 .. 1 + Cardinality(Thread)
    /\ mainGone \in BOOLEAN
    /\ handover \in BOOLEAN

\* The reporter never walks onto a data report its traffic thread has freed,
\* although the list link to it is removed only after the traffic thread was
\* told that it may free it.
WalksLiveReports == rpc = "walk" => pos <= Len(root) /\ root[pos] \notin freed

\* No data report is in the queues twice or in both of them: the prepending of
\* pending reports and the removal through work_item keep one list.
QueuedOnce == IsInjective(pending \o root)

\* The queue and the threads that post to it: both of the above.
QueueRight == TypeOK /\ WalksLiveReports /\ QueuedOnce

\* "If equal to 1 then only the reporter thread is alive": when the reporter
\* leaves, every traffic thread is finished and no data report is left behind,
\* except for one window: between a thread's end and the start of its runNext
\* nobody is counted.
ReporterLeavesLast ==
    rpc \in {"leaving", "gone"} /\ ~handover =>
        /\ \A t \in Thread : thread[t] = "gone"
        /\ \A r \in ToSet(pending \o root) : r.kind # "data"

\* Every traffic thread gets through EndJob and finishes, and main with it,
\* however the queue is walked and reports are passed over; except in that
\* window.
AllThreadsFinish == <>(handover \/ (mainGone /\ \A t \in Thread : thread[t] = "gone"))
=============================================================================
