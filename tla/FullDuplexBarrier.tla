------------------------- MODULE FullDuplexBarrier --------------------------
(***************************************************************************)
(* The two threads of a full duplex test, the transmitter (a Client) and   *)
(* the receiver (a Server), share a FullDuplexReport with one barrier      *)
(* (fullduplex_startstop_barrier, src/Launch.cpp).  They meet at it before *)
(* the traffic and again in EndJob (src/Reporter.c), where the thread that *)
(* the barrier gives a non-zero result frees the report and closes the     *)
(* common socket.  On the server side the report is created with           *)
(* isServerReverse (src/Reports.c): there is no start barrier and the      *)
(* timeout keeps the zero of calloc.                                       *)
(*                                                                         *)
(* Condition_TimedWait may end by the broadcast, after its second or       *)
(* spuriously: each end is a WaitReturn and takes one off the timeout.     *)
(***************************************************************************)
EXTENDS Integers, FiniteSets

CONSTANTS
    ServerSide,   \* isServerReverse(inSettings) at InitSumReport
    Timeout       \* fullduplex_barrier.timeout on the client side, at least
                  \* MINBARRIERTIMEOUT

ASSUME BarrierAssumption ==
    /\ ServerSide \in BOOLEAN
    /\ Timeout \in Nat \ {0}

Thread == {"tx", "rx"}
Other(t) == CHOOSE u \in Thread : u # t

\* InitSumReport.
BarrierTimeout == IF ServerSide THEN 0 ELSE Timeout

VARIABLES
    count,      \* fullduplex_barrier.count
    left,       \* the local timeout of a thread in the wait loop
    pc,         \* where each thread is
    frees,      \* history: FreeSumReport calls on the FullDuplexReport
    closes,     \* history: close() calls on the common socket
    timedOut,   \* history: some wait at the barrier gave up
    exited      \* the receiver called exit(-1)

barrierVars == <<count, left, pc, frees, closes, timedOut, exited>>

BarrierInit ==
    /\ count = 0
    /\ left = [t \in Thread |-> 0]
    /\ pc = [t \in Thread |-> IF ServerSide THEN "run" ELSE "pre"]
    /\ frees = 0
    /\ closes = 0
    /\ timedOut = FALSE
    /\ exited = FALSE

Goto(t, s) == pc' = [pc EXCEPT ![t] = s]

\* Fault: the second thread is not told that it is the last one.
EnterSilent(t, through, last, wait) ==
    /\ count' = count + 1
    /\ Goto(t, IF count + 1 = 2 THEN through ELSE wait)
    /\ left' = [left EXCEPT ![t] = BarrierTimeout]

\* Entering fullduplex_startstop_barrier: the second thread goes on to `last'
\* with rc = 1; the first waits, or, with a timeout of zero, resets the count
\* and goes `through' with rc = 0.
Enter(t, through, last, wait) ==
    /\ count' = IF count + 1 # 2 /\ BarrierTimeout = 0 THEN 0 ELSE count + 1
    /\ Goto(t, IF count + 1 = 2 THEN last ELSE IF BarrierTimeout = 0 THEN through ELSE wait)
    /\ left' = [left EXCEPT ![t] = BarrierTimeout]

\* Fault: the wait loop does not look at the count again.
WaitReturnOnce(t, through, gaveup) ==
    /\ count' = 0
    /\ Goto(t, through)
    /\ UNCHANGED <<left, timedOut>>

\* Fault: the wait loop never gives up.
WaitReturnForever(t, through, gaveup) ==
    /\ UNCHANGED <<left, timedOut>>
    /\ \/ count = 2 /\ count' = 0 /\ Goto(t, through)
       \/ count # 2 /\ UNCHANGED <<count, pc>>

\* Fault: the wait loop gives up one wait too late.
WaitReturnLate(t, through, gaveup) ==
    /\ left' = [left EXCEPT ![t] = @ - 1]
    /\ \/ count = 2 /\ count' = 0 /\ Goto(t, through) /\ UNCHANGED timedOut
       \/ count # 2 /\ left'[t] < 0 /\ Goto(t, gaveup) /\ timedOut' = TRUE /\ UNCHANGED count
       \/ count # 2 /\ left'[t] >= 0 /\ UNCHANGED <<count, pc, timedOut>>

\* Condition_TimedWait returns in the wait loop: give up (rc = -1, the count
\* stays), or see the second thread, reset the count and leave (rc = 0), or go
\* on waiting.
WaitReturn(t, through, gaveup) ==
    /\ left' = [left EXCEPT ![t] = @ - 1]
    /\ \/ /\ count = 2
          /\ count' = 0
          /\ Goto(t, through)
          /\ UNCHANGED timedOut
       \/ /\ count # 2
          /\ left'[t] = 0
          /\ Goto(t, gaveup)
          /\ timedOut' = TRUE
          /\ UNCHANGED count
       \/ /\ count # 2
          /\ left'[t] > 0
          /\ UNCHANGED <<count, pc, timedOut>>

-----------------------------------------------------------------------------

\* fullduplex_start_barrier, from StartSynch or InitTrafficLoop.
StartEnter(t) ==
    /\ ~exited
    /\ pc[t] = "pre"
    /\ Enter(t, "run", "run", "startwait")
    /\ UNCHANGED <<frees, closes, timedOut, exited>>

\* When the wait gives up, the transmitter returns without running its test
\* and the receiver ends the process.
StartWait(t) ==
    /\ ~exited
    /\ pc[t] = "startwait"
    /\ WaitReturn(t, "run", "abandoned")
    /\ exited' = (t = "rx" /\ pc'[t] = "abandoned")
    /\ UNCHANGED <<frees, closes>>

\* The traffic is over: EndJob comes to fullduplex_stop_barrier.
StopEnter(t) ==
    /\ ~exited
    /\ pc[t] = "run"
    /\ Enter(t, "done", "free", "stopwait")
    /\ UNCHANGED <<frees, closes, timedOut, exited>>

StopWait(t) ==
    /\ ~exited
    /\ pc[t] = "stopwait"
    /\ WaitReturn(t, "done", "free")
    /\ UNCHANGED <<frees, closes, exited>>

\* A non-zero result: Condition_Destroy, FreeSumReport, and do_close = 1 makes
\* the traffic thread close the socket.
FreeAndClose(t) ==
    /\ ~exited
    /\ pc[t] = "free"
    /\ frees' = frees + 1
    /\ closes' = closes + 1
    /\ Goto(t, "done")
    /\ UNCHANGED <<count, left, timedOut, exited>>

Finished == exited \/ \A t \in Thread : pc[t] \in {"done", "abandoned"}
Over == Finished /\ UNCHANGED barrierVars

Step(t) ==
    \/ StartEnter(t)
    \/ StartWait(t)
    \/ StopEnter(t)
    \/ StopWait(t)
    \/ FreeAndClose(t)

BarrierNext == (\E t \in Thread : Step(t)) \/ Over

\* Both threads run, their traffic ends and a timed wait returns.
BarrierSpec ==
    BarrierInit /\ [][BarrierNext]_barrierVars /\ \A t \in Thread : WF_barrierVars(Step(t))

-----------------------------------------------------------------------------
(* Properties.                                                             *)

TypeOK ==
    /\ count \in 0 .. 4
    /\ left \in [Thread -> 0 .. Timeout]
    /\ pc \in [Thread -> {"pre", "startwait", "run", "stopwait", "free", "done",
                          "abandoned"}]
    /\ frees \in 0 .. 2
    /\ closes \in 0 .. 2
    /\ timedOut \in BOOLEAN
    /\ exited \in BOOLEAN

\* On the client side no thread starts its traffic before the other one has
\* come to the start barrier, however waits end.
StartAfterBoth ==
    ~ServerSide => \A t \in Thread :
        pc[t] \in {"run", "stopwait", "free", "done"} => pc[Other(t)] # "pre"

\* "FullDuplex report gets freed by a traffic thread (per its barrier)": if no
\* wait gave up, the report is never freed twice, and when both threads are
\* through, exactly one of them has freed it and closed the socket they share.
OneCloses ==
    ~timedOut =>
        /\ frees <= 1
        /\ (\A t \in Thread : pc[t] = "done") => frees = 1 /\ closes = 1

\* The barrier does what it is for, at the start and at the end.
BarrierRight == TypeOK /\ StartAfterBoth /\ OneCloses

\* Both threads get through both barriers or give up; none waits for ever.
BothFinish == <>Finished
=============================================================================
