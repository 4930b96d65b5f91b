--------------------------- MODULE TransferReport ---------------------------
(***************************************************************************)
(* The end of a data report: a traffic thread that records its packets,    *)
(* pushes the final one (packetID -1) through the ring and waits in EndJob *)
(* (src/Reporter.c) until the reporter says it is done with the report,    *)
(* after which the traffic thread frees it; and the reporter that serves   *)
(* the ring, prints the final report and signals.  The ring is the one of  *)
(* PacketRing; its packet number NumPackets is the final packet.           *)
(***************************************************************************)
EXTENDS PacketRing

VARIABLES
    tpc,            \* the traffic thread: "run", "ending" (final packet on its
                    \* way), "check", "waiting", "done", "freed"
    rpc,            \* the reporter: "serve", "final", "signal", "removed"
    consumerdone    \* pr->consumerdone

vars == <<ringVars, tpc, rpc, consumerdone>>

Init ==
    /\ RingInit
    /\ tpc = "run"
    /\ rpc = "serve"
    /\ consumerdone = FALSE

-----------------------------------------------------------------------------
(* The traffic thread.                                                     *)

\* ReportPacket: a step of packetring_enqueue, for an ordinary packet or, in
\* EndJob, for the final one.
ReportPacket ==
    /\ \/ tpc = "run" /\ (ppc = "test" => sent < NumPackets - 1)
       \/ tpc = "ending"
    /\ Producer
    /\ UNCHANGED <<tpc, rpc, consumerdone>>

\* EndJob up to the enqueue of the final packet: clear the done predicate.
EndJobBegin ==
    /\ tpc = "run"
    /\ ppc = "test"
    /\ sent = NumPackets - 1
    /\ consumerdone' = FALSE
    /\ tpc' = "ending"
    /\ UNCHANGED <<ringVars, rpc>>

\* The final packet is in the ring; lock awake_producer.
EndJobLock ==
    /\ tpc = "ending"
    /\ ppc = "test"
    /\ sent = NumPackets
    /\ tpc' = "check"
    /\ UNCHANGED <<ringVars, rpc, consumerdone>>

\* Fault: a wait that ended is taken for the reporter being done.
EndJobCheckOnce ==
    /\ tpc = "check"
    /\ tpc' \in {"waiting", "done"}
    /\ UNCHANGED <<ringVars, rpc, consumerdone>>

\* while (!consumerdone) Condition_TimedWait
EndJobCheck ==
    /\ tpc = "check"
    /\ tpc' = IF consumerdone THEN "done" ELSE "waiting"
    /\ UNCHANGED <<ringVars, rpc, consumerdone>>

EndJobTimeout ==
    /\ tpc = "waiting"
    /\ tpc' = "check"
    /\ UNCHANGED <<ringVars, rpc, consumerdone>>

\* FreeReport of the data report: Free_iReport, packetring_free.
FreeReport ==
    /\ tpc = "done"
    /\ tpc' = "freed"
    /\ UNCHANGED <<ringVars, rpc, consumerdone>>

Traffic ==
    \/ ReportPacket
    \/ EndJobBegin
    \/ EndJobLock
    \/ EndJobCheck
    \/ EndJobTimeout
    \/ FreeReport

-----------------------------------------------------------------------------
(* The reporter on this report.                                            *)

\* awake_producer is signalled: whoever waits on it looks again.
Awake == tpc' = IF tpc = "waiting" THEN "check" ELSE tpc

\* The dequeue loop of reporter_process_transfer_report on ordinary packets.
\* The signal packetring_dequeue sends for an empty ring goes to the condition
\* EndJob waits on as well.
ProcessPacket ==
    /\ rpc = "serve"
    /\ ~(cpc = "reading" /\ seen = NumPackets)
    /\ Consumer
    /\ IF cpc = "advanced" /\ producer = consumer THEN Awake ELSE UNCHANGED tpc
    /\ UNCHANGED <<rpc, consumerdone>>

\* Fault: an empty ring ends the report.
ProcessFinalOnEmpty ==
    /\ rpc = "serve"
    /\ cpc = "idle"
    /\ producer = consumer
    /\ rpc' = "final"
    /\ UNCHANGED <<ringVars, tpc, consumerdone>>

\* packetID < 0: the final report is printed and the loop ends.
ProcessFinal ==
    /\ rpc = "serve"
    /\ cpc = "reading"
    /\ seen = NumPackets
    /\ cpc' = "idle"
    /\ rpc' = "final"
    /\ UNCHANGED <<data, prodVars, consumer, seen, taken, overran, tpc, consumerdone>>

\* Fault: the signal is sent and the predicate is never set.
SignalWithoutDone ==
    /\ rpc = "final"
    /\ rpc' = "signal"
    /\ UNCHANGED <<ringVars, tpc, consumerdone>>

\* pr->consumerdone = 1, with no lock held.
SetConsumerDone ==
    /\ rpc = "final"
    /\ consumerdone' = TRUE
    /\ rpc' = "signal"
    /\ UNCHANGED <<ringVars, tpc>>

\* Condition_Signal(pr->awake_producer); the report leaves the job queue.
SignalProducer ==
    /\ rpc = "signal"
    /\ Awake
    /\ rpc' = "removed"
    /\ UNCHANGED <<ringVars, consumerdone>>

\* The reporter has other reports to serve and the process goes on.
ReportOver ==
    /\ rpc = "removed"
    /\ tpc = "freed"
    /\ UNCHANGED vars

Reporter == ProcessPacket \/ ProcessFinal \/ SetConsumerDone \/ SignalProducer

Next == Traffic \/ Reporter \/ ReportOver

\* The operating system runs both threads; a timed wait ends.
Spec == Init /\ [][Next]_vars /\ WF_vars(Traffic) /\ WF_vars(Reporter)

-----------------------------------------------------------------------------
(* Properties.                                                             *)

\* The traffic thread frees the report only when the reporter has handled its
\* last packet: no dequeue, no packet handler and no final report ever runs on
\* a freed ring, whichever of signal, timeout and predicate ended the wait.
FreedAfterFinal == tpc \in {"done", "freed"} => rpc \in {"signal", "removed"}

\* The final report is printed with every packet counted: unless the ring was
\* overrun, the reporter has read all packets when it handles the final one.
FinalReportComplete == rpc # "serve" /\ ~overran => taken = NumPackets

\* EndJob returns and the report is freed, unless the ring was overrun: the
\* final packet may then be one of those that are gone, and EndJob waits on.
EndJobReturns == <>(overran \/ tpc = "freed")

\* The reporter signals a live ring: "Data Reports are special because the
\* traffic thread needs to free them, just signal".
SignalBeforeFree == rpc = "signal" => tpc # "freed"
=============================================================================
