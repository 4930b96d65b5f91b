-------------------------- MODULE ReportEndProofs --------------------------
(***************************************************************************)
(* Proofs about the end of a data report and of a full duplex report: what *)
(* two threads share is used until both are through with it and is freed   *)
(* once.                                                                   *)
(*                                                                         *)
(* The ring (PacketRing), for every ring size and every number of packets: *)
(* the index arithmetic (IndexInv) is correct whatever order the stores    *)
(* become visible in; the contents of the slots (ContentInv) need the      *)
(* memcpy to be visible before pr->producer moves (~StoreReorder).         *)
(*                                                                         *)
(* The data report (TransferReport): the traffic thread and the reporter   *)
(* touch the ring only through packetring_enqueue and packetring_dequeue,  *)
(* so what is shown of the ring holds here; on top of it come the done     *)
(* predicate and the freeing.                                              *)
(*                                                                         *)
(* The barrier (FullDuplexBarrier), for every timeout: one counter serves  *)
(* two meetings, so BarrierRight is not inductive.  What a waiting thread  *)
(* may conclude from the counter depends on which meeting the other one    *)
(* has come to: BarrierInv says what the counter can be when no wait has   *)
(* given up, for each pair of places of the two threads.                   *)
(***************************************************************************)
EXTENDS TransferReport, FullDuplexBarrier, TLAPS

\* What makes IndicesCount inductive: the two decisions taken on a stale read
\* of the other thread's index ("found", "copy") stay right until acted upon.
IndexInv ==
    ~overran =>
        /\ sent - taken = Ahead(consumer, producer)
        /\ cpc = "found" => producer # consumer
        /\ cpc \in {"advanced", "returned", "reading"} => taken > 0
        /\ ppc \in {"copy", "publish"} => producer + 1 # consumer
        /\ ppc = "publish" => NextIndex(producer) # consumer

\* Slot i holds the packet its distance behind the producer says, and the
\* reporter has seen every packet it dequeued.
ContentInv ==
    ~overran =>
        /\ ppc # "late"
        /\ \A i \in Slot :
              /\ Ahead(i, producer) < sent
              /\ ~(ppc = "publish" /\ i = NextIndex(producer))
              => data[i] = sent - Ahead(i, producer)
        /\ ppc = "publish" => data[NextIndex(producer)] = sent + 1
        /\ seen = IF cpc \in {"advanced", "returned"} THEN taken - 1 ELSE taken

-----------------------------------------------------------------------------
\* Every variable of the ring keeps its type; in particular producer and
\* consumer never leave 0 .. maxcount-1, so packetring_enqueue and
\* packetring_dequeue address slots of pr->data only.
THEOREM RingTypeCorrect == RingSpec => []RingTypeOK
<1>1. RingInit => RingTypeOK
  <2> SUFFICES ASSUME RingInit PROVE RingTypeOK OBVIOUS
  <2>1. overran \in BOOLEAN BY DEF RingInit
  <2>2. data \in [Slot -> Nat] BY DEF RingInit
  <2>3. 0 \in Slot BY RingAssumption DEF Slot
  <2> QED BY <2>1, <2>2, <2>3 DEF RingInit, RingTypeOK
<1>2. RingTypeOK /\ [RingNext]_ringVars => RingTypeOK'
  <2> SUFFICES ASSUME RingTypeOK, [RingNext]_ringVars PROVE RingTypeOK'
    OBVIOUS
  <2> USE RingAssumption DEF RingTypeOK, Slot, NextIndex, prodVars, consVars
  <2>1. CASE EnqueueTest BY <2>1 DEF EnqueueTest
  <2>2. CASE EnqueueWait BY <2>2 DEF EnqueueWait
  <2>3. CASE WaitTimeout BY <2>3 DEF WaitTimeout
  <2>4. CASE EnqueueCopy BY <2>4 DEF EnqueueCopy, Store
  <2>5. CASE EnqueuePublish BY <2>5 DEF EnqueuePublish
  <2>6. CASE PublishEarly BY <2>6 DEF PublishEarly
  <2>7. CASE CopyLate BY <2>7 DEF CopyLate
  <2>8. CASE DequeueNull BY <2>8 DEF DequeueNull, ringVars
  <2>9. CASE DequeueFound BY <2>9 DEF DequeueFound
  <2>10. CASE DequeueAdvance BY <2>10 DEF DequeueAdvance
  <2>11. CASE DequeueSignal BY <2>11 DEF DequeueSignal
  <2>12. CASE ReadFirst BY <2>12 DEF ReadFirst
  <2>13. CASE ReadLast BY <2>13 DEF ReadLast
  <2>14. CASE UNCHANGED ringVars BY <2>14 DEF ringVars
  <2> QED
    BY <2>1, <2>2, <2>3, <2>4, <2>5, <2>6, <2>7, <2>8, <2>9, <2>10, <2>11,
       <2>12, <2>13, <2>14 DEF RingNext, Producer, Consumer
<1> QED BY <1>1, <1>2, PTL DEF RingSpec

-----------------------------------------------------------------------------
\* One step of either thread keeps the index arithmetic right.
LEMMA IndexInvStep ==
    ASSUME RingTypeOK, IndexInv, [RingNext]_ringVars PROVE IndexInv'
<1> USE RingAssumption DEF RingTypeOK, Slot, IndexInv, Ahead, prodVars, consVars
<1>1. CASE EnqueueTest BY <1>1 DEF EnqueueTest, Full, NextIndex
<1>2. CASE EnqueueWait BY <1>2 DEF EnqueueWait, NextIndex
<1>3. CASE WaitTimeout BY <1>3 DEF WaitTimeout, NextIndex
<1>4. CASE EnqueueCopy BY <1>4 DEF EnqueueCopy, Store, NextIndex
<1>5. CASE EnqueuePublish BY <1>5 DEF EnqueuePublish, NextIndex
<1>6. CASE PublishEarly
  <2>1. ~overran' => ~overran /\ NextIndex(producer) # consumer
    BY <1>6, Zenon DEF PublishEarly
  <2>2. /\ producer' = NextIndex(producer) /\ sent' = sent + 1 /\ ppc' = "late"
        /\ ppc = "copy" /\ UNCHANGED <<consumer, cpc, taken>>
    BY <1>6 DEF PublishEarly
  <2> HIDE <1>6
  <2> QED BY <2>1, <2>2 DEF NextIndex
<1>7. CASE CopyLate BY <1>7 DEF CopyLate, NextIndex
<1>8. CASE DequeueNull BY <1>8 DEF DequeueNull, ringVars, NextIndex
<1>9. CASE DequeueFound BY <1>9 DEF DequeueFound, NextIndex
<1>10. CASE DequeueAdvance BY <1>10 DEF DequeueAdvance, NextIndex
<1>11. CASE DequeueSignal BY <1>11 DEF DequeueSignal, NextIndex
<1>12. CASE ReadFirst BY <1>12 DEF ReadFirst, NextIndex
<1>13. CASE ReadLast BY <1>13 DEF ReadLast, NextIndex
<1>14. CASE UNCHANGED ringVars BY <1>14 DEF ringVars, NextIndex
<1> QED
  BY <1>1, <1>2, <1>3, <1>4, <1>5, <1>6, <1>7, <1>8, <1>9, <1>10, <1>11,
     <1>12, <1>13, <1>14 DEF RingNext, Producer, Consumer

\* The index arithmetic of packetring_enqueue and packetring_dequeue is right in
\* every reachable state up to a first overrun.
LEMMA IndexInvariant == RingSpec => []IndexInv
<1>1. RingInit => IndexInv
  BY RingAssumption DEF RingInit, IndexInv, Ahead
<1>2. RingTypeOK /\ IndexInv /\ [RingNext]_ringVars => IndexInv'
  BY IndexInvStep
<1> QED BY <1>1, <1>2, RingTypeCorrect, PTL DEF RingSpec

\* The two unlocked indices account for every packet until the ring is
\* overrun, for every ring size and on every memory model.
THEOREM IndicesCountAlways == RingSpec => []IndicesCount
<1>1. IndexInv => IndicesCount BY DEF IndexInv, IndicesCount
<1> QED BY <1>1, IndexInvariant, PTL

\* The first store into the slot the reporter is parked on happens with the
\* reporter on slot 0 and the producer on the last slot, never elsewhere: the
\* test of packetring_enqueue is right for every other position.
THEOREM OverrunConfined == RingSpec => OverrunOnlyAtWrap
<1> DEFINE Confined == ~overran /\ overran' => consumer = 0 /\ producer = MaxCount - 1
<1>1. RingTypeOK /\ IndexInv /\ [RingNext]_ringVars => [Confined]_ringVars
  <2> SUFFICES ASSUME RingTypeOK, IndexInv, [RingNext]_ringVars, ~overran, overran'
               PROVE  consumer = 0 /\ producer = MaxCount - 1
    OBVIOUS
  <2> USE RingAssumption DEF RingTypeOK, Slot, NextIndex
  <2>1. CASE EnqueueCopy BY <2>1 DEF EnqueueCopy, Store, IndexInv
  <2>2. CASE PublishEarly BY <2>2 DEF PublishEarly, IndexInv
  <2>3. ASSUME ~EnqueueCopy, ~PublishEarly PROVE FALSE
    BY <2>3 DEF RingNext, Producer, Consumer, ringVars, EnqueueTest, EnqueueWait,
       WaitTimeout, EnqueuePublish, CopyLate, DequeueNull, DequeueFound,
       DequeueAdvance, DequeueSignal, ReadFirst, ReadLast
  <2> QED BY <2>1, <2>2, <2>3
<1>2. RingSpec => [][Confined]_ringVars
  BY <1>1, RingTypeCorrect, IndexInvariant, PTL DEF RingSpec
<1> QED BY <1>2, PTL DEF OverrunOnlyAtWrap

-----------------------------------------------------------------------------
\* One step of either thread keeps the slots in step with the indices.
LEMMA ContentInvStep ==
    ASSUME ~StoreReorder, RingTypeOK, IndexInv, ContentInv, [RingNext]_ringVars
    PROVE  ContentInv'
<1> USE RingAssumption DEF RingTypeOK, Slot, ContentInv, Ahead, prodVars, consVars
<1>1. CASE EnqueueTest BY <1>1 DEF EnqueueTest, NextIndex
<1>2. CASE EnqueueWait BY <1>2 DEF EnqueueWait, NextIndex
<1>3. CASE WaitTimeout BY <1>3 DEF WaitTimeout, NextIndex
<1>4. CASE EnqueueCopy BY <1>4 DEF EnqueueCopy, Store, NextIndex
<1>5. CASE EnqueuePublish BY <1>5 DEF EnqueuePublish, NextIndex
<1>6. CASE PublishEarly BY <1>6 DEF PublishEarly
<1>7. CASE CopyLate BY <1>7 DEF CopyLate
<1>8. CASE DequeueNull BY <1>8 DEF DequeueNull, ringVars, NextIndex
<1>9. CASE DequeueFound BY <1>9 DEF DequeueFound, NextIndex
<1>10. CASE DequeueAdvance BY <1>10 DEF DequeueAdvance, NextIndex
<1>11. CASE DequeueSignal BY <1>11 DEF DequeueSignal, NextIndex
<1>12. CASE ReadFirst
  BY <1>12 DEF ReadFirst, NextIndex, IndexInv
<1>13. CASE ReadLast BY <1>13 DEF ReadLast, NextIndex
<1>14. CASE UNCHANGED ringVars BY <1>14 DEF ringVars, NextIndex
<1> QED
  BY <1>1, <1>2, <1>3, <1>4, <1>5, <1>6, <1>7, <1>8, <1>9, <1>10, <1>11,
     <1>12, <1>13, <1>14 DEF RingNext, Producer, Consumer

\* The slots hold the packets the indices stand for in every reachable state up
\* to a first overrun, if memcpy is visible before pr->producer moves.
LEMMA ContentInvariant == ~StoreReorder => (RingSpec => []ContentInv)
<1> SUFFICES ASSUME ~StoreReorder PROVE RingSpec => []ContentInv
  OBVIOUS
<1>1. RingInit => ContentInv
  BY RingAssumption DEF RingInit, ContentInv, Ahead, Slot
<1>2. RingTypeOK /\ IndexInv /\ ContentInv /\ [RingNext]_ringVars => ContentInv'
  BY ContentInvStep
<1> QED BY <1>1, <1>2, RingTypeCorrect, IndexInvariant, PTL DEF RingSpec

\* When stores stay in order, the slot behind the pointer packetring_dequeue
\* returned keeps its packet until the reporter is through with it, for every
\* ring size, as long as the ring is not overrun.
THEOREM PointerStableAlways == ~StoreReorder => (RingSpec => []PointerStable)
<1> SUFFICES ASSUME ~StoreReorder PROVE RingSpec => []PointerStable
  OBVIOUS
<1>1. RingTypeOK /\ IndexInv /\ ContentInv => PointerStable
  BY RingAssumption
     DEF RingTypeOK, IndexInv, ContentInv, PointerStable, Slot, Ahead, NextIndex
<1> QED BY <1>1, RingTypeCorrect, IndexInvariant, ContentInvariant, PTL

\* When stores stay in order the ring is a fifo of MaxCount packets up to the
\* first overrun: every step of the unlocked code is a step of PacketFifo.
THEOREM RingImplementsFifo == ~StoreReorder => (RingSpec => ImplementsFifo)
<1> SUFFICES ASSUME ~StoreReorder PROVE RingSpec => ImplementsFifo
  OBVIOUS
<1>1. RingInit => Fifo!Init
  BY DEF RingInit, Fifo!Init
<1>2. RingTypeOK /\ IndexInv /\ ContentInv /\ [RingNext]_ringVars
        => [Fifo!Next]_(Fifo!fifoVars)
  <2> SUFFICES ASSUME RingTypeOK, IndexInv, ContentInv, [RingNext]_ringVars
               PROVE  [Fifo!Next]_(Fifo!fifoVars)
    OBVIOUS
  <2> USE RingAssumption DEF Fifo!Next, Fifo!fifoVars, consVars, prodVars
  <2>1. CASE overran /\ overran'
    BY <2>1, Zenon DEF Fifo!Chaos, RingTypeOK
  <2>2. CASE ~overran
    <3>1. CASE EnqueueCopy
      <4>1. CASE NextIndex(producer) = consumer
        <5>1. sent - seen >= MaxCount - 1
          BY <2>2, <4>1 DEF NextIndex, IndexInv, ContentInv, Ahead, RingTypeOK, Slot
        <5>2. overran' = TRUE /\ UNCHANGED <<sent, seen>>
          BY <3>1, <4>1, Zenon DEF EnqueueCopy, Store
        <5> QED BY <2>2, <5>1, <5>2 DEF Fifo!Break
      <4>2. CASE NextIndex(producer) # consumer
        <5>1. overran' = overran
          BY <2>2, <3>1, <4>2 DEF EnqueueCopy, Store, RingTypeOK
        <5> QED BY <5>1, <3>1 DEF EnqueueCopy
      <4> QED BY <4>1, <4>2
    <3>2. CASE EnqueuePublish
      <4>1. sent - seen < MaxCount
        BY <2>2, <3>2 DEF EnqueuePublish, NextIndex, IndexInv, ContentInv, Ahead,
           RingTypeOK, Slot
      <4> QED BY <2>2, <3>2, <4>1 DEF EnqueuePublish, Fifo!Put
    <3>3. CASE ReadFirst
      <4>1. seen' = seen + 1 /\ seen < sent
        BY <2>2, <3>3 DEF ReadFirst, NextIndex, IndexInv, ContentInv, Ahead,
           RingTypeOK, Slot
      <4> QED BY <2>2, <3>3, <4>1 DEF ReadFirst, Fifo!Get
    <3>4. ASSUME ~EnqueueCopy, ~EnqueuePublish, ~ReadFirst
          PROVE  UNCHANGED <<sent, seen, overran>>
      BY <2>2, <3>4 DEF RingNext, Producer, Consumer, ringVars, EnqueueTest,
         EnqueueWait, WaitTimeout, PublishEarly, CopyLate, DequeueNull,
         DequeueFound, DequeueAdvance, DequeueSignal, ReadLast, ContentInv
    <3> QED BY <3>1, <3>2, <3>3, <3>4
  <2>3. overran => overran'
    BY DEF RingNext, Producer, Consumer, ringVars, EnqueueTest, EnqueueWait, Store,
       WaitTimeout, EnqueueCopy, EnqueuePublish, PublishEarly, CopyLate,
       DequeueNull, DequeueFound, DequeueAdvance, DequeueSignal, ReadFirst, ReadLast
  <2> QED BY <2>1, <2>2, <2>3
<1> QED
  BY <1>1, <1>2, RingTypeCorrect, IndexInvariant, ContentInvariant, PTL
     DEF RingSpec, ImplementsFifo, Fifo!Spec

-----------------------------------------------------------------------------
\* What makes FreedAfterFinal inductive: EndJob goes on only when it has seen
\* the predicate, and the predicate is set only after the final report.
EndInv ==
    /\ consumerdone \in BOOLEAN
    /\ consumerdone => rpc \in {"signal", "removed"}
    /\ FreedAfterFinal

-----------------------------------------------------------------------------
\* Every behaviour of a data report is a behaviour of its ring: EndJob, the
\* final report, the signal and the freeing leave the ring alone or take one of
\* its own steps.
THEOREM TransferIsRing == Spec => RingSpec
<1>1. Init => RingInit BY DEF Init
<1>2. [Next]_vars => [RingNext]_ringVars
  <2> SUFFICES ASSUME [Next]_vars PROVE [RingNext]_ringVars OBVIOUS
  <2>1. CASE ReportPacket BY <2>1 DEF ReportPacket, RingNext
  <2>2. CASE ProcessPacket BY <2>2 DEF ProcessPacket, RingNext
  <2>3. CASE ProcessFinal
    <3>1. ReadLast BY <2>3 DEF ProcessFinal, ReadLast
    <3> QED BY <3>1 DEF RingNext, Consumer
  <2>4. CASE EndJobBegin BY <2>4 DEF EndJobBegin
  <2>5. CASE EndJobLock BY <2>5 DEF EndJobLock
  <2>6. CASE EndJobCheck BY <2>6 DEF EndJobCheck
  <2>7. CASE EndJobTimeout BY <2>7 DEF EndJobTimeout
  <2>8. CASE FreeReport BY <2>8 DEF FreeReport
  <2>9. CASE SetConsumerDone BY <2>9 DEF SetConsumerDone
  <2>10. CASE SignalProducer BY <2>10 DEF SignalProducer
  <2>11. CASE ReportOver \/ UNCHANGED vars BY <2>11 DEF ReportOver, vars
  <2> QED
    BY <2>1, <2>2, <2>3, <2>4, <2>5, <2>6, <2>7, <2>8, <2>9, <2>10, <2>11
       DEF Next, Traffic, Reporter
<1> QED BY <1>1, <1>2, PTL DEF Spec, RingSpec

\* With the traffic thread and the reporter around it the ring is still a fifo,
\* if stores stay in order.
THEOREM TransferImplementsFifo == ~StoreReorder => (Spec => ImplementsFifo)
BY TransferIsRing, RingImplementsFifo

-----------------------------------------------------------------------------
\* One step keeps predicate, waiting traffic thread and reporter in step.
LEMMA EndInvStep == ASSUME EndInv, [Next]_vars PROVE EndInv'
<1> USE DEF EndInv, FreedAfterFinal
<1>1. CASE ReportPacket BY <1>1 DEF ReportPacket
<1>2. CASE ProcessPacket BY <1>2 DEF ProcessPacket, Awake
<1>3. CASE ProcessFinal BY <1>3 DEF ProcessFinal
<1>4. CASE EndJobBegin BY <1>4 DEF EndJobBegin
<1>5. CASE EndJobLock BY <1>5 DEF EndJobLock
<1>6. CASE EndJobCheck BY <1>6 DEF EndJobCheck
<1>7. CASE EndJobTimeout BY <1>7 DEF EndJobTimeout
<1>8. CASE FreeReport BY <1>8 DEF FreeReport
<1>9. CASE SetConsumerDone BY <1>9 DEF SetConsumerDone
<1>10. CASE SignalProducer BY <1>10 DEF SignalProducer, Awake
<1>11. CASE ReportOver \/ UNCHANGED vars BY <1>11 DEF ReportOver, vars
<1> QED
  BY <1>1, <1>2, <1>3, <1>4, <1>5, <1>6, <1>7, <1>8, <1>9, <1>10, <1>11
     DEF Next, Traffic, Reporter

\* The traffic thread frees a data report only after the reporter has handled
\* its final packet, whichever of timeout, signal and predicate ended the wait
\* in EndJob, for every ring size and whatever order stores become visible in.
THEOREM FreedAfterFinalAlways == Spec => []FreedAfterFinal
<1>1. Init => EndInv BY DEF Init, EndInv, FreedAfterFinal
<1>2. EndInv /\ [Next]_vars => EndInv' BY EndInvStep
<1>3. EndInv => FreedAfterFinal BY DEF EndInv
<1> QED BY <1>1, <1>2, <1>3, PTL DEF Spec

-----------------------------------------------------------------------------
\* Only the dequeue of an ordinary packet counts a packet, and an overrun is
\* never forgotten.
LEMMA TakenWhileServing ==
    ASSUME [Next]_vars, rpc # "serve"
    PROVE  rpc' # "serve" /\ taken' = taken /\ (overran => overran')
<1>1. CASE ReportPacket
  <2>1. Producer /\ UNCHANGED rpc BY <1>1 DEF ReportPacket
  <2>2. CASE EnqueueCopy \/ PublishEarly
    BY <2>1, <2>2, Zenon DEF EnqueueCopy, Store, PublishEarly, consVars
  <2>3. CASE EnqueueTest \/ EnqueueWait \/ WaitTimeout \/ EnqueuePublish \/ CopyLate
    BY <2>1, <2>3 DEF EnqueueTest, EnqueueWait, WaitTimeout, EnqueuePublish, CopyLate,
       consVars
  <2> QED BY <2>1, <2>2, <2>3 DEF Producer
<1>2. CASE ProcessPacket \/ ProcessFinal BY <1>2 DEF ProcessPacket, ProcessFinal
<1>3. CASE EndJobBegin BY <1>3 DEF EndJobBegin, ringVars
<1>4. CASE EndJobLock BY <1>4 DEF EndJobLock, ringVars
<1>5. CASE EndJobCheck BY <1>5 DEF EndJobCheck, ringVars
<1>6. CASE EndJobTimeout BY <1>6 DEF EndJobTimeout, ringVars
<1>7. CASE FreeReport BY <1>7 DEF FreeReport, ringVars
<1>8. CASE SetConsumerDone BY <1>8 DEF SetConsumerDone, ringVars
<1>9. CASE SignalProducer BY <1>9 DEF SignalProducer, ringVars
<1>10. CASE ReportOver \/ UNCHANGED vars BY <1>10 DEF ReportOver, vars, ringVars
<1> QED
  BY <1>1, <1>2, <1>3, <1>4, <1>5, <1>6, <1>7, <1>8, <1>9, <1>10
     DEF Next, Traffic, Reporter

\* The reporter comes to the end of the report by the final packet only, and it
\* has then counted as many packets as the number of the packet it looks at.
LEMMA FinalStep ==
    ASSUME ContentInv, [Next]_vars, rpc = "serve", rpc' # "serve", ~overran'
    PROVE  taken' = NumPackets
<1>1. ProcessFinal
  BY DEF Next, Traffic, Reporter, ReportPacket, ProcessPacket, EndJobBegin,
         EndJobLock, EndJobCheck, EndJobTimeout, FreeReport, SetConsumerDone,
         SignalProducer, ReportOver, vars
<1>2. ~overran /\ seen = taken
  BY <1>1 DEF ProcessFinal, ContentInv
<1> QED BY <1>1, <1>2 DEF ProcessFinal

\* If stores stay in order and the ring is not overrun, the final report is
\* printed with every packet of the test counted, for every ring size.
THEOREM FinalReportCompleteAlways == ~StoreReorder => (Spec => []FinalReportComplete)
<1> SUFFICES ASSUME ~StoreReorder PROVE Spec => []FinalReportComplete
  OBVIOUS
<1>1. Init => FinalReportComplete BY DEF Init, FinalReportComplete
<1>2. ContentInv /\ FinalReportComplete /\ [Next]_vars => FinalReportComplete'
  <2> SUFFICES ASSUME ContentInv, FinalReportComplete, [Next]_vars,
                      rpc' # "serve", ~overran'
               PROVE  taken' = NumPackets
    BY DEF FinalReportComplete
  <2>1. CASE rpc = "serve" BY <2>1, FinalStep
  <2>2. CASE rpc # "serve" BY <2>2, TakenWhileServing DEF FinalReportComplete
  <2> QED BY <2>1, <2>2
<1>3. Spec => []ContentInv BY TransferIsRing, ContentInvariant, PTL
<1> QED BY <1>1, <1>2, <1>3, PTL DEF Spec

-----------------------------------------------------------------------------
\* The full duplex barrier.

\* How often a thread has entered the barrier.
Entries(t) ==
    IF pc[t] = "pre" THEN 0
    ELSE IF pc[t] \in {"startwait", "run", "abandoned"} THEN 1 ELSE 2

\* A thread that waits has time left.
WaitsLeft == \A t \in Thread : pc[t] \in {"startwait", "stopwait"} => left[t] > 0

\* Nobody is counted who did not enter, and the report is freed and the socket
\* closed at most once by each thread that is through.
CountBounded ==
    /\ count <= Entries("tx") + Entries("rx")
    /\ frees = closes
    /\ frees <= (IF pc["tx"] = "done" THEN 1 ELSE 0) + (IF pc["rx"] = "done" THEN 1 ELSE 0)

\* Threads t and u are at a and b, and the counter and the frees are c and f.
At(t, u, a, b, c, f) == pc[t] = a /\ pc[u] = b /\ count = c /\ frees = f

\* Where the two threads can be as long as no wait gave up.
Meeting(t, u) ==
    \/ At(t, u, "pre", "pre", 0, 0)
    \/ At(t, u, "startwait", "pre", 1, 0)
    \/ At(t, u, "startwait", "run", 2, 0)
    \/ At(t, u, "startwait", "stopwait", 3, 0)
    \/ At(t, u, "run", "run", 0, 0)
    \/ At(t, u, "run", "stopwait", 1, 0)
    \/ At(t, u, "stopwait", "free", 2, 0)
    \/ At(t, u, "stopwait", "done", 2, 1)
    \/ At(t, u, "done", "free", 0, 0)
    \/ At(t, u, "done", "done", 0, 1)

BarrierInv ==
    /\ TypeOK
    /\ WaitsLeft
    /\ CountBounded
    /\ StartAfterBoth
    /\ ~timedOut => Meeting("tx", "rx") \/ Meeting("rx", "tx")

\* The two threads are each other's other one.
LEMMA OtherThread == Other("tx") = "rx" /\ Other("rx") = "tx"
  BY DEF Other, Thread

\* Before anyone has come.
LEMMA BarrierInitInv == ASSUME ~ServerSide, BarrierInit PROVE BarrierInv
<1>1. pc["tx"] = "pre" /\ pc["rx"] = "pre" /\ pc \in [Thread -> {"pre"}]
  BY DEF BarrierInit, Thread
<1>2. left = [t \in Thread |-> 0] /\ 0 \in 0 .. Timeout /\ 0 \in 0 .. 4 /\ 0 \in 0 .. 2
  BY BarrierAssumption DEF BarrierInit
<1>5. left \in [Thread -> 0 .. Timeout]
  BY <1>2
<1>6. TypeOK /\ WaitsLeft
  BY <1>1, <1>2, <1>5 DEF BarrierInit, TypeOK, WaitsLeft, Thread
<1>3. CountBounded /\ StartAfterBoth
  BY <1>1 DEF BarrierInit, CountBounded, Entries, StartAfterBoth, Thread
<1>4. Meeting("tx", "rx")
  BY <1>1 DEF BarrierInit, Meeting, At
<1> QED BY <1>6, <1>3, <1>4 DEF BarrierInv

\* One step of either thread keeps the invariant.
LEMMA BarrierStepInv ==
    ASSUME ~ServerSide, BarrierInv, NEW t \in Thread, NEW u \in Thread, t # u, Step(t)
    PROVE  BarrierInv'
<1> USE BarrierAssumption, OtherThread
    DEF BarrierInv, TypeOK, WaitsLeft, CountBounded, Entries, StartAfterBoth, Meeting, At,
        Thread, Goto, BarrierTimeout
<1>1. CASE StartEnter(t)
  BY <1>1 DEF StartEnter, Enter
<1>2. CASE StartWait(t)
  <2>1. left' = [left EXCEPT ![t] = @ - 1]
    BY <1>2 DEF StartWait, WaitReturn
  <2>2. CASE count = 2 /\ count' = 0 /\ Goto(t, "run") /\ UNCHANGED timedOut
    BY <1>2, <2>1, <2>2 DEF StartWait
  <2>3. CASE /\ count # 2 /\ left'[t] = 0
             /\ Goto(t, "abandoned") /\ timedOut' = TRUE /\ UNCHANGED count
    BY <1>2, <2>1, <2>3 DEF StartWait
  <2>4. CASE count # 2 /\ left'[t] > 0 /\ UNCHANGED <<count, pc, timedOut>>
    BY <1>2, <2>1, <2>4 DEF StartWait
  <2> QED BY <1>2, <2>2, <2>3, <2>4 DEF StartWait, WaitReturn
<1>3. CASE StopEnter(t)
  BY <1>3 DEF StopEnter, Enter
<1>4. CASE StopWait(t)
  <2>1. left' = [left EXCEPT ![t] = @ - 1]
    BY <1>4 DEF StopWait, WaitReturn
  <2>2. CASE count = 2 /\ count' = 0 /\ Goto(t, "done") /\ UNCHANGED timedOut
    BY <1>4, <2>1, <2>2 DEF StopWait
  <2>3. CASE /\ count # 2 /\ left'[t] = 0
             /\ Goto(t, "free") /\ timedOut' = TRUE /\ UNCHANGED count
    BY <1>4, <2>1, <2>3 DEF StopWait
  <2>4. CASE count # 2 /\ left'[t] > 0 /\ UNCHANGED <<count, pc, timedOut>>
    BY <1>4, <2>1, <2>4 DEF StopWait
  <2> QED BY <1>4, <2>2, <2>3, <2>4 DEF StopWait, WaitReturn
<1>5. CASE FreeAndClose(t)
  BY <1>5 DEF FreeAndClose
<1> QED BY <1>1, <1>2, <1>3, <1>4, <1>5 DEF Step

\* What the runs check follows.  While a thread waits with the counter at two, the
\* other one is about to free the report or has freed it; it is freed once.
LEMMA InvImpliesRight == ASSUME BarrierInv PROVE BarrierRight
<1>1. ~timedOut => frees <= 1
  BY DEF BarrierInv, Meeting, At
<1>2. ~timedOut /\ (\A t \in Thread : pc[t] = "done") => frees = 1 /\ closes = 1
  BY DEF BarrierInv, Meeting, At, CountBounded, Thread
<1> QED BY <1>1, <1>2 DEF BarrierInv, BarrierRight, OneCloses

\* On the client side of a full duplex test, for every timeout: no thread starts
\* its traffic before the other one has come to the start barrier, and unless a
\* wait gave up exactly one of them frees the report and closes the socket
\* (fullduplex_startstop_barrier, EndJob).
THEOREM BarrierRightAlways == ASSUME ~ServerSide PROVE BarrierSpec => []BarrierRight
<1>1. BarrierInit => BarrierInv
  BY BarrierInitInv
<1>2. BarrierInv /\ [BarrierNext]_barrierVars => BarrierInv'
  <2> SUFFICES ASSUME BarrierInv, [BarrierNext]_barrierVars PROVE BarrierInv'
    OBVIOUS
  <2>1. ASSUME NEW t \in Thread, Step(t) PROVE BarrierInv'
    <3>1. PICK u \in Thread : u # t
      BY DEF Thread
    <3> QED BY <2>1, <3>1, BarrierStepInv
  <2>2. CASE UNCHANGED barrierVars
    BY <2>2 DEF barrierVars, BarrierInv, TypeOK, WaitsLeft, CountBounded, Entries,
                StartAfterBoth, Meeting, At
  <2> QED BY <2>1, <2>2 DEF BarrierNext, Over
<1>3. BarrierInv => BarrierRight
  BY InvImpliesRight
<1> QED BY <1>1, <1>2, <1>3, PTL DEF BarrierSpec

-----------------------------------------------------------------------------
\* The report is never freed and the socket never closed.
NobodyCloses == frees = 0 /\ closes = 0

\* On the server side nobody waits and nobody is told to clean up.
NoMeeting ==
    /\ NobodyCloses
    /\ count = 0
    /\ pc \in [Thread -> {"run", "done"}]

\* On the server side, where InitSumReport leaves the timeout at zero, neither
\* thread of any full duplex test frees the report or closes the socket.
THEOREM ServerSideNeverCloses == ASSUME ServerSide PROVE BarrierSpec => []NobodyCloses
<1>1. BarrierInit => NoMeeting
  BY DEF BarrierInit, NoMeeting, NobodyCloses
<1>2. NoMeeting /\ [BarrierNext]_barrierVars => NoMeeting'
  BY DEF NoMeeting, NobodyCloses, BarrierNext, Over, Step, StartEnter, StartWait, StopEnter,
         StopWait, FreeAndClose, Enter, Goto, BarrierTimeout, barrierVars
<1>3. NoMeeting => NobodyCloses
  BY DEF NoMeeting
<1> QED BY <1>1, <1>2, <1>3, PTL DEF BarrierSpec
=============================================================================
