----------------------------- MODULE PacketRing -----------------------------
(***************************************************************************)
(* The lock-free single-producer single-consumer ring of ReportStructs     *)
(* (src/packet_ring.c) between a traffic thread, which calls               *)
(* packetring_enqueue, and the reporter thread, which calls                *)
(* packetring_dequeue and then works on the slot through the returned      *)
(* pointer.  Neither call takes a lock around the indices, so every access *)
(* to shared memory is a step of its own.                                  *)
(*                                                                         *)
(* A packet is its number, 1 .. NumPackets, in the order it is recorded; 0 *)
(* is the content of a slot fresh from calloc.                             *)
(***************************************************************************)
EXTENDS Integers

CONSTANTS
    MaxCount,      \* pr->maxcount, the number of slots
    NumPackets,    \* bound: packets the traffic thread records
    StoreReorder   \* the store to pr->producer may become visible before
                   \* the memcpy of the slot (no barrier between them)

ASSUME RingAssumption ==
    /\ MaxCount \in Nat \ {0}
    /\ NumPackets \in Nat
    /\ StoreReorder \in BOOLEAN

Slot == 0 .. MaxCount - 1

VARIABLES
    data,       \* pr->data
    producer,   \* pr->producer, written by the traffic thread only
    consumer,   \* pr->consumer, written by the reporter only
    ppc,        \* where the traffic thread is in packetring_enqueue
    cpc,        \* where the reporter is in packetring_dequeue and after
    seen,       \* the packet the reporter last found behind the pointer
    sent,       \* history: packets published
    taken,      \* history: dequeues that returned a packet
    overran     \* history: a store hit the slot pr->consumer points at

prodVars == <<producer, ppc, sent>>
consVars == <<consumer, cpc, seen, taken>>
ringVars == <<data, producer, consumer, ppc, cpc, seen, sent, taken, overran>>

\* packetring_init.
RingInit ==
    /\ data = [i \in Slot |-> 0]
    /\ producer = 0
    /\ consumer = 0
    /\ ppc = "test"
    /\ cpc = "idle"
    /\ seen = 0
    /\ sent = 0
    /\ taken = 0
    /\ overran = FALSE

\* Fault: the index runs on past the last slot.
NextIndexNoWrap(i) == i + 1

\* The index after i, as both writeindex and readindex are computed.
NextIndex(i) == IF i + 1 = MaxCount THEN 0 ELSE i + 1

\* Fault: only the first half of the loop condition.
FullHalf == producer = MaxCount /\ consumer = 0

\* The loop condition of packetring_enqueue.
Full ==
    \/ producer = MaxCount /\ consumer = 0
    \/ producer + 1 = consumer

-----------------------------------------------------------------------------
(* packetring_enqueue, one step per access to shared state.                *)

\* Evaluate the loop condition on a fresh read of pr->consumer.
EnqueueTest ==
    /\ ppc = "test"
    /\ sent < NumPackets
    /\ ppc' = IF Full THEN "full" ELSE "copy"
    /\ UNCHANGED <<data, producer, sent, overran, consVars>>

\* Signal the reporter, take awake_producer's mutex and wait for a second.
EnqueueWait ==
    /\ ppc = "full"
    /\ ppc' = "waiting"
    /\ UNCHANGED <<data, producer, sent, overran, consVars>>

\* Fault: an untimed wait, which only a signal ends.
WaitUntimed == FALSE /\ UNCHANGED ringVars

\* Condition_TimedWait returns because the second is over.
WaitTimeout ==
    /\ ppc = "waiting"
    /\ ppc' = "test"
    /\ UNCHANGED <<data, producer, sent, overran, consVars>>

\* memcpy of the packet into the slot.
Store ==
    /\ data' = [data EXCEPT ![NextIndex(producer)] = sent + 1]
    /\ overran' = (overran \/ NextIndex(producer) = consumer)

\* Fault: the index is published and the slot still holds an old packet.
EnqueueNoCopy ==
    /\ ppc = "copy"
    /\ ppc' = "publish"
    /\ UNCHANGED <<data, overran, producer, sent, consVars>>

EnqueueCopy ==
    /\ ppc = "copy"
    /\ Store
    /\ ppc' = "publish"
    /\ UNCHANGED <<producer, sent, consVars>>

\* pr->producer = writeindex, the last line of packetring_enqueue.
EnqueuePublish ==
    /\ ppc = "publish"
    /\ producer' = NextIndex(producer)
    /\ sent' = sent + 1
    /\ ppc' = "test"
    /\ UNCHANGED <<data, overran, consVars>>

\* On a machine that reorders stores the reporter sees the index move first.
PublishEarly ==
    /\ StoreReorder
    /\ ppc = "copy"
    /\ producer' = NextIndex(producer)
    /\ sent' = sent + 1
    /\ overran' = (overran \/ NextIndex(producer) = consumer)
    /\ ppc' = "late"
    /\ UNCHANGED <<data, consVars>>

CopyLate ==
    /\ ppc = "late"
    /\ data' = [data EXCEPT ![producer] = sent]
    /\ ppc' = "test"
    /\ UNCHANGED <<producer, sent, overran, consVars>>

Producer ==
    \/ EnqueueTest
    \/ EnqueueWait
    \/ WaitTimeout
    \/ EnqueueCopy
    \/ EnqueuePublish
    \/ PublishEarly
    \/ CopyLate

-----------------------------------------------------------------------------
(* packetring_dequeue and the use of the pointer it returns.               *)

\* The ring looks empty: NULL is returned.
DequeueNull ==
    /\ cpc = "idle"
    /\ producer = consumer
    /\ UNCHANGED ringVars

\* Fault: the test for an empty ring left out.
DequeueAlways ==
    /\ cpc = "idle"
    /\ cpc' = "found"
    /\ UNCHANGED <<data, prodVars, overran, consumer, seen, taken>>

DequeueFound ==
    /\ cpc = "idle"
    /\ producer # consumer
    /\ cpc' = "found"
    /\ UNCHANGED <<data, prodVars, overran, consumer, seen, taken>>

\* pr->consumer = readindex.
DequeueAdvance ==
    /\ cpc = "found"
    /\ consumer' = NextIndex(consumer)
    /\ taken' = taken + 1
    /\ cpc' = "advanced"
    /\ UNCHANGED <<data, prodVars, overran, seen>>

\* Signal awake_producer when the ring went empty; the wait, if the traffic
\* thread is in it, returns.  Then return the pointer.
DequeueSignal ==
    /\ cpc = "advanced"
    /\ ppc' = IF producer = consumer /\ ppc = "waiting" THEN "test" ELSE ppc
    /\ cpc' = "returned"
    /\ UNCHANGED <<data, producer, sent, overran, consumer, seen, taken>>

\* The packet handlers read the slot through the pointer, first ...
ReadFirst ==
    /\ cpc = "returned"
    /\ seen' = data[consumer]
    /\ cpc' = "reading"
    /\ UNCHANGED <<data, prodVars, overran, consumer, taken>>

\* ... and for the last time, before the next call of packetring_dequeue.
ReadLast ==
    /\ cpc = "reading"
    /\ cpc' = "idle"
    /\ UNCHANGED <<data, prodVars, overran, consumer, seen, taken>>

Consumer ==
    \/ DequeueNull
    \/ DequeueFound
    \/ DequeueAdvance
    \/ DequeueSignal
    \/ ReadFirst
    \/ ReadLast

RingNext == Producer \/ Consumer

RingSpec == RingInit /\ [][RingNext]_ringVars

\* Both threads keep running; a timed wait ends.
FairRingSpec == RingSpec /\ WF_ringVars(Producer) /\ WF_ringVars(Consumer)

-----------------------------------------------------------------------------
(* Properties.                                                             *)

\* Every variable has its type; both indices stay inside pr->data (the memcpy
\* and the returned pointer address a real slot).
RingTypeOK ==
    /\ data \in [Slot -> Nat]
    /\ producer \in Slot
    /\ consumer \in Slot
    /\ ppc \in {"test", "full", "waiting", "copy", "publish", "late"}
    /\ cpc \in {"idle", "found", "advanced", "returned", "reading"}
    /\ seen \in Nat
    /\ sent \in Nat
    /\ taken \in Nat
    /\ overran \in BOOLEAN

\* Distance from index i forward to index j around the ring: the number of
\* unread packets when i is the consumer and j the producer.
Ahead(i, j) == IF j >= i THEN j - i ELSE j - i + MaxCount

\* While no store has hit the consumer's slot, the two unlocked indices
\* account for every packet: what is between them is exactly what has been
\* published and not dequeued, so nothing is lost, repeated or invented by
\* the wrap-around arithmetic of packetring_enqueue and packetring_dequeue.
IndicesCount == ~overran => sent - taken = Ahead(consumer, producer)

\* While no store has hit the consumer's slot, the pointer packetring_dequeue
\* returned still refers to the packet it was returned for, from the moment
\* pr->consumer advances until the reporter is through with it, although the
\* slot counts as free again as soon as pr->consumer has advanced.
PointerStable ==
    ~overran /\ cpc \in {"advanced", "returned", "reading"}
        => data[consumer] = taken

\* A store of packetring_enqueue can hit the consumer's slot in one situation
\* only: the reporter is parked on slot 0 and the producer on the last slot.
OverrunOnlyAtWrap ==
    [][~overran /\ overran' => consumer = 0 /\ producer = MaxCount - 1]_ringVars

\* What the comment in packetring_enqueue promises, "Wait for the consumer to
\* create some queue space": a full ring makes the traffic thread wait, so the
\* reporter finds every packet, one after the other.
NothingLost == [][seen' # seen => seen' = seen + 1]_ringVars

\* The traffic thread never gets stuck in packetring_enqueue, whatever wakeup
\* is missed between the full test and the wait.
AllEnqueued == <>(sent = NumPackets)

\* The ring implements the fifo: the packet numbers the reporter finds behind
\* the pointers are 1, 2, 3, ... with no gap and no repetition.
Fifo == INSTANCE PacketFifo WITH
            Capacity <- MaxCount, put <- sent, got <- seen, broken <- overran

ImplementsFifo == Fifo!Spec

=============================================================================
