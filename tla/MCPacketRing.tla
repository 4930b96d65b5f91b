---------------------------- MODULE MCPacketRing ----------------------------
\* TLC instances of PacketRing: a ring of MaxCount slots and enough packets to
\* go round it more than twice, so that the ring fills at every position of
\* the consumer.
EXTENDS PacketRing
=============================================================================
