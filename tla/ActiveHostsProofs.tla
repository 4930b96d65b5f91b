------------------------- MODULE ActiveHostsProofs --------------------------
(***************************************************************************)
(* Proofs about ActiveHosts for any hosts, ports and number of             *)
(* connections, TCP and UDP.                                               *)
(*                                                                         *)
(* The properties need, beside each other, that a connection which is past *)
(* its accept has a host and a sum report (Known), that the Listener holds *)
(* the one connection that is accepted and not yet handed on               *)
(* (ListenerHolds), and that there are no more sum reports than accepted   *)
(* connections (SumsInOrder).  FreedWhenUnused is about a decision and the *)
(* step that carries it out: DoomedRight says what stays true in between.  *)
(***************************************************************************)
EXTENDS ActiveHosts, FiniteSetTheorems, TLAPS

SumsInOrder == \A c \in Conn : state[c] = "none" => sums < c
ListenerHolds ==
    \A c \in Conn : state[c] \in {"accepted", "refused", "returned"} <=> listener = c
Known == \A c \in Conn : state[c] # "none" =>
            host[c] \in Host /\ port[c] \in Port /\ sum[c] \in Sum

\* The part of the invariant that speaks of the table's entries,
EntriesRight == TableCounts /\ OneSumPerHost /\ OneServerPerEntry

\* and the part about who is who.
Bookkeeping == SumsInOrder /\ ListenerHolds /\ Known

\* While a sum report waits to be freed its data reports are those of connections
\* turned away, as to their number, and late ones.
DoomedRight ==
    \A s \in Sum \ freed :
        Doomed(s) => Cardinality(Attached(s) \ late) <= Cardinality(Returned(s))

TableInv == TypeOK /\ Bookkeeping /\ EntriesRight /\ RefCounts /\ DoomedRight

-----------------------------------------------------------------------------
\* Sets of connections are finite.
LEMMA ConnFinite ==
    ASSUME NEW S \in SUBSET Conn
    PROVE  IsFiniteSet(S) /\ Cardinality(S) \in 0 .. MaxConn
<1>1. IsFiniteSet(Conn) /\ Cardinality(Conn) <= MaxConn
  BY FS_Interval, ActiveHostsAssumption DEF Conn
<1>2. IsFiniteSet(S) /\ Cardinality(S) <= Cardinality(Conn)
  BY <1>1, FS_Subset
<1>3. Cardinality(S) \in Nat /\ Cardinality(Conn) \in Nat
  BY <1>1, <1>2, FS_CardinalityType
<1> QED BY <1>1, <1>2, <1>3, ActiveHostsAssumption

\* One connection more.
LEMMA AddConn ==
    ASSUME NEW S \in SUBSET Conn, NEW c \in Conn, c \notin S
    PROVE  Cardinality(S \cup {c}) = Cardinality(S) + 1
  BY ConnFinite, FS_AddElement

\* One connection less.
LEMMA RemoveConn ==
    ASSUME NEW S \in SUBSET Conn, NEW c \in S
    PROVE  Cardinality(S \ {c}) = Cardinality(S) - 1
  BY ConnFinite, FS_RemoveElement

\* Nobody is counted where nobody is.
LEMMA NoConn ==
    ASSUME NEW S \in SUBSET Conn
    PROVE  Cardinality(S) = 0 <=> S = {}
  BY ConnFinite, FS_EmptySet

-----------------------------------------------------------------------------
\* The empty table.
LEMMA InitInv == ASSUME Init PROVE TableInv
<1>1. /\ \A h : OfHost(h) = {}
      /\ \A s : Attached(s) = {} /\ Returned(s) = {}
      /\ DOMAIN table = {} /\ Entered = {} /\ \A s : ~Doomed(s)
  BY DEF Init, OfHost, Entered, Attached, Returned, Doomed
<1>2. TypeOK
  BY <1>1, ActiveHostsAssumption DEF Init, TypeOK, Conn, Sum, None
<1>3. Bookkeeping
  BY ActiveHostsAssumption DEF Init, Bookkeeping, SumsInOrder, ListenerHolds, Known, Conn, None
<1>4. EntriesRight
  BY <1>1, FS_EmptySet DEF EntriesRight, TableCounts, OneSumPerHost, OneServerPerEntry
<1>5. RefCounts
  <2>1. \A s \in Sum : ref[s] = 0
    BY DEF Init
  <2>2. Cardinality({}) = 0
    BY FS_EmptySet
  <2>3. \A s \in Sum : Cardinality(Attached(s)) = 0 /\ Cardinality(Returned(s)) = 0
    BY <1>1, <2>2
  <2>4. \A s \in Sum : ref[s] = Cardinality(Attached(s)) - Cardinality(Returned(s))
    BY <2>1, <2>3
  <2> QED BY <2>4 DEF RefCounts
<1>6. DoomedRight
  BY <1>1 DEF DoomedRight
<1> QED BY <1>2, <1>3, <1>4, <1>5, <1>6 DEF TableInv

-----------------------------------------------------------------------------
\* A connection that is in the table finds the entry of its host.
LEMMA EnteredInTable ==
    ASSUME TableInv, NEW c \in Entered
    PROVE  host[c] \in Host /\ host[c] \in DOMAIN table
<1>1. c \in Conn /\ host[c] \in Host /\ c \in OfHost(host[c])
  BY DEF TableInv, Bookkeeping, Known, Entered, OfHost
<1>2. Cardinality(OfHost(host[c])) # 0
  <2>1. OfHost(host[c]) \in SUBSET Conn
    BY DEF OfHost, Entered
  <2> QED BY <1>1, <2>1, NoConn
<1> QED BY <1>1, <1>2 DEF TableInv, EntriesRight, TableCounts

\* An entry with more than one thread and the same with one less.
LEMMA EntryLess ==
    ASSUME NEW e \in [port : Port, count : Conn, sum : Sum], e.count # 1
    PROVE  LET f == [e EXCEPT !.count = @ - 1]
           IN  /\ f \in [port : Port, count : Conn, sum : Sum]
               /\ f.count = e.count - 1 /\ f.port = e.port /\ f.sum = e.sum
<1>1. e.count \in Conn /\ e.count - 1 \in Conn
  BY ActiveHostsAssumption DEF Conn
<1> QED BY <1>1

\* Iperf_remove_host, for a connection that is in the table and leaves it.
LEMMA RemoveHostRight ==
    ASSUME TableInv, NEW c \in Entered, RemoveHost(c),
           NEW x \in {"gone", "refused"}, Set(c, x), UNCHANGED <<host, port, sum, clients>>
    PROVE  /\ DOMAIN table' \subseteq Host
           /\ \A g \in DOMAIN table' : table'[g] \in [port : Port, count : Conn, sum : Sum]
           /\ EntriesRight'
<1> USE DEF TableInv, TypeOK, Bookkeeping, EntriesRight
<1>0. PICK h \in Host : h = host[c]
  BY DEF Entered, Known
<1>1. c \in Conn /\ c \in OfHost(h)
  BY <1>0 DEF Entered, OfHost
<1>2. Entered' = Entered \ {c}
  BY DEF Entered, Set
<1>3. OfHost(h)' = OfHost(h) \ {c} /\ \A g \in Host \ {h} : OfHost(g)' = OfHost(g)
  BY <1>0, <1>1, <1>2 DEF OfHost
<1>4. \A g : OfHost(g) \in SUBSET Conn
  BY DEF OfHost, Entered
<1>5. Cardinality(OfHost(h)') = Cardinality(OfHost(h)) - 1 /\ Cardinality(OfHost(h)) # 0
  BY <1>1, <1>3, <1>4, RemoveConn, NoConn
<1>6. h \in DOMAIN table /\ Cardinality(OfHost(h)) = table[h].count
  BY <1>1, <1>5 DEF TableCounts
<1>7. CASE table[h].count = 1
  <2>1. table' = Without(h)
    BY <1>0, <1>6, <1>7 DEF RemoveHost
  <2>2. DOMAIN table' = DOMAIN table \ {h} /\ \A g \in DOMAIN table' : table'[g] = table[g]
    BY <2>1 DEF Without
  <2>3. TableCounts'
    <3>1. Cardinality(OfHost(h)') = 0 /\ h \notin DOMAIN table'
      BY <1>5, <1>6, <1>7, <2>2
    <3>2. ASSUME NEW g \in Host, g # h
          PROVE  Cardinality(OfHost(g)') = IF g \in DOMAIN table' THEN table'[g].count ELSE 0
      BY <1>3, <2>2, <3>2 DEF TableCounts
    <3> QED BY <3>1, <3>2 DEF TableCounts
  <2>4. OfHost(h)' = {}
    BY <1>3, <1>4, <1>5, <1>6, <1>7, NoConn
  <2>5. OneSumPerHost'
    BY <1>3, <2>2 DEF OneSumPerHost
  <2>6. \A d \in Entered' : host'[d] # h /\ d \in Entered
    BY <1>2, <2>4 DEF OfHost
  <2>7. OneServerPerEntry'
    BY <2>2, <2>6, EnteredInTable DEF OneServerPerEntry
  <2> QED BY <2>2, <2>3, <2>5, <2>7
<1>8. CASE table[h].count # 1
  <2>1. table' = [table EXCEPT ![h].count = @ - 1]
    BY <1>0, <1>6, <1>8 DEF RemoveHost
  <2>2. /\ DOMAIN table' = DOMAIN table
        /\ \A g \in DOMAIN table \ {h} : table'[g] = table[g]
        /\ table'[h] = [table[h] EXCEPT !.count = @ - 1]
    BY <1>6, <2>1
  <2>3. /\ table'[h].count = table[h].count - 1 /\ table'[h].port = table[h].port
        /\ table'[h].sum = table[h].sum
        /\ table'[h] \in [port : Port, count : Conn, sum : Sum]
    BY <1>6, <1>8, <2>2, EntryLess
  <2>4. TableCounts'
    BY <1>3, <1>5, <1>6, <2>2, <2>3 DEF TableCounts
  <2>5. OneSumPerHost'
    BY <1>3, <1>6, <2>2, <2>3 DEF OneSumPerHost
  <2>6. \A g \in DOMAIN table : table'[g].port = table[g].port
    BY <2>2, <2>3
  <2>7. OneServerPerEntry'
    BY <1>2, <2>6, EnteredInTable DEF OneServerPerEntry
  <2> QED BY <2>2, <2>3, <2>4, <2>5, <2>7
<1> QED BY <1>7, <1>8

-----------------------------------------------------------------------------
\* A connection that goes on and stays in the table, or leaves the rest alone.
LEMMA EntriesKept ==
    ASSUME TableInv, Entered' = Entered, UNCHANGED <<table, host, port, sum, clients>>
    PROVE  EntriesRight'
<1>1. \A h : OfHost(h)' = OfHost(h)
  BY DEF OfHost
<1>2. TableCounts' /\ OneSumPerHost'
  BY <1>1 DEF TableInv, EntriesRight, TableCounts, OneSumPerHost
<1>3. OneServerPerEntry'
  BY DEF TableInv, EntriesRight, OneServerPerEntry
<1> QED BY <1>2, <1>3 DEF EntriesRight

\* The reference counts stay right when no connection becomes attached, detached or
\* turned away, and so does what is true of a sum report to be freed.
LEMMA RefsKept ==
    ASSUME TableInv, UNCHANGED <<ref, freed, late>>,
           \A s \in Sum : Attached(s)' = Attached(s) /\ Returned(s)' = Returned(s),
           \A s \in Sum : Doomed(s)' => Doomed(s)
    PROVE  RefCounts' /\ DoomedRight'
<1>1. RefCounts'
  BY DEF TableInv, RefCounts
<1>2. ASSUME NEW s \in Sum \ freed, Doomed(s)'
      PROVE  Cardinality(Attached(s)' \ late') <= Cardinality(Returned(s)')
  BY <1>2 DEF TableInv, DoomedRight
<1>3. DoomedRight'
  BY <1>2 DEF DoomedRight
<1> QED BY <1>1, <1>3

\* Fewer data reports, or more connections turned away, do not harm a sum report to be
\* freed.
LEMMA FewerAttached ==
    ASSUME TableInv, NEW s \in Sum, UNCHANGED late,
           Attached(s)' \subseteq Attached(s), Returned(s) \subseteq Returned(s)',
           Cardinality(Attached(s) \ late) <= Cardinality(Returned(s))
    PROVE  Cardinality(Attached(s)' \ late') <= Cardinality(Returned(s)')
<1>1. /\ Attached(s) \ late \in SUBSET Conn /\ Attached(s)' \ late' \in SUBSET Conn
      /\ Returned(s) \in SUBSET Conn /\ Returned(s)' \in SUBSET Conn
  BY DEF Attached, Returned
<1>2. /\ IsFiniteSet(Attached(s) \ late) /\ IsFiniteSet(Returned(s)')
      /\ Cardinality(Attached(s) \ late) \in Nat /\ Cardinality(Attached(s)' \ late') \in Nat
      /\ Cardinality(Returned(s)) \in Nat /\ Cardinality(Returned(s)') \in Nat
  BY <1>1, ConnFinite
<1>3. Cardinality(Attached(s)' \ late') <= Cardinality(Attached(s) \ late)
  BY <1>2, FS_Subset
<1>4. Cardinality(Returned(s)) <= Cardinality(Returned(s)')
  BY <1>2, FS_Subset
<1> QED BY <1>2, <1>3, <1>4

\* The decision: no more data reports than connections turned away.
LEMMA JustDoomed ==
    ASSUME NEW s \in Sum, Cardinality(Attached(s)') <= Cardinality(Returned(s)')
    PROVE  Cardinality(Attached(s)' \ late') <= Cardinality(Returned(s)')
<1>1. /\ Attached(s)' \in SUBSET Conn /\ Attached(s)' \ late' \in SUBSET Conn
      /\ Returned(s)' \in SUBSET Conn
  BY DEF Attached, Returned
<1>2. /\ IsFiniteSet(Attached(s)') /\ Cardinality(Attached(s)') \in Nat
      /\ Cardinality(Attached(s)' \ late') \in Nat /\ Cardinality(Returned(s)') \in Nat
  BY <1>1, ConnFinite
<1>3. Cardinality(Attached(s)' \ late') <= Cardinality(Attached(s)')
  BY <1>2, FS_Subset
<1> QED BY <1>2, <1>3

-----------------------------------------------------------------------------
\* active_table_update for a connection that was accepted, or for the client of a full
\* duplex test.
LEMMA EnterRight ==
    ASSUME TableInv, NEW c \in Conn, NEW h \in Host, NEW p \in Port, Enter(c, h, p),
           Entered' = Entered \cup {c}, state'[c] # "none",
           \A d \in Conn \ {c} : state'[d] = "none" <=> state[d] = "none",
           clients \subseteq clients', clients' \subseteq clients \cup {c},
           (UDP /\ h \in DOMAIN table => table[h].port # p) \/ c \in clients'
    PROVE  /\ DOMAIN table' \subseteq Host
           /\ \A g \in DOMAIN table' : table'[g] \in [port : Port, count : Conn, sum : Sum]
           /\ host' \in [Conn -> Host \cup {None}] /\ port' \in [Conn -> Port \cup {None}]
           /\ sum' \in [Conn -> Sum \cup {None}] /\ sums' \in 0 .. MaxConn
           /\ EntriesRight' /\ SumsInOrder' /\ Known'
           /\ \A d \in Conn \ {c} : sum'[d] = sum[d]
<1> USE DEF TableInv, TypeOK, Bookkeeping, EntriesRight
<1>1. state[c] = "none" /\ c \notin Entered /\ sums + 1 \in Sum /\ sums < c
  BY ActiveHostsAssumption DEF Enter, Unused, Entered, SumsInOrder, Conn, Sum
<1>2. /\ host' = [host EXCEPT ![c] = h] /\ port' = [port EXCEPT ![c] = p]
      /\ ActiveTableUpdate(c, h, p)
  BY DEF Enter
<1>3. Entered' = Entered \cup {c}
  OBVIOUS
<1>4. OfHost(h)' = OfHost(h) \cup {c} /\ \A g \in Host \ {h} : OfHost(g)' = OfHost(g)
  BY <1>1, <1>2, <1>3 DEF OfHost, Entered
<1>5. /\ Cardinality(OfHost(h)') = Cardinality(OfHost(h)) + 1
      /\ Cardinality(OfHost(h)') \in Conn
  <2>1. OfHost(h) \in SUBSET Conn /\ OfHost(h)' \in SUBSET Conn /\ c \notin OfHost(h)
    BY <1>1, <1>4 DEF OfHost, Entered
  <2>2. Cardinality(OfHost(h)') = Cardinality(OfHost(h)) + 1
    BY <2>1, <1>4, AddConn
  <2> QED BY <2>1, <2>2, ConnFinite, ActiveHostsAssumption DEF Conn
<1>8. CASE h \in DOMAIN table
  <2>1. /\ table' = [table EXCEPT ![h].count = @ + 1]
        /\ sum' = [sum EXCEPT ![c] = table[h].sum] /\ sums' = sums
    BY <1>2, <1>8 DEF ActiveTableUpdate
  <2>2. /\ DOMAIN table' = DOMAIN table
        /\ \A g \in DOMAIN table \ {h} : table'[g] = table[g]
        /\ table'[h].count = table[h].count + 1
        /\ table'[h].port = table[h].port /\ table'[h].sum = table[h].sum
    BY <1>8, <2>1
  <2>3. TableCounts'
    <3>1. Cardinality(OfHost(h)') = table'[h].count /\ h \in DOMAIN table'
      BY <1>5, <1>8, <2>2 DEF TableCounts
    <3>2. ASSUME NEW g \in Host, g # h
          PROVE  Cardinality(OfHost(g)') = IF g \in DOMAIN table' THEN table'[g].count ELSE 0
      BY <1>4, <2>2, <3>2 DEF TableCounts
    <3> QED BY <3>1, <3>2 DEF TableCounts
  <2>4. table'[h] \in [port : Port, count : Conn, sum : Sum]
    <3>1. table'[h].count \in Conn
      BY <1>5, <1>8, <2>2, <2>3 DEF TableCounts
    <3> QED BY <1>8, <2>1, <2>2, <3>1
  <2>5. /\ DOMAIN table' \subseteq Host /\ sums' \in 0 .. MaxConn
        /\ \A g \in DOMAIN table' : table'[g] \in [port : Port, count : Conn, sum : Sum]
        /\ host' \in [Conn -> Host \cup {None}] /\ port' \in [Conn -> Port \cup {None}]
        /\ sum' \in [Conn -> Sum \cup {None}]
    BY <1>2, <1>8, <2>1, <2>2, <2>4
  <2>6. SumsInOrder' /\ Known'
    BY <1>1, <1>2, <1>8, <2>1 DEF SumsInOrder, Known
  <2>7. OneSumPerHost'
    <3>1. \A d \in OfHost(h)' : sum'[d] = table'[h].sum
      BY <1>4, <1>8, <2>1, <2>2 DEF OneSumPerHost, OfHost, Entered
    <3>2. ASSUME NEW g \in DOMAIN table, g # h, NEW d \in OfHost(g)
          PROVE  sum'[d] = table'[g].sum
      BY <1>1, <2>1, <2>2, <3>2 DEF OneSumPerHost, OfHost, Entered
    <3> QED BY <1>4, <2>2, <3>1, <3>2 DEF OneSumPerHost
  <2>8. OneServerPerEntry'
    <3>1. (UDP => table[h].port # p) \/ c \in clients'
      BY <1>8
    <3>2. ASSUME NEW d \in Entered
          PROVE  d # c /\ d \in Conn /\ host'[d] = host[d] /\ port'[d] = port[d]
      BY <1>1, <1>2 DEF Entered
    <3>3. host'[c] = h /\ port'[c] = p
      BY <1>2
    <3>4. \A g \in DOMAIN table : table'[g].port = table[g].port
      BY <2>2
    <3> QED BY <1>3, <1>8, <3>1, <3>2, <3>3, <3>4, EnteredInTable DEF OneServerPerEntry
  <2> QED BY <2>1, <2>3, <2>5, <2>6, <2>7, <2>8
<1>9. CASE h \notin DOMAIN table
  <2>1. /\ sums' = sums + 1 /\ sum' = [sum EXCEPT ![c] = sums']
        /\ table' = With(h, [port |-> p, count |-> 1, sum |-> sums'])
    BY <1>2, <1>9 DEF ActiveTableUpdate
  <2>2. /\ DOMAIN table' = DOMAIN table \cup {h}
        /\ \A g \in DOMAIN table : table'[g] = table[g]
        /\ table'[h] = [port |-> p, count |-> 1, sum |-> sums']
    BY <1>9, <2>1 DEF With
  <2>3. OfHost(h) = {} /\ Cardinality(OfHost(h)) = 0
    <3>1. OfHost(h) \in SUBSET Conn /\ Cardinality(OfHost(h)) = 0
      BY <1>9 DEF TableCounts, OfHost, Entered
    <3> QED BY <3>1, NoConn
  <2>4. TableCounts'
    <3>1. Cardinality(OfHost(h)') = 1 /\ h \in DOMAIN table' /\ table'[h].count = 1
      BY <1>5, <2>2, <2>3
    <3>2. ASSUME NEW g \in Host, g # h
          PROVE  Cardinality(OfHost(g)') = IF g \in DOMAIN table' THEN table'[g].count ELSE 0
      BY <1>4, <2>2, <3>2 DEF TableCounts
    <3> QED BY <3>1, <3>2 DEF TableCounts
  <2>5. /\ DOMAIN table' \subseteq Host /\ sums' \in 0 .. MaxConn
        /\ \A g \in DOMAIN table' : table'[g] \in [port : Port, count : Conn, sum : Sum]
        /\ host' \in [Conn -> Host \cup {None}] /\ port' \in [Conn -> Port \cup {None}]
        /\ sum' \in [Conn -> Sum \cup {None}]
    <3>1. table'[h] \in [port : Port, count : Conn, sum : Sum]
      BY <1>1, <1>5, <2>1, <2>2, <2>3
    <3>2. sums' \in 0 .. MaxConn /\ sums' \in Sum
      BY <1>1, <2>1 DEF Sum
    <3> QED BY <1>2, <2>1, <2>2, <3>1, <3>2
  <2>6. SumsInOrder' /\ Known'
    <3>1. ASSUME NEW d \in Conn, state'[d] = "none" PROVE sums' < d
      <4>1. d # c /\ state[d] = "none"
        BY <3>1
      <4>2. d > c
        BY <4>1 DEF Enter, Unused, Conn
      <4> QED BY <1>1, <2>1, <4>2 DEF Conn
    <3>2. Known'
      BY <1>1, <1>2, <2>1 DEF Known
    <3> QED BY <3>1, <3>2 DEF SumsInOrder
  <2>7. OneSumPerHost'
    <3>1. \A d \in OfHost(h)' : sum'[d] = table'[h].sum
      BY <1>4, <2>1, <2>2, <2>3
    <3>2. ASSUME NEW g \in DOMAIN table, NEW d \in OfHost(g)
          PROVE  sum'[d] = table'[g].sum
      BY <1>1, <2>1, <2>2, <3>2 DEF OneSumPerHost, OfHost, Entered
    <3> QED BY <1>4, <1>9, <2>2, <3>1, <3>2 DEF OneSumPerHost
  <2>8. OneServerPerEntry'
    <3>1. ASSUME NEW d \in Entered
          PROVE  /\ d # c /\ d \in Conn /\ host'[d] = host[d] /\ port'[d] = port[d]
                 /\ host[d] # h
      BY <1>1, <1>2, <1>9, EnteredInTable DEF Entered
    <3>2. host'[c] = h
      BY <1>2
    <3> QED BY <1>3, <2>2, <3>1, <3>2, EnteredInTable DEF OneServerPerEntry
  <2> QED BY <2>1, <2>4, <2>5, <2>6, <2>7, <2>8
<1> QED BY <1>8, <1>9

\* my_accept: nothing is attached yet.
LEMMA AcceptInv ==
    ASSUME TableInv, NEW c \in Conn, NEW h \in Host, NEW p \in Port, Accept(c, h, p)
    PROVE  TableInv'
<1> USE DEF TableInv, TypeOK, Bookkeeping
<1>1. /\ state[c] = "none" /\ state' = [state EXCEPT ![c] = "accepted"] /\ listener' = c
      /\ listener = None /\ Enter(c, h, p) /\ UNCHANGED <<clients, ref, freed, late>>
  BY DEF Accept, Enter, Unused, Set
<1>2. Entered' = Entered \cup {c}
  BY <1>1 DEF Entered
<1>3. UDP /\ h \in DOMAIN table => table[h].port # p
  BY DEF Accept, HostPortPresent
<1>4. \A d \in Conn \ {c} : state'[d] = state[d] /\ sum'[d] = sum[d]
  BY <1>1, <1>2, <1>3, EnterRight
<1>5. \A s \in Sum : Attached(s)' = Attached(s) /\ Returned(s)' = Returned(s)
  BY <1>1, <1>4 DEF Attached, Returned
<1>6. \A s \in Sum : Doomed(s)' => Doomed(s)
  BY <1>1, <1>4 DEF Doomed
<1>7. RefCounts' /\ DoomedRight'
  BY <1>1, <1>5, <1>6, RefsKept
<1>8. ListenerHolds'
  BY <1>1 DEF ListenerHolds, None, Conn
<1>9. TypeOK' /\ EntriesRight' /\ SumsInOrder' /\ Known'
  BY <1>1, <1>2, <1>3, EnterRight
<1> QED BY <1>7, <1>8, <1>9

\* A full duplex test: the server thread goes on, and its client enters the host.
LEMMA StartFullDuplexInv ==
    ASSUME TableInv, NEW c \in Conn, NEW d \in Conn, StartFullDuplex(c, d)
    PROVE  TableInv'
<1> USE DEF TableInv, TypeOK, Bookkeeping
<1>1. /\ state[c] = "accepted" /\ state[d] = "none" /\ c # d /\ listener = c
      /\ state' = [state EXCEPT ![c] = "started", ![d] = "started"] /\ listener' = None
      /\ Enter(d, host[c], port[c]) /\ clients' = clients \cup {d}
      /\ UNCHANGED <<ref, freed, late>>
  BY DEF StartFullDuplex, Enter, Unused, ListenerHolds
<1>2. host[c] \in Host /\ port[c] \in Port
  BY <1>1 DEF Known
<1>3. Entered' = Entered \cup {d}
  BY <1>1 DEF Entered
<1>4. \A e \in Conn \ {d} : state'[e] = "none" <=> state[e] = "none"
  BY <1>1
<1>5. /\ EntriesRight' /\ SumsInOrder' /\ Known'
      /\ \A e \in Conn \ {d} : sum'[e] = sum[e]
      /\ TypeOK'
  BY <1>1, <1>2, <1>3, <1>4, EnterRight
<1>6. \A s \in Sum : Attached(s)' = Attached(s) /\ Returned(s)' = Returned(s)
  BY <1>1, <1>5 DEF Attached, Returned
<1>7. \A s \in Sum : Doomed(s)' => Doomed(s)
  BY <1>1, <1>5 DEF Doomed
<1>8. RefCounts' /\ DoomedRight'
  BY <1>1, <1>6, <1>7, RefsKept
<1>9. ListenerHolds'
  BY <1>1 DEF ListenerHolds, None, Conn
<1> QED BY <1>5, <1>8, <1>9

\* A step in which connection c goes on to x and neither enters nor leaves the
\* table, and what it does to the references of its sum report.
LEMMA MoveInv ==
    ASSUME TableInv, NEW c \in Conn, c \in Entered,
           NEW x \in {"started", "reporting", "final", "dropped", "ended", "closed"}, Set(c, x),
           listener' = (IF listener = c THEN None ELSE listener),
           UNCHANGED <<table, host, port, sum, clients, sums>>,
           ref' \in [Sum -> Int], freed' \subseteq Sum, late' \subseteq Conn,
           RefCounts', DoomedRight'
    PROVE  TableInv'
<1>1. Entered' = Entered
  BY DEF Entered, Set, TableInv, TypeOK
<1>2. EntriesRight'
  BY <1>1, EntriesKept
<1>3. TypeOK'
  BY DEF TableInv, TypeOK, Set, None
<1>4. Bookkeeping'
  <2>1. state' = [state EXCEPT ![c] = x] /\ DOMAIN state = Conn
        /\ state[c] \notin {"none", "refused", "returned"}
    BY DEF Set, Entered, TableInv, TypeOK
  <2>2. SumsInOrder' /\ Known'
    BY <2>1 DEF TableInv, Bookkeeping, SumsInOrder, Known
  <2>3. ListenerHolds'
    BY <2>1 DEF TableInv, Bookkeeping, ListenerHolds, Conn, None
  <2> QED BY <2>2, <2>3 DEF Bookkeeping
<1> QED BY <1>2, <1>3, <1>4 DEF TableInv

\* thread_start_all, EndJob and the closing of the socket change no count.
LEMMA QuietInv ==
    ASSUME TableInv, NEW c \in Conn, StartServer(c) \/ EndJob(c) \/ CloseSocket(c)
    PROVE  TableInv'
<1> USE DEF TableInv, TypeOK, Bookkeeping
<1>1. PICK x \in {"started", "final", "closed"} :
          /\ Set(c, x)
          /\ state[c] = (IF x = "started" THEN "accepted"
                         ELSE IF x = "final" THEN "reporting" ELSE "ended")
  BY DEF StartServer, EndJob, CloseSocket
<1>2. /\ UNCHANGED <<table, host, port, sum, clients, sums, ref, freed, late>>
      /\ listener' = (IF listener = c THEN None ELSE listener)
  BY DEF StartServer, EndJob, CloseSocket, peers, ListenerHolds
<1>3. c \in Entered
  BY <1>1 DEF Entered
<1>4. \A s \in Sum : Attached(s)' = Attached(s) /\ Returned(s)' = Returned(s)
  BY <1>1, <1>2 DEF Set, Attached, Returned
<1>5. \A s \in Sum : Doomed(s)' => Doomed(s)
  BY <1>1, <1>2 DEF Set, Doomed
<1>6. RefCounts' /\ DoomedRight'
  BY <1>2, <1>4, <1>5, RefsKept
<1> QED BY <1>1, <1>2, <1>3, <1>6, MoveInv

\* IncrSumReportRefCounter, in time or late.
LEMMA InitReportInv == ASSUME TableInv, NEW c \in Conn, InitReport(c) PROVE TableInv'
<1> USE DEF TableInv, TypeOK, Bookkeeping
<1>1. PICK s \in Sum : s = sum[c]
  BY DEF InitReport, Known
<1>2. c \in Entered /\ listener # c /\ state[c] = "started"
  BY DEF InitReport, ListenerHolds, Entered
<1>3. /\ \A r \in Sum \ {s} : Attached(r)' = Attached(r) /\ Returned(r)' = Returned(r)
      /\ Attached(s)' = Attached(s) \cup {c} /\ Returned(s)' = Returned(s)
      /\ c \notin Attached(s)
  BY <1>1, <1>2 DEF InitReport, peers, Set, Attached, Returned
<1>4. Cardinality(Attached(s)') = Cardinality(Attached(s)) + 1
  <2>1. Attached(s) \in SUBSET Conn
    BY DEF Attached
  <2> QED BY <1>3, <2>1, AddConn
<1>5. ref' = [ref EXCEPT ![s] = @ + 1] /\ ref' \in [Sum -> Int] /\ freed' = freed
  BY <1>1 DEF InitReport
<1>6. RefCounts'
  <2>1. s \notin freed => ref'[s] = Cardinality(Attached(s)') - Cardinality(Returned(s)')
    <3>1. Cardinality(Attached(s)) \in Int /\ Cardinality(Returned(s)) \in Int
      <4>1. Attached(s) \in SUBSET Conn /\ Returned(s) \in SUBSET Conn
        BY DEF Attached, Returned
      <4> QED BY <4>1, ConnFinite
    <3> QED BY <1>3, <1>4, <1>5, <3>1 DEF RefCounts
  <2> QED BY <1>3, <1>5, <2>1 DEF RefCounts
<1>7. \A r \in Sum : Doomed(r)' <=> Doomed(r)
  BY <1>2 DEF InitReport, peers, Set, Doomed
<1>8. DoomedRight'
  <2> SUFFICES ASSUME NEW r \in Sum \ freed', Doomed(r)'
               PROVE  Cardinality(Attached(r)' \ late') <= Cardinality(Returned(r)')
    BY DEF DoomedRight
  <2>1. Attached(r)' \ late' \subseteq Attached(r) \ late
    <3>1. late \subseteq late'
      BY DEF InitReport
    <3>2. r = s => c \in late'
      BY <1>1, <1>7 DEF InitReport
    <3> QED BY <1>3, <3>1, <3>2
  <2>2. Attached(r) \ late \in SUBSET Conn /\ Attached(r)' \ late' \in SUBSET Conn
    BY <2>1 DEF Attached
  <2>3. /\ IsFiniteSet(Attached(r) \ late) /\ Cardinality(Attached(r) \ late) \in Nat
        /\ Cardinality(Attached(r)' \ late') \in Nat
    BY <2>2, ConnFinite
  <2>4. Cardinality(Attached(r)' \ late') <= Cardinality(Attached(r) \ late)
    BY <2>1, <2>3, FS_Subset
  <2>5. Returned(r) \in SUBSET Conn /\ Returned(r)' = Returned(r)
    BY <1>3 DEF Returned
  <2>6. Cardinality(Returned(r)) \in Nat
    BY <2>5, ConnFinite
  <2>7. Cardinality(Attached(r) \ late) <= Cardinality(Returned(r))
    BY <1>5, <1>7 DEF DoomedRight
  <2> QED BY <2>3, <2>4, <2>5, <2>6, <2>7
<1>9. late' \subseteq Conn
  BY DEF InitReport
<1> QED BY <1>2, <1>5, <1>6, <1>8, <1>9, MoveInv DEF InitReport, peers

\* DecrSumReportRefCounter with the final packet: the count follows the data
\* reports, and at zero there are no more than connections turned away.
LEMMA ReporterFinalInv == ASSUME TableInv, NEW c \in Conn, ReporterFinal(c) PROVE TableInv'
<1> USE DEF TableInv, TypeOK, Bookkeeping
<1>1. PICK s \in Sum : s = sum[c]
  BY DEF ReporterFinal, Known
<1>2. PICK x \in {"dropped", "ended"} : Set(c, x) /\ (x = "dropped" <=> ref'[s] = 0)
  BY <1>1 DEF ReporterFinal
<1>3. /\ \A r \in Sum \ {s} : Attached(r)' = Attached(r) /\ Returned(r)' = Returned(r)
      /\ Attached(s)' = Attached(s) \ {c} /\ Returned(s)' = Returned(s)
      /\ c \in Attached(s)
  BY <1>1, <1>2 DEF ReporterFinal, peers, Set, Attached, Returned
<1>4. Attached(s) \in SUBSET Conn /\ Returned(s) \in SUBSET Conn
  BY DEF Attached, Returned
<1>5. Cardinality(Attached(s)') = Cardinality(Attached(s)) - 1
  BY <1>3, <1>4, RemoveConn
<1>6. Cardinality(Attached(s)) \in Int /\ Cardinality(Returned(s)) \in Int
  BY <1>4, ConnFinite
<1>7. ref' = [ref EXCEPT ![s] = @ - 1] /\ ref' \in [Sum -> Int] /\ UNCHANGED <<freed, late>>
  BY <1>1 DEF ReporterFinal
<1>8. s \notin freed => ref'[s] = Cardinality(Attached(s)') - Cardinality(Returned(s)')
  BY <1>3, <1>5, <1>6, <1>7 DEF RefCounts
<1>9. ASSUME NEW r \in Sum \ freed, r # s
      PROVE  ref'[r] = Cardinality(Attached(r)') - Cardinality(Returned(r)')
  BY <1>3, <1>7, <1>9 DEF RefCounts
<1>10. RefCounts'
  BY <1>7, <1>8, <1>9 DEF RefCounts
<1>11. DoomedRight'
  <2> SUFFICES ASSUME NEW r \in Sum \ freed, Doomed(r)'
               PROVE  Cardinality(Attached(r)' \ late') <= Cardinality(Returned(r)')
    BY <1>7 DEF DoomedRight
  <2>1. CASE Doomed(r)
    <3>1. Attached(r)' \subseteq Attached(r) /\ Returned(r) \subseteq Returned(r)'
      BY <1>3
    <3> QED BY <1>7, <2>1, <3>1, FewerAttached DEF DoomedRight
  <2>2. CASE ~Doomed(r)
    <3>1. r = s /\ x = "dropped"
      BY <1>1, <1>2, <2>2 DEF Doomed, Set, ReporterFinal, peers
    <3>2. Cardinality(Attached(s)') - Cardinality(Returned(s)') = 0
      BY <1>2, <1>8, <3>1
    <3>3. Cardinality(Attached(s)') <= Cardinality(Returned(s)')
      BY <1>3, <1>5, <1>6, <3>2
    <3> QED BY <3>1, <3>3, JustDoomed
  <2> QED BY <2>1, <2>2
<1>12. c \in Entered /\ listener # c
  BY DEF ReporterFinal, ListenerHolds, Entered
<1> QED BY <1>2, <1>7, <1>10, <1>11, <1>12, MoveInv DEF ReporterFinal, peers

\* A sum report that has been freed is not spoken of any more.
LEMMA FreedRefs ==
    ASSUME TableInv, freed \subseteq freed', UNCHANGED <<ref, late>>,
           \A s \in Sum : Attached(s)' = Attached(s) /\ Returned(s)' = Returned(s),
           \A s \in Sum : Doomed(s)' => Doomed(s)
    PROVE  RefCounts' /\ DoomedRight'
<1>1. RefCounts'
  BY DEF TableInv, RefCounts
<1>2. ASSUME NEW s \in Sum \ freed', Doomed(s)'
      PROVE  Cardinality(Attached(s)' \ late') <= Cardinality(Returned(s)')
  BY <1>2 DEF TableInv, DoomedRight
<1> QED BY <1>1, <1>2 DEF DoomedRight

\* FreeSumReport by the reporter.
LEMMA ReporterFreeInv == ASSUME TableInv, NEW c \in Conn, ReporterFree(c) PROVE TableInv'
<1> USE DEF TableInv, TypeOK, Bookkeeping
<1>1. c \in Entered /\ listener # c /\ state[c] = "dropped" /\ sum[c] \in Sum
  BY DEF ReporterFree, ListenerHolds, Known, Entered
<1>2. \A s \in Sum : Attached(s)' = Attached(s) /\ Returned(s)' = Returned(s)
  BY <1>1 DEF ReporterFree, peers, Set, Attached, Returned
<1>3. \A s \in Sum : Doomed(s)' => Doomed(s)
  BY <1>1 DEF ReporterFree, peers, Set, Doomed
<1>4. RefCounts' /\ DoomedRight'
  BY <1>2, <1>3, FreedRefs DEF ReporterFree
<1> QED BY <1>1, <1>4, MoveInv DEF ReporterFree, peers

-----------------------------------------------------------------------------
\* A connection that is turned away leaves the table,
LEMMA RefuseInv == ASSUME TableInv, NEW c \in Conn, Refuse(c) PROVE TableInv'
<1> USE DEF TableInv, TypeOK, Bookkeeping
<1>1. c \in Entered /\ state[c] = "accepted"
  BY DEF Refuse, Entered
<1>2. \A s \in Sum : Attached(s)' = Attached(s) /\ Returned(s)' = Returned(s)
  BY <1>1 DEF Refuse, peers, Set, Attached, Returned
<1>3. \A s \in Sum : Doomed(s)' => Doomed(s)
  BY <1>1 DEF Refuse, peers, Set, Doomed
<1>4. RefCounts' /\ DoomedRight'
  BY <1>2, <1>3, RefsKept DEF Refuse
<1>5. /\ DOMAIN table' \subseteq Host
      /\ \A g \in DOMAIN table' : table'[g] \in [port : Port, count : Conn, sum : Sum]
      /\ EntriesRight'
  BY <1>1, RemoveHostRight DEF Refuse, peers
<1>6. TypeOK'
  BY <1>5 DEF Refuse, peers, Set
<1>7. SumsInOrder' /\ Known' /\ ListenerHolds'
  BY <1>1 DEF Refuse, peers, Set, SumsInOrder, Known, ListenerHolds
<1> QED BY <1>4, <1>5, <1>6, <1>7

\* gives back a reference it did not take, which RefCounts has for it,
LEMMA ReturnReferenceInv ==
    ASSUME TableInv, NEW c \in Conn, ReturnReference(c) PROVE TableInv'
<1> USE DEF TableInv, TypeOK, Bookkeeping
<1>1. state[c] = "refused" /\ listener = c /\ c \notin Entered
  BY DEF ReturnReference, ListenerHolds, Entered
<1>2. PICK s \in Sum : s = sum[c]
  BY <1>1 DEF Known
<1>3. PICK x \in {"returned", "rejected"} :
          /\ Set(c, x) /\ (x = "returned" <=> ref'[s] <= 0)
          /\ listener' = (IF x = "returned" THEN c ELSE None)
  BY <1>1, <1>2 DEF ReturnReference
<1>4. /\ \A r \in Sum \ {s} : Attached(r)' = Attached(r) /\ Returned(r)' = Returned(r)
      /\ Attached(s)' = Attached(s) /\ Returned(s)' = Returned(s) \cup {c}
      /\ c \notin Returned(s)
  BY <1>1, <1>2, <1>3 DEF ReturnReference, peers, Set, Attached, Returned
<1>5. Attached(s) \in SUBSET Conn /\ Returned(s) \in SUBSET Conn
  BY DEF Attached, Returned
<1>6. Cardinality(Returned(s)') = Cardinality(Returned(s)) + 1
  BY <1>4, <1>5, AddConn
<1>7. Cardinality(Attached(s)) \in Int /\ Cardinality(Returned(s)) \in Int
  BY <1>5, ConnFinite
<1>8. ref' = [ref EXCEPT ![s] = @ - 1] /\ ref' \in [Sum -> Int] /\ UNCHANGED <<freed, late>>
  BY <1>2 DEF ReturnReference
<1>9. s \notin freed => ref'[s] = Cardinality(Attached(s)') - Cardinality(Returned(s)')
  BY <1>4, <1>6, <1>7, <1>8 DEF RefCounts
<1>10. ASSUME NEW r \in Sum \ freed, r # s
       PROVE  ref'[r] = Cardinality(Attached(r)') - Cardinality(Returned(r)')
  BY <1>4, <1>8, <1>10 DEF RefCounts
<1>11. RefCounts'
  BY <1>8, <1>9, <1>10 DEF RefCounts
<1>12. DoomedRight'
  <2> SUFFICES ASSUME NEW r \in Sum \ freed, Doomed(r)'
               PROVE  Cardinality(Attached(r)' \ late') <= Cardinality(Returned(r)')
    BY <1>8 DEF DoomedRight
  <2>1. CASE Doomed(r)
    <3>1. Attached(r)' \subseteq Attached(r) /\ Returned(r) \subseteq Returned(r)'
      BY <1>4
    <3> QED BY <1>8, <2>1, <3>1, FewerAttached DEF DoomedRight
  <2>2. CASE ~Doomed(r)
    <3>1. r = s /\ x = "returned"
      BY <1>2, <1>3, <2>2 DEF Doomed, Set, ReturnReference, peers
    <3>2. Cardinality(Attached(s)') - Cardinality(Returned(s)') <= 0
      BY <1>3, <1>9, <3>1
    <3>3. Cardinality(Attached(s)') <= Cardinality(Returned(s)')
      BY <1>4, <1>6, <1>7, <3>2
    <3> QED BY <3>1, <3>3, JustDoomed
  <2> QED BY <2>1, <2>2
<1>13. Entered' = Entered
  BY <1>1, <1>3 DEF Entered, Set
<1>14. EntriesRight'
  BY <1>13, EntriesKept DEF ReturnReference, peers
<1>15. TypeOK'
  BY <1>3, <1>8 DEF ReturnReference, peers, Set
<1>16. SumsInOrder' /\ Known' /\ ListenerHolds'
  BY <1>1, <1>3 DEF ReturnReference, peers, Set, SumsInOrder, Known, ListenerHolds, None, Conn
<1> QED BY <1>11, <1>12, <1>14, <1>15, <1>16

\* and takes the sum report along when the count says so.
LEMMA FreeRefusedInv == ASSUME TableInv, NEW c \in Conn, FreeRefused(c) PROVE TableInv'
<1> USE DEF TableInv, TypeOK, Bookkeeping
<1>1. state[c] = "returned" /\ listener = c /\ sum[c] \in Sum
  BY DEF FreeRefused, ListenerHolds, Known
<1>2. \A s \in Sum : Attached(s)' = Attached(s) /\ Returned(s)' = Returned(s)
  BY <1>1 DEF FreeRefused, peers, Set, Attached, Returned
<1>3. \A s \in Sum : Doomed(s)' => Doomed(s)
  BY <1>1 DEF FreeRefused, peers, Set, Doomed
<1>4. RefCounts' /\ DoomedRight'
  BY <1>2, <1>3, FreedRefs DEF FreeRefused
<1>5. Entered' = Entered
  BY <1>1 DEF FreeRefused, Entered, Set
<1>6. EntriesRight'
  BY <1>5, EntriesKept DEF FreeRefused, peers
<1>7. TypeOK'
  BY <1>1 DEF FreeRefused, peers, Set
<1>8. SumsInOrder' /\ Known' /\ ListenerHolds'
  BY <1>1 DEF FreeRefused, peers, Set, SumsInOrder, Known, ListenerHolds, None, Conn
<1> QED BY <1>4, <1>6, <1>7, <1>8

\* Iperf_remove_host at the end of a server thread.
LEMMA LeaveInv == ASSUME TableInv, NEW c \in Conn, LeaveTable(c) PROVE TableInv'
<1> USE DEF TableInv, TypeOK, Bookkeeping
<1>1. c \in Entered /\ state[c] = "closed"
  BY DEF LeaveTable, Entered
<1>2. \A s \in Sum : Attached(s)' = Attached(s) /\ Returned(s)' = Returned(s)
  BY <1>1 DEF LeaveTable, peers, Set, Attached, Returned
<1>3. \A s \in Sum : Doomed(s)' => Doomed(s)
  BY <1>1 DEF LeaveTable, peers, Set, Doomed
<1>4. RefCounts' /\ DoomedRight'
  BY <1>2, <1>3, RefsKept DEF LeaveTable
<1>5. /\ DOMAIN table' \subseteq Host
      /\ \A g \in DOMAIN table' : table'[g] \in [port : Port, count : Conn, sum : Sum]
      /\ EntriesRight'
  BY <1>1, RemoveHostRight DEF LeaveTable, peers
<1>6. TypeOK'
  BY <1>5 DEF LeaveTable, peers, Set
<1>7. SumsInOrder' /\ Known' /\ ListenerHolds'
  BY <1>1 DEF LeaveTable, peers, Set, SumsInOrder, Known, ListenerHolds
<1> QED BY <1>4, <1>5, <1>6, <1>7

-----------------------------------------------------------------------------
\* Whatever the order of accepts, rejections, reports and ends, the invariant holds.
THEOREM TableInvariant == Spec => []TableInv
<1>1. Init => TableInv
  BY InitInv
<1>2. TableInv /\ [Next]_vars => TableInv'
  <2> SUFFICES ASSUME TableInv, [Next]_vars PROVE TableInv'
    OBVIOUS
  <2>1. ASSUME NEW c \in Conn, ConnNext(c) PROVE TableInv'
    BY <2>1, AcceptInv, StartFullDuplexInv, RefuseInv, ReturnReferenceInv, FreeRefusedInv,
       QuietInv, InitReportInv, ReporterFinalInv, ReporterFreeInv, LeaveInv DEF ConnNext
  <2>2. CASE UNCHANGED vars
    <3>1. /\ Entered' = Entered
          /\ UNCHANGED <<table, host, port, sum, clients, ref, freed, late>>
          /\ \A s \in Sum : Attached(s)' = Attached(s) /\ Returned(s)' = Returned(s)
          /\ \A s \in Sum : Doomed(s)' => Doomed(s)
      BY <2>2 DEF vars, Entered, Attached, Returned, Doomed
    <3>2. EntriesRight' /\ RefCounts' /\ DoomedRight'
      BY <3>1, EntriesKept, RefsKept
    <3>3. TypeOK' /\ Bookkeeping'
      BY <2>2 DEF vars, TableInv, TypeOK, Bookkeeping, SumsInOrder, ListenerHolds, Known
    <3> QED BY <3>2, <3>3 DEF TableInv
  <2> QED BY <2>1, <2>2 DEF Next, AllGone
<1> QED BY <1>1, <1>2, PTL DEF Spec

\* The table's thread counts are the connections that are in it, one sum report
\* serves a host, and the flow the table knows has one server thread, for any
\* hosts and any number of connections (Iperf_push_host, Iperf_remove_host and
\* Iperf_push_host_port_conditional).
THEOREM TableRightAlways == Spec => []TableRight
<1>1. TableInv => TableRight
  BY DEF TableInv, EntriesRight, TableRight
<1> QED BY <1>1, TableInvariant, PTL

\* The reference count of a live sum report is the number of data reports that sum
\* into it, less the connections that were turned away.
THEOREM RefCountsAlways == Spec => []RefCounts
<1>1. TableInv => RefCounts
  BY DEF TableInv
<1> QED BY <1>1, TableInvariant, PTL

\* No step frees a sum report under more data reports than connections of the same
\* host were turned away, but for those attached after the decision (FreeSumReport).
THEOREM FreedWhenUnusedAlways == Spec => FreedWhenUnused
<1>1. TableInv /\ [Next]_vars
        => [\A s \in freed' \ freed :
              Cardinality(Attached(s) \ late) <= Cardinality(Returned(s))]_vars
  <2> SUFFICES ASSUME TableInv, Next, NEW s \in freed' \ freed
               PROVE  Cardinality(Attached(s) \ late) <= Cardinality(Returned(s))
    BY DEF vars
  <2>1. PICK c \in Conn : FreeRefused(c) \/ ReporterFree(c)
    BY DEF Next, AllGone, vars, ConnNext, Accept, Refuse, ReturnReference, StartServer,
           StartFullDuplex, InitReport, EndJob, ReporterFinal, CloseSocket, LeaveTable
  <2>2. s = sum[c] /\ Doomed(s)
    BY <2>1 DEF FreeRefused, ReporterFree, Doomed
  <2>3. s \in Sum
    BY <2>1, <2>2 DEF FreeRefused, ReporterFree, TableInv, Bookkeeping, Known
  <2> QED BY <2>2, <2>3 DEF TableInv, DoomedRight
<1> QED BY <1>1, TableInvariant, PTL DEF Spec, FreedWhenUnused
=============================================================================
