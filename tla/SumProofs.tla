----------------------------- MODULE SumProofs ------------------------------
(***************************************************************************)
(* Proofs about the reports whose numbers are sums over threads or over    *)
(* frames: IntervalSum, for any number of threads, any interval and any    *)
(* combination of settings, and IsochFrames, for any frame sizes, any      *)
(* latencies, any confidence limits and any number of datagrams in flight. *)
(*                                                                         *)
(* Both need sums over finite sets, which come first.  SumFunctionOnSet is *)
(* a fold and cannot be computed by induction here; it is compared with    *)
(* the number of elements of a set of pairs (Units), about which the       *)
(* theorems on finite sets say enough.                                     *)
(*                                                                         *)
(* IntervalSum: SumRight and SumKeepsPace hold because of what a thread    *)
(* has passed on and what the sum report counts (IntervalInv); the         *)
(* history variables alone do not say it.                                  *)
(*                                                                         *)
(* IsochFrames: the client is proved by itself (ClientInv).  What the      *)
(* server counts depends on what can still come: StreamInv says of every   *)
(* datagram in flight which frames were sent before its own, and, as long  *)
(* as the network keeps the order, that none starts a frame whose latency  *)
(* was taken.                                                              *)
(***************************************************************************)
EXTENDS IntervalSum, IsochFrames, FiniteSetTheorems, TLAPS

-----------------------------------------------------------------------------
\* Sums of naturals over finite sets.

\* As many pairs with x as f[x] says, for every x in S.
Units(f, S) == UNION {{x} \X (1..f[x]) : x \in S}

\* They are finitely many,
LEMMA UnitsFinite ==
  ASSUME NEW S, IsFiniteSet(S), NEW f, \A x \in S : f[x] \in Nat
  PROVE  IsFiniteSet(Units(f, S))
<1>1. ASSUME NEW x \in S PROVE IsFiniteSet({x} \X (1..f[x]))
  <2>1. IsFiniteSet({x})
    BY FS_Singleton
  <2>2. IsFiniteSet(1..f[x])
    BY FS_Interval
  <2> QED BY <2>1, <2>2, FS_Product
<1> DEFINE g == [x \in S |-> {x} \X (1..f[x])]
           T == {{x} \X (1..f[x]) : x \in S}
<1>2. g \in Surjection(S, T)
  BY DEF Surjection
<1>3. IsFiniteSet(T)
  BY <1>2, FS_Surjection
<1> QED BY <1>1, <1>3, FS_UNION DEF Units

\* those of one element can be counted apart,
LEMMA UnitsStep ==
  ASSUME NEW S, IsFiniteSet(S), NEW x \in S, NEW f, \A y \in S : f[y] \in Nat
  PROVE  /\ Cardinality(Units(f, S)) = f[x] + Cardinality(Units(f, S \ {x}))
         /\ Cardinality(Units(f, S)) \in Nat
<1> DEFINE A == {x} \X (1..f[x])
           B == Units(f, S \ {x})
<1>1. Units(f, S) = A \cup B
  BY DEF Units
<1>2. A \cap B = {}
  BY DEF Units
<1>3. IsFiniteSet(A) /\ Cardinality(A) = f[x]
  <2>1. IsFiniteSet({x}) /\ Cardinality({x}) = 1
    BY FS_Singleton
  <2>2. IsFiniteSet(1..f[x]) /\ Cardinality(1..f[x]) = f[x]
    BY FS_Interval
  <2>3. IsFiniteSet(A) /\ Cardinality(A) = Cardinality({x}) * Cardinality(1..f[x])
    BY <2>1, <2>2, FS_Product
  <2> QED BY <2>1, <2>2, <2>3
<1>4. IsFiniteSet(S \ {x})
  BY FS_RemoveElement
<1>5. IsFiniteSet(B)
  BY <1>4, UnitsFinite
<1>6. Cardinality(A \cup B) = Cardinality(A) + Cardinality(B) - Cardinality(A \cap B)
  <2> HIDE DEF A, B
  <2> QED BY <1>2, <1>3, <1>5, FS_Union
<1>7. Cardinality(A) \in Nat /\ Cardinality(B) \in Nat
  BY <1>3, <1>5, FS_CardinalityType
<1>8. Cardinality(A \cap B) = 0
  BY <1>2, FS_EmptySet
<1> HIDE DEF A, B
<1>9. Cardinality(Units(f, S)) = f[x] + Cardinality(B) /\ Cardinality(Units(f, S)) \in Nat
  BY <1>1, <1>3, <1>6, <1>7, <1>8
<1> QED BY <1>9 DEF B

\* and the fold of the community modules counts them.  The function that it
\* chooses exists, because counting is one, and no smallest set tells the two apart.
LEMMA SumIsUnits ==
  ASSUME NEW S, IsFiniteSet(S), NEW f, \A x \in S : f[x] \in Nat
  PROVE  SumFunctionOnSet(f, S) = Cardinality(Units(f, S))
<1> DEFINE Pick(s) == CHOOSE x \in s : TRUE
           Rec(g) == [s \in SUBSET S |-> IF s = {} THEN 0 ELSE f[Pick(s)] + g[s \ {Pick(s)}]]
           h == [s \in SUBSET S |-> Cardinality(Units(f, s))]
           iter == CHOOSE g : g = Rec(g)
<1>1. \A s \in SUBSET S : s # {} => Pick(s) \in s
  OBVIOUS
<1>2. h = Rec(h)
  <2>1. ASSUME NEW s \in SUBSET S PROVE h[s] = Rec(h)[s]
    <3>1. CASE s = {}
      BY <3>1, FS_EmptySet DEF Units
    <3>2. CASE s # {}
      <4>1. IsFiniteSet(s) /\ Pick(s) \in s
        BY <3>2, FS_Subset
      <4>2. s \ {Pick(s)} \in SUBSET S
        OBVIOUS
      <4> HIDE DEF Pick
      <4>3. Cardinality(Units(f, s)) = f[Pick(s)] + Cardinality(Units(f, s \ {Pick(s)}))
        BY <4>1, UnitsStep
      <4> QED BY <3>2, <4>2, <4>3
    <3> QED BY <3>1, <3>2
  <2> QED BY <2>1
<1>3. iter = Rec(iter)
  BY <1>2
<1>4. SumFunctionOnSet(f, S) = iter[S]
  BY DEF SumFunctionOnSet, FoldFunctionOnSet, MapThenFoldSet
<1> HIDE DEF iter
<1> DEFINE bad == {s \in SUBSET S : iter[s] # h[s]}
<1>5. bad = {}
  <2> SUFFICES ASSUME bad # {} PROVE FALSE
    OBVIOUS
  <2>1. IsWellFoundedOn(StrictSubsetOrdering(S), SUBSET S)
    BY FS_StrictSubsetOrderingWellFounded, FS_FiniteSubsetsOfFinite
  <2>2. PICK s \in bad : \A r \in bad : <<r, s>> \notin StrictSubsetOrdering(S)
    <3> HIDE DEF bad
    <3>1. bad \subseteq SUBSET S
      BY DEF bad
    <3> QED BY <2>1, <3>1, WFMin
  <2>3. s # {}
    BY <1>2, <1>3
  <2>4. Pick(s) \in s
    BY <2>3
  <2> HIDE DEF Pick
  <2> DEFINE r == s \ {Pick(s)}
  <2>5. r \in SUBSET S /\ <<r, s>> \in StrictSubsetOrdering(S)
    BY <2>4 DEF StrictSubsetOrdering
  <2>6. iter[r] = h[r]
    BY <2>2, <2>5
  <2>7. iter[s] = f[Pick(s)] + iter[r]
    BY <1>3, <2>3
  <2>8. h[s] = f[Pick(s)] + h[r]
    BY <1>2, <2>3
  <2> QED BY <2>6, <2>7, <2>8
<1> QED BY <1>4, <1>5

\* The sum is a natural number, without one element it is less by that one's
\* value,
LEMMA SumSplit ==
  ASSUME NEW S, IsFiniteSet(S), NEW f, \A y \in S : f[y] \in Nat
  PROVE  /\ SumFunctionOnSet(f, S) \in Nat
         /\ \A x \in S : SumFunctionOnSet(f, S) = f[x] + SumFunctionOnSet(f, S \ {x})
<1>1. SumFunctionOnSet(f, S) = Cardinality(Units(f, S))
  BY SumIsUnits
<1>2. SumFunctionOnSet(f, S) \in Nat
  BY <1>1, UnitsFinite, FS_CardinalityType
<1>3. ASSUME NEW x \in S PROVE SumFunctionOnSet(f, S) = f[x] + SumFunctionOnSet(f, S \ {x})
  <2>1. IsFiniteSet(S \ {x})
    BY FS_RemoveElement
  <2>2. SumFunctionOnSet(f, S \ {x}) = Cardinality(Units(f, S \ {x}))
    BY <2>1, SumIsUnits
  <2> QED BY <1>1, <2>2, UnitsStep
<1> QED BY <1>2, <1>3

\* it depends on the values in the set only,
LEMMA SumSame ==
  ASSUME NEW S, IsFiniteSet(S), NEW f, NEW g, \A y \in S : f[y] \in Nat /\ g[y] = f[y]
  PROVE  SumFunctionOnSet(g, S) = SumFunctionOnSet(f, S)
<1>1. Units(g, S) = Units(f, S)
  BY DEF Units
<1>2. SumFunctionOnSet(f, S) = Cardinality(Units(f, S))
  BY SumIsUnits
<1>3. SumFunctionOnSet(g, S) = Cardinality(Units(g, S))
  BY SumIsUnits
<1> QED BY <1>1, <1>2, <1>3

\* it changes by what one value changes,
LEMMA SumChange ==
  ASSUME NEW S, IsFiniteSet(S), NEW f, NEW g, \A y \in S : f[y] \in Nat,
         NEW x \in S, g[x] \in Nat, \A y \in S \ {x} : g[y] = f[y]
  PROVE  SumFunctionOnSet(g, S) = SumFunctionOnSet(f, S) + (g[x] - f[x])
<1>1. IsFiniteSet(S \ {x})
  BY FS_RemoveElement
<1>2. SumFunctionOnSet(g, S \ {x}) = SumFunctionOnSet(f, S \ {x})
  BY <1>1, SumSame
<1>3. SumFunctionOnSet(f, S) = f[x] + SumFunctionOnSet(f, S \ {x})
  BY SumSplit
<1>4. SumFunctionOnSet(g, S) = g[x] + SumFunctionOnSet(g, S \ {x})
  <2>1. \A y \in S : g[y] \in Nat
    OBVIOUS
  <2> QED BY <2>1, SumSplit
<1>5. SumFunctionOnSet(f, S \ {x}) \in Nat
  BY <1>1, SumSplit
<1>6. f[x] \in Nat
  OBVIOUS
<1> QED BY <1>2, <1>3, <1>4, <1>5, <1>6

\* and grows by the value of an element that comes in.
LEMMA SumNew ==
  ASSUME NEW S, IsFiniteSet(S), NEW f, NEW g, \A y \in S : f[y] \in Nat /\ g[y] = f[y],
         NEW x, x \notin S, g[x] \in Nat
  PROVE  SumFunctionOnSet(g, S \cup {x}) = SumFunctionOnSet(f, S) + g[x]
<1> DEFINE T == S \cup {x}
<1>1. IsFiniteSet(T)
  BY FS_AddElement
<1>2. x \in T /\ T \ {x} = S /\ \A y \in T : g[y] \in Nat
  OBVIOUS
<1> HIDE DEF T
<1>3. SumFunctionOnSet(g, T) = g[x] + SumFunctionOnSet(g, S)
  BY <1>1, <1>2, SumSplit
<1>4. SumFunctionOnSet(g, S) = SumFunctionOnSet(f, S)
  BY SumSame
<1>5. SumFunctionOnSet(f, S) \in Nat
  BY SumSplit
<1>6. SumFunctionOnSet(g, T) = SumFunctionOnSet(f, S) + g[x]
  BY <1>3, <1>4, <1>5
<1> QED BY <1>6 DEF T

-----------------------------------------------------------------------------
\* The operators on the reports of a thread.

\* One more of one element.
LEMMA SumCount ==
  ASSUME NEW S, IsFiniteSet(S), NEW f \in [S -> Nat], NEW x \in S
  PROVE  /\ SumFunctionOnSet(f, S) \in Nat
         /\ SumFunctionOnSet([f EXCEPT ![x] = @ + 1], S) = SumFunctionOnSet(f, S) + 1
<1> DEFINE g == [f EXCEPT ![x] = @ + 1]
<1>1. \A y \in S : f[y] \in Nat
  OBVIOUS
<1>2. g[x] = f[x] + 1 /\ g[x] \in Nat /\ \A y \in S \ {x} : g[y] = f[y]
  OBVIOUS
<1> HIDE DEF g
<1>3. SumFunctionOnSet(g, S) = SumFunctionOnSet(f, S) + (g[x] - f[x])
  BY <1>1, <1>2, SumChange
<1>4. SumFunctionOnSet(f, S) \in Nat
  BY <1>1, SumSplit
<1> QED BY <1>1, <1>2, <1>3, <1>4 DEF g

\* What a report of a thread and a sum report hold.
InfoType ==
    [cur : Nat, prev : Nat, cnt : Nat, tot : Nat, cntBytes : Int, start : Nat, next : Nat,
     pt : Nat, last : Nat, iStart : Int, iEnd : Int]
SumType ==
    [cur : Nat, prev : Nat, cnt : Nat, tot : Nat, cntBytes : Int, start : Nat, next : Nat,
     pt : Nat, iStart : Int, iEnd : Int, threads : Nat, count : Int, maxcount : Int,
     threadcnt : Nat, filter : BOOLEAN, freed : BOOLEAN]

SumTypeOK ==
    /\ setup \in Setup
    /\ st \in [Threads -> {"none", "run", "done", "lost"}]
    /\ info \in [Threads -> InfoType]
    /\ sum \in SumType /\ fdx \in SumType
    /\ shown \in [Threads -> Int]
    /\ sumShown \in Int /\ sumFinal \in Int /\ ended \in Nat

Running == {t \in Threads : st[t] = "run"}

\* What a running thread has passed on is part of what it has, and its next
\* interval ends after its start.
PassedOn ==
    \A t \in Running :
        /\ info[t].prev <= info[t].cur /\ info[t].cnt <= info[t].tot
        /\ info[t].start + Interval <= info[t].next

\* The count of the sum report is that of the running threads, and the report
\* is freed when the last one has ended.
CountRight ==
    /\ setup.group => sum.count = Cardinality(Running)
    /\ sum.freed => setup.group /\ Running = {}
    /\ ~sum.freed => sumFinal = -1

\* The interval sums and the count of interval reports, as long as the report lives.
PaceInv ==
    setup.group /\ ~sum.freed =>
        /\ sumShown = sum.prev
        /\ ended = 0 => sum.threads < sum.count \/ (sum.threads = 0 /\ sum.count = 0)

\* Nothing is shown of a thread that has not started.
NothingYet == \A t \in Threads : st[t] = "none" => shown[t] = 0

IntervalInv ==
    /\ SumTypeOK /\ NothingYet /\ PassedOn /\ CountRight /\ PaceInv
    /\ SumComplete /\ FinalSumIsTotal /\ IntervalsTile

\* What the proofs need of the constants, for the most part.
LEMMA IntervalNat == Interval \in Nat
  BY IntervalAssumption

Types == {"INTERVAL", "TOTAL", "FINALPARTIAL"}

\* r is i with other times of the report.
StampedInfoType(r, i, type) ==
    /\ r.cur = i.cur /\ r.prev = i.prev /\ r.cnt = i.cnt /\ r.tot = i.tot
    /\ r.cntBytes = i.cntBytes /\ r.start = i.start /\ r.pt = i.pt /\ r.last = i.last
    /\ type = "INTERVAL" /\ i.pt >= i.start =>
          r.iEnd = i.next - i.start /\ r.next = i.next + Interval
StampedSumType(r, i, type) ==
    /\ r.cur = i.cur /\ r.prev = i.prev /\ r.cnt = i.cnt /\ r.tot = i.tot
    /\ r.cntBytes = i.cntBytes /\ r.threads = i.threads /\ r.count = i.count
    /\ r.maxcount = i.maxcount /\ r.filter = i.filter /\ r.freed = i.freed

\* A report stays one when a field is assigned,
LEMMA SetInfo ==
  ASSUME NEW i \in InfoType, NEW x \in Int, NEW n \in Nat
  PROVE  /\ [i EXCEPT !.cur = n] \in InfoType
         /\ [i EXCEPT !.prev = n] \in InfoType
         /\ [i EXCEPT !.cnt = n] \in InfoType
         /\ [i EXCEPT !.tot = n] \in InfoType
         /\ [i EXCEPT !.cntBytes = x] \in InfoType
         /\ [i EXCEPT !.start = n] \in InfoType
         /\ [i EXCEPT !.next = n] \in InfoType
         /\ [i EXCEPT !.pt = n] \in InfoType
         /\ [i EXCEPT !.last = n] \in InfoType
         /\ [i EXCEPT !.iStart = x] \in InfoType
         /\ [i EXCEPT !.iEnd = x] \in InfoType
  BY DEF InfoType

\* and so does a sum report.
LEMMA SetSum ==
  ASSUME NEW i \in SumType, NEW x \in Int, NEW n \in Nat, NEW b \in BOOLEAN
  PROVE  /\ [i EXCEPT !.cur = n] \in SumType
         /\ [i EXCEPT !.prev = n] \in SumType
         /\ [i EXCEPT !.cnt = n] \in SumType
         /\ [i EXCEPT !.tot = n] \in SumType
         /\ [i EXCEPT !.cntBytes = x] \in SumType
         /\ [i EXCEPT !.start = n] \in SumType
         /\ [i EXCEPT !.next = n] \in SumType
         /\ [i EXCEPT !.pt = n] \in SumType
         /\ [i EXCEPT !.iStart = x] \in SumType
         /\ [i EXCEPT !.iEnd = x] \in SumType
         /\ [i EXCEPT !.threads = n] \in SumType
         /\ [i EXCEPT !.count = x] \in SumType
         /\ [i EXCEPT !.maxcount = x] \in SumType
         /\ [i EXCEPT !.threadcnt = n] \in SumType
         /\ [i EXCEPT !.filter = b] \in SumType
         /\ [i EXCEPT !.freed = b] \in SumType
  BY DEF SumType

\* reporter_set_timestamps_time changes the times of a report only,
LEMMA StampInfo ==
  ASSUME NEW i \in InfoType, NEW type \in Types
  PROVE  Stamp(i, type) \in InfoType /\ StampedInfoType(Stamp(i, type), i, type)
<1>0. /\ 0 \in Int /\ i.iEnd \in Int /\ i.next - i.start \in Int
      /\ i.pt - i.start \in Int /\ i.next + Interval \in Nat
      /\ i.pt \in Int /\ i.start \in Int
  BY IntervalNat DEF InfoType
<1>1. CASE i.pt < i.start
  <2> DEFINE r == [i EXCEPT !.iStart = 0, !.iEnd = 0]
  <2>1. Stamp(i, type) = r
    BY <1>0, <1>1 DEF Stamp
  <2>2. r \in InfoType
    BY <1>0, SetInfo
  <2>3. StampedInfoType(r, i, type)
    BY <1>1, IntervalNat DEF StampedInfoType, InfoType
  <2> QED BY <2>1, <2>2, <2>3
<1>2. CASE i.pt >= i.start /\ type = "INTERVAL"
  <2> DEFINE r == [i EXCEPT !.iStart = i.iEnd, !.iEnd = i.next - i.start, !.next = @ + Interval]
  <2>1. Stamp(i, type) = r
    BY <1>0, <1>2 DEF Stamp
  <2>2. r \in InfoType
    BY <1>0, SetInfo
  <2>3. StampedInfoType(r, i, type)
    BY <1>2, IntervalNat DEF StampedInfoType, InfoType
  <2> QED BY <2>1, <2>2, <2>3
<1>3. CASE i.pt >= i.start /\ type = "TOTAL"
  <2> DEFINE r == [i EXCEPT !.iStart = 0, !.iEnd = i.pt - i.start]
  <2>1. Stamp(i, type) = r
    BY <1>0, <1>3 DEF Stamp
  <2>2. r \in InfoType
    BY <1>0, SetInfo
  <2>3. StampedInfoType(r, i, type)
    BY <1>3, IntervalNat DEF StampedInfoType, InfoType
  <2> QED BY <2>1, <2>2, <2>3
<1>4. CASE i.pt >= i.start /\ type = "FINALPARTIAL"
  <2> DEFINE r == [i EXCEPT !.iStart = i.iEnd, !.iEnd = i.pt - i.start]
  <2>1. Stamp(i, type) = r
    BY <1>0, <1>4 DEF Stamp
  <2>2. r \in InfoType
    BY <1>0, SetInfo
  <2>3. StampedInfoType(r, i, type)
    BY <1>4, IntervalNat DEF StampedInfoType, InfoType
  <2> QED BY <2>1, <2>2, <2>3
<1> QED BY <1>0, <1>1, <1>2, <1>3, <1>4 DEF Types

\* and of a sum report.
LEMMA StampSum ==
  ASSUME NEW i \in SumType, NEW type \in Types
  PROVE  Stamp(i, type) \in SumType /\ StampedSumType(Stamp(i, type), i, type)
<1>0. /\ 0 \in Int /\ i.iEnd \in Int /\ i.next - i.start \in Int
      /\ i.pt - i.start \in Int /\ i.next + Interval \in Nat
      /\ i.pt \in Int /\ i.start \in Int
  BY IntervalNat DEF SumType
<1>1. CASE i.pt < i.start
  <2> DEFINE r == [i EXCEPT !.iStart = 0, !.iEnd = 0]
  <2>1. Stamp(i, type) = r
    BY <1>0, <1>1 DEF Stamp
  <2>2. r \in SumType
    BY <1>0, SetSum
  <2>3. StampedSumType(r, i, type)
    BY <1>1, IntervalNat DEF StampedSumType, SumType
  <2> QED BY <2>1, <2>2, <2>3
<1>2. CASE i.pt >= i.start /\ type = "INTERVAL"
  <2> DEFINE r == [i EXCEPT !.iStart = i.iEnd, !.iEnd = i.next - i.start, !.next = @ + Interval]
  <2>1. Stamp(i, type) = r
    BY <1>0, <1>2 DEF Stamp
  <2>2. r \in SumType
    BY <1>0, SetSum
  <2>3. StampedSumType(r, i, type)
    BY <1>2, IntervalNat DEF StampedSumType, SumType
  <2> QED BY <2>1, <2>2, <2>3
<1>3. CASE i.pt >= i.start /\ type = "TOTAL"
  <2> DEFINE r == [i EXCEPT !.iStart = 0, !.iEnd = i.pt - i.start]
  <2>1. Stamp(i, type) = r
    BY <1>0, <1>3 DEF Stamp
  <2>2. r \in SumType
    BY <1>0, SetSum
  <2>3. StampedSumType(r, i, type)
    BY <1>3, IntervalNat DEF StampedSumType, SumType
  <2> QED BY <2>1, <2>2, <2>3
<1>4. CASE i.pt >= i.start /\ type = "FINALPARTIAL"
  <2> DEFINE r == [i EXCEPT !.iStart = i.iEnd, !.iEnd = i.pt - i.start]
  <2>1. Stamp(i, type) = r
    BY <1>0, <1>4 DEF Stamp
  <2>2. r \in SumType
    BY <1>0, SetSum
  <2>3. StampedSumType(r, i, type)
    BY <1>4, IntervalNat DEF StampedSumType, SumType
  <2> QED BY <2>1, <2>2, <2>3
<1> QED BY <1>0, <1>1, <1>2, <1>3, <1>4 DEF Types

\* An output handler changes the count it prints, and nothing else,
LEMMA OutputInfo ==
  ASSUME NEW i \in InfoType, NEW handler
  PROVE  LET r == Output(i, handler)
         IN  /\ r \in InfoType
             /\ r.cur = i.cur /\ r.prev = i.prev /\ r.cnt = i.cnt /\ r.tot = i.tot
             /\ r.start = i.start /\ r.pt = i.pt /\ r.last = i.last
             /\ r.next = i.next /\ r.iStart = i.iStart /\ r.iEnd = i.iEnd
  BY DEF Output, InfoType

\* that of a sum report only if it has no length.
LEMMA OutputSum ==
  ASSUME NEW i \in SumType, NEW handler
  PROVE  LET r == Output(i, handler)
         IN  /\ r \in SumType
             /\ r.cur = i.cur /\ r.prev = i.prev /\ r.cnt = i.cnt /\ r.tot = i.tot
             /\ r.threads = i.threads /\ r.count = i.count /\ r.maxcount = i.maxcount
             /\ r.filter = i.filter /\ r.freed = i.freed /\ r.iEnd = i.iEnd
             /\ i.iEnd >= 1 => r.cntBytes = i.cntBytes
             /\ i.cntBytes \in Nat => r.cntBytes \in Nat
  BY DEF Output, SumType

\* reporter_reset_transfer_stats_* and the count of a line.
LEMMA ResetInfo ==
  ASSUME NEW i \in InfoType
  PROVE  LET r == ResetTransferStats(i)
         IN  /\ r \in InfoType
             /\ r.cur = i.cur /\ r.prev = i.cur /\ r.cnt = 0 /\ r.tot = i.tot
             /\ r.start = i.start /\ r.pt = i.pt /\ r.last = i.last
             /\ r.next = i.next /\ r.iStart = i.iStart /\ r.iEnd = i.iEnd
<1>1. i.cur \in Nat /\ 0 \in Nat /\ 0 \in Int
  BY DEF InfoType
<1>2. ResetTransferStats(i) \in InfoType
  BY <1>1, SetInfo DEF ResetTransferStats
<1> QED BY <1>2 DEF ResetTransferStats, InfoType

\* What the number of rounds in reporter_transfer_protocol_missed_reports comes to.
LEMMA Rounds ==
  ASSUME NEW d \in Nat, NEW n \in Nat \ {0}, d > n
  PROVE  LET k == (d - 1) \div n
         IN  k \in Nat /\ k > 0 /\ k * n \in Nat /\ d - k * n <= n /\ k * n < d
  OBVIOUS

\* The lines for missed intervals end with the last boundary before the packet.
LEMMA MissedInfo ==
  ASSUME NEW i \in InfoType, i.iEnd = i.next - Interval - i.start
  PROVE  LET r == MissedReports(i)
         IN  /\ r \in InfoType
             /\ r.cur = i.cur /\ r.prev = i.prev /\ r.cnt = i.cnt /\ r.tot = i.tot
             /\ r.start = i.start /\ r.pt = i.pt /\ r.last = i.last
             /\ r.next >= i.next /\ r.pt - r.next <= Interval
             /\ r.iEnd = r.next - Interval - r.start
<1> DEFINE d == i.pt - i.next
           k == (d - 1) \div Interval
<1>0. /\ i.pt \in Nat /\ i.next \in Nat /\ i.start \in Nat /\ i.iEnd \in Int
      /\ Interval \in Nat \ {0}
  BY IntervalAssumption DEF InfoType
<1>1. CASE d <= Interval
  <2>1. MissedReports(i) = i
    BY <1>0, <1>1 DEF MissedReports
  <2> QED BY <1>0, <1>1, <2>1
<1>2. CASE d > Interval
  <2>1. k \in Nat /\ k > 0 /\ k * Interval \in Nat /\ d - k * Interval <= Interval
    <3>1. d \in Nat
      BY <1>0, <1>2
    <3> HIDE DEF d
    <3> QED BY <1>0, <1>2, <3>1, Rounds
  <2> HIDE DEF k
  <2> DEFINE end == i.next + (k - 1) * Interval - i.start
             from == IF k = 1 THEN i.iEnd ELSE end - Interval
             r == [i EXCEPT !.iStart = from, !.iEnd = end, !.next = @ + k * Interval]
  <2>2. MissedReports(i) = r
    BY <1>0, <1>2, <2>1 DEF MissedReports, k
  <2>3. (k - 1) * Interval = k * Interval - Interval
    BY <1>0, <2>1
  <2>4. end \in Int /\ end = i.next + k * Interval - Interval - i.start
    BY <1>0, <2>1, <2>3
  <2>5. from \in Int /\ i.next + k * Interval \in Nat
    BY <1>0, <2>1, <2>4
  <2> HIDE DEF from, end
  <2>6. r \in InfoType
    BY <2>4, <2>5, SetInfo
  <2>7. /\ r.cur = i.cur /\ r.prev = i.prev /\ r.cnt = i.cnt /\ r.tot = i.tot
        /\ r.start = i.start /\ r.pt = i.pt /\ r.last = i.last
        /\ r.next = i.next + k * Interval /\ r.iEnd = end
    BY DEF InfoType
  <2> HIDE DEF r
  <2> QED BY <1>0, <2>1, <2>2, <2>4, <2>5, <2>6, <2>7
<1> QED BY <1>0, <1>1, <1>2

\* An interval report: the bytes and calls are passed on, the line ends at the
\* boundary, and the next boundary is not far behind.
LEMMA IntervalInfo ==
  ASSUME NEW i \in InfoType, NEW now \in Nat, i.next < now, i.start + Interval <= i.next
  PROVE  LET r == IntervalReport(i, now)
         IN  /\ r \in InfoType
             /\ r.cur = i.cur /\ r.prev = i.cur /\ r.cnt = 0 /\ r.tot = i.tot
             /\ r.start = i.start /\ r.pt = now /\ r.last = i.last
             /\ r.start + Interval <= r.next /\ r.iEnd = r.next - Interval - r.start
             /\ OutputHandler # "none" => r.pt - r.next <= Interval
<1> DEFINE p == [i EXCEPT !.pt = now]
           s == Stamp(p, "INTERVAL")
           c == [s EXCEPT !.cntBytes = s.cur - s.prev]
           o == Output(c, OutputHandler)
           q == ResetTransferStats(o)
<1>0. i.next \in Nat /\ i.start \in Nat /\ Interval \in Nat /\ "INTERVAL" \in Types
  BY IntervalNat DEF InfoType, Types
<1>1. p \in InfoType
  <2>1. 0 \in Int
    OBVIOUS
  <2> QED BY <2>1, SetInfo
<1>2. /\ p.cur = i.cur /\ p.prev = i.prev /\ p.cnt = i.cnt /\ p.tot = i.tot
      /\ p.start = i.start /\ p.pt = now /\ p.last = i.last /\ p.next = i.next
  BY DEF InfoType
<1> HIDE DEF p
<1>3. /\ s \in InfoType
      /\ s.cur = i.cur /\ s.tot = i.tot /\ s.start = i.start /\ s.pt = now /\ s.last = i.last
      /\ s.iEnd = i.next - i.start /\ s.next = i.next + Interval
  <2>1. s \in InfoType /\ StampedInfoType(s, p, "INTERVAL")
    BY <1>0, <1>1, StampInfo
  <2>2. p.pt >= p.start
    BY <1>0, <1>2
  <2> HIDE DEF s
  <2> QED BY <1>2, <2>1, <2>2 DEF StampedInfoType
<1> HIDE DEF s
<1>4. c \in InfoType
  <2>1. s.cur - s.prev \in Int
    BY <1>3 DEF InfoType
  <2> QED BY <1>3, <2>1, SetInfo
<1>5. /\ c.cur = i.cur /\ c.tot = i.tot /\ c.start = i.start /\ c.pt = now
      /\ c.last = i.last /\ c.iEnd = i.next - i.start /\ c.next = i.next + Interval
  BY <1>3 DEF InfoType
<1> HIDE DEF c
<1>6. /\ q \in InfoType
      /\ q.cur = i.cur /\ q.prev = i.cur /\ q.cnt = 0 /\ q.tot = i.tot
      /\ q.start = i.start /\ q.pt = now /\ q.last = i.last
      /\ q.iEnd = i.next - i.start /\ q.next = i.next + Interval
  <2>1. /\ o \in InfoType
        /\ o.cur = i.cur /\ o.tot = i.tot /\ o.start = i.start /\ o.pt = now
        /\ o.last = i.last /\ o.iEnd = i.next - i.start /\ o.next = i.next + Interval
    BY <1>4, <1>5, OutputInfo
  <2> HIDE DEF o
  <2> QED BY <2>1, ResetInfo
<1>7. IntervalReport(i, now) = IF OutputHandler = "none" THEN q ELSE MissedReports(q)
  BY DEF IntervalReport, ProtocolInterval, q, o, c, s, p
<1> HIDE DEF q
<1>8. q.iEnd = q.next - Interval - q.start
  BY <1>0, <1>6
<1>9. CASE OutputHandler = "none"
  BY <1>0, <1>6, <1>7, <1>8, <1>9
<1>10. CASE OutputHandler # "none"
  <2> DEFINE r == MissedReports(q)
  <2>1. /\ r \in InfoType
        /\ r.cur = q.cur /\ r.prev = q.prev /\ r.cnt = q.cnt /\ r.tot = q.tot
        /\ r.start = q.start /\ r.pt = q.pt /\ r.last = q.last
        /\ r.next >= q.next /\ r.pt - r.next <= Interval
        /\ r.iEnd = r.next - Interval - r.start
    BY <1>6, <1>8, MissedInfo
  <2> HIDE DEF r
  <2>2. r.next \in Nat
    BY <2>1 DEF InfoType
  <2>3. r.start + Interval <= r.next
    BY <1>0, <1>6, <2>1, <2>2
  <2>4. IntervalReport(i, now) = r
    BY <1>7, <1>10 DEF r
  <2> QED BY <1>6, <2>1, <2>3, <2>4
<1> QED BY <1>9, <1>10

\* A packet handler adds the bytes and calls.
LEMMA HandleInfo ==
  ASSUME NEW t, NEW i \in InfoType, NEW now \in Nat, NEW len \in Nat, NEW calls \in Nat
  PROVE  LET r == HandlePacket(t, i, now, len, calls)
         IN  /\ r \in InfoType
             /\ r.cur = i.cur + len /\ r.cnt = i.cnt + calls /\ r.tot = i.tot + calls
             /\ r.prev = i.prev /\ r.start = i.start /\ r.last = i.last /\ r.next = i.next
             /\ r.iEnd = i.iEnd /\ r.pt \in {i.pt, now}
<1> DEFINE pt == IF setup.mode[t] = "server" /\ ~setup.udp THEN i.pt ELSE now
           r == [i EXCEPT !.cur = @ + len, !.cnt = @ + calls, !.tot = @ + calls, !.pt = pt]
<1>1. /\ i.cur + len \in Nat /\ i.cnt + calls \in Nat /\ i.tot + calls \in Nat /\ i.pt \in Nat
      /\ 0 \in Int
  BY DEF InfoType
<1>2. pt \in Nat /\ pt \in {i.pt, now}
  BY <1>1
<1>3. HandlePacket(t, i, now, len, calls) = r
  BY DEF HandlePacket
<1> HIDE DEF pt
<1>4. r \in InfoType
  BY <1>1, <1>2, SetInfo
<1>5. /\ r.cur = i.cur + len /\ r.cnt = i.cnt + calls /\ r.tot = i.tot + calls
      /\ r.prev = i.prev /\ r.start = i.start /\ r.last = i.last /\ r.next = i.next
      /\ r.iEnd = i.iEnd /\ r.pt = pt
  BY DEF InfoType
<1> QED BY <1>2, <1>3, <1>4, <1>5

\* The final report of a thread leaves its totals alone.
LEMMA FinalInfo ==
  ASSUME NEW t, NEW i \in InfoType
  PROVE  LET r == ProtocolFinal(t, i)
         IN  r \in InfoType /\ r.cur = i.cur /\ r.tot = i.tot
<1> DEFINE b == [i EXCEPT !.cntBytes = i.cur - i.prev]
           q == Stamp(b, "FINALPARTIAL")
           r == IF Significant(q) THEN Output(q, OutputHandler) ELSE q
           p == IF ~HasPartial(t, i) THEN i
                ELSE IF setup.udp THEN r ELSE ResetTransferStats(r)
           s == Stamp(p, "TOTAL")
           c == [s EXCEPT !.cntBytes = i.cur, !.cnt = i.tot]
           total == Output(c, OutputHandler)
<1>0. /\ i.cur - i.prev \in Int /\ i.cur \in Int /\ i.tot \in Nat /\ 0 \in Nat
      /\ "FINALPARTIAL" \in Types /\ "TOTAL" \in Types
  BY DEF InfoType, Types
<1>1. b \in InfoType
  BY <1>0, SetInfo
<1>2. b.cur = i.cur /\ b.tot = i.tot
  BY DEF InfoType
<1> HIDE DEF b
<1>3. q \in InfoType /\ q.cur = i.cur /\ q.tot = i.tot
  BY <1>0, <1>1, <1>2, StampInfo DEF StampedInfoType
<1> HIDE DEF q
<1>4. r \in InfoType /\ r.cur = i.cur /\ r.tot = i.tot
  BY <1>3, OutputInfo
<1> HIDE DEF r
<1>5. p \in InfoType /\ p.cur = i.cur /\ p.tot = i.tot
  BY <1>4, ResetInfo
<1> HIDE DEF p
<1>6. s \in InfoType /\ s.cur = i.cur /\ s.tot = i.tot
  BY <1>0, <1>5, StampInfo DEF StampedInfoType
<1> HIDE DEF s
<1>7. c \in InfoType
  BY <1>0, <1>6, SetInfo
<1>8. c.cur = i.cur /\ c.tot = i.tot
  BY <1>6 DEF InfoType
<1> HIDE DEF c
<1>9. total \in InfoType /\ total.cur = i.cur /\ total.tot = i.tot
  BY <1>7, <1>8, OutputInfo
<1>10. ProtocolFinal(t, i) = IF IsUdpClient(t) THEN ResetTransferStats(total) ELSE total
  BY DEF ProtocolFinal, Partial, b, q, r, p, s, c
<1> HIDE DEF total
<1> QED BY <1>9, <1>10, ResetInfo

-----------------------------------------------------------------------------
\* The operators on the sum reports.

\* What a thread passes on is added once.
LEMMA AddSum ==
  ASSUME NEW s \in SumType, NEW i \in InfoType, i.prev <= i.cur
  PROVE  LET r == AddToSum(s, i)
         IN  /\ r \in SumType
             /\ r.cur = s.cur + (i.cur - i.prev) /\ r.tot = s.tot + i.cnt /\ r.prev = s.prev
             /\ r.threads = s.threads /\ r.count = s.count /\ r.maxcount = s.maxcount
             /\ r.filter = s.filter /\ r.freed = s.freed
<1>1. /\ s.cur + (i.cur - i.prev) \in Nat /\ s.cnt + i.cnt \in Nat /\ s.tot + i.cnt \in Nat
      /\ s.threadcnt + 1 \in Nat /\ 0 \in Int /\ TRUE \in BOOLEAN
  BY DEF SumType, InfoType
<1>2. AddToSum(s, i) \in SumType
  BY <1>1, SetSum DEF AddToSum
<1> QED BY <1>2 DEF AddToSum, SumType

\* The sums and counts that no line of a report changes.
SameSum(r, s) ==
    /\ r.cur = s.cur /\ r.tot = s.tot /\ r.count = s.count /\ r.maxcount = s.maxcount
    /\ r.filter = s.filter /\ r.freed = s.freed

\* reporter_reset_transfer_stats_* of a sum report.
LEMMA ResetSum ==
  ASSUME NEW s \in SumType
  PROVE  LET r == ResetTransferStats(s)
         IN  r \in SumType /\ SameSum(r, s) /\ r.prev = s.cur /\ r.threads = s.threads
<1>1. s.cur \in Nat /\ 0 \in Nat /\ 0 \in Int /\ TRUE \in BOOLEAN
  BY DEF SumType
<1>2. ResetTransferStats(s) \in SumType
  BY <1>1, SetSum DEF ResetTransferStats
<1> QED BY <1>2 DEF ResetTransferStats, SumType, SameSum

\* An interval sum.
LEMMA IntervalOfSum ==
  ASSUME NEW s \in SumType
  PROVE  LET r == SumInterval(s)
         IN  r \in SumType /\ SameSum(r, s) /\ r.prev = s.cur /\ r.threads = s.threads
<1> DEFINE i == [s EXCEPT !.cntBytes = s.cur - s.prev]
           o == IF Prints(s) THEN Output(i, SumOutputHandler) ELSE i
           z == IF setup.udp \/ Prints(s) THEN [o EXCEPT !.threadcnt = 0] ELSE o
<1>0. s.cur - s.prev \in Int /\ 0 \in Nat /\ 0 \in Int /\ TRUE \in BOOLEAN
  BY DEF SumType
<1>1. i \in SumType
  BY <1>0, SetSum
<1>2. SameSum(i, s) /\ i.threads = s.threads
  BY DEF SumType, SameSum
<1> HIDE DEF i
<1>3. o \in SumType /\ SameSum(o, s) /\ o.threads = s.threads
  BY <1>1, <1>2, OutputSum DEF SameSum
<1> HIDE DEF o
<1>4. z \in SumType /\ SameSum(z, s) /\ z.threads = s.threads
  <2>1. [o EXCEPT !.threadcnt = 0] \in SumType
    BY <1>0, <1>3, SetSum
  <2>2. SameSum([o EXCEPT !.threadcnt = 0], s) /\ [o EXCEPT !.threadcnt = 0].threads = s.threads
    BY <1>3 DEF SumType, SameSum
  <2> QED BY <1>3, <2>1, <2>2
<1>5. SumInterval(s) = ResetTransferStats(z)
  BY DEF SumInterval, i, o
<1> HIDE DEF z
<1> QED BY <1>4, <1>5, ResetSum DEF SameSum

\* The count of interval reports, and the interval sum when all are in.
LEMMA DueSum ==
  ASSUME NEW s \in SumType
  PROVE  LET r == SumDue(s)
         IN  /\ r \in SumType
             /\ r.cur = s.cur /\ r.tot = s.tot /\ r.count = s.count
             /\ r.maxcount = s.maxcount /\ r.freed = s.freed
             /\ IF s.threads + 1 # s.count
                THEN r.prev = s.prev /\ r.threads = s.threads + 1
                ELSE r.prev = s.cur /\ r.threads = 0
<1>0. /\ s.threads + 1 \in Nat /\ 0 \in Nat /\ 0 \in Int /\ SumFilter(s) \in BOOLEAN
      /\ "INTERVAL" \in Types
  BY DEF SumType, SumFilter, Types
<1>1. CASE s.threads + 1 # s.count
  <2>1. [s EXCEPT !.threads = @ + 1] \in SumType
    BY <1>0, SetSum
  <2>2. SumDue(s) = [s EXCEPT !.threads = @ + 1]
    BY <1>1 DEF SumDue
  <2> QED BY <1>1, <2>1, <2>2 DEF SumType
<1>2. CASE s.threads + 1 = s.count
  <2> DEFINE z == [s EXCEPT !.threads = 0, !.filter = SumFilter(s)]
             q == Stamp(z, "INTERVAL")
  <2>1. z \in SumType
    BY <1>0, SetSum
  <2>2. /\ z.cur = s.cur /\ z.tot = s.tot /\ z.count = s.count /\ z.maxcount = s.maxcount
        /\ z.freed = s.freed /\ z.threads = 0
    BY DEF SumType
  <2> HIDE DEF z
  <2>3. /\ q \in SumType
        /\ q.cur = s.cur /\ q.tot = s.tot /\ q.count = s.count /\ q.maxcount = s.maxcount
        /\ q.freed = s.freed /\ q.threads = 0
    BY <1>0, <2>1, <2>2, StampSum DEF StampedSumType
  <2>4. SumDue(s) = SumInterval(q)
    BY <1>2 DEF SumDue, q, z
  <2> HIDE DEF q
  <2> QED BY <1>2, <2>3, <2>4, IntervalOfSum DEF SameSum
<1> QED BY <1>1, <1>2

\* The full duplex report keeps its bytes when it makes a line.
LEMMA DueFullDuplex ==
  ASSUME NEW s \in SumType
  PROVE  FullDuplexDue(s) \in SumType /\ FullDuplexDue(s).cur = s.cur
<1> DEFINE z == [s EXCEPT !.cntBytes = s.cur - s.prev, !.prev = s.cur, !.threads = 0]
           q == Stamp(z, "INTERVAL")
           n == [s EXCEPT !.threads = @ + 1]
<1>0. /\ s.threads + 1 \in Nat /\ 0 \in Nat /\ 0 \in Int /\ TRUE \in BOOLEAN
      /\ s.cur \in Nat /\ s.cur - s.prev \in Int /\ "INTERVAL" \in Types
  BY DEF SumType, Types
<1>1. z \in SumType
  BY <1>0, SetSum
<1>2. z.cur = s.cur
  BY DEF SumType
<1>3. n \in SumType
  BY <1>0, SetSum
<1>4. n.cur = s.cur
  BY DEF SumType
<1>5. q \in SumType /\ q.cur = s.cur
  <2> HIDE DEF z
  <2> QED BY <1>0, <1>1, <1>2, StampSum DEF StampedSumType
<1>6. FullDuplexDue(s) = IF s.threads + 1 = 2 /\ setup.enhanced
                         THEN Output(q, FullDuplexOutputHandler) ELSE n
  BY DEF FullDuplexDue, FullDuplexInterval
<1> HIDE DEF q, n
<1> QED BY <1>3, <1>4, <1>5, <1>6, OutputSum

\* So it does in the last one.
LEMMA FinalFullDuplex ==
  ASSUME NEW s \in SumType
  PROVE  FullDuplexFinal(s) \in SumType /\ FullDuplexFinal(s).cur = s.cur
<1> DEFINE p == IF s.cntBytes > 0 THEN [s EXCEPT !.prev = s.cur] ELSE s
           c == [p EXCEPT !.cntBytes = s.cur]
           q == Stamp(c, "TOTAL")
<1>0. /\ 0 \in Nat /\ 0 \in Int /\ TRUE \in BOOLEAN /\ s.cur \in Nat /\ s.cur \in Int
      /\ "TOTAL" \in Types
  BY DEF SumType, Types
<1>1. p \in SumType /\ p.cur = s.cur
  <2>1. [s EXCEPT !.prev = s.cur] \in SumType
    BY <1>0, SetSum
  <2>2. [s EXCEPT !.prev = s.cur].cur = s.cur
    BY DEF SumType
  <2> QED BY <2>1, <2>2
<1> HIDE DEF p
<1>2. c \in SumType
  BY <1>0, <1>1, SetSum
<1>3. c.cur = s.cur
  BY <1>1 DEF SumType
<1> HIDE DEF c
<1>4. q \in SumType /\ q.cur = s.cur
  BY <1>0, <1>2, <1>3, StampSum DEF StampedSumType
<1>5. FullDuplexFinal(s) = Output(q, FullDuplexOutputHandler)
  BY DEF FullDuplexFinal, p, c
<1> HIDE DEF q
<1> QED BY <1>4, <1>5, OutputSum

\* The final sum shows all bytes, unless it has no length, and all calls.
LEMMA FinalOfSum ==
  ASSUME NEW s \in SumType
  PROVE  LET r == SumFinal(s)
         IN  /\ r \in SumType /\ SameSum(r, s)
             /\ r.cnt = s.tot /\ r.cntBytes \in Nat
             /\ r.iEnd >= 1 => r.cntBytes = s.cur
<1> DEFINE b == [s EXCEPT !.cntBytes = s.cur - s.prev]
           q == Stamp(b, "FINALPARTIAL")
           p == CASE setup.udp \/ s.cntBytes <= 0 -> s
                  [] ~setup.udp /\ s.cntBytes > 0 /\ Prints(s) -> ResetTransferStats(q)
                  [] OTHER -> ResetTransferStats(s)
           c == [p EXCEPT !.cntBytes = s.cur, !.cnt = s.tot]
           f == Stamp(c, "TOTAL")
<1>0. /\ 0 \in Nat /\ 0 \in Int /\ TRUE \in BOOLEAN /\ s.cur \in Nat /\ s.cur \in Int
      /\ s.tot \in Nat /\ s.cur - s.prev \in Int
      /\ "FINALPARTIAL" \in Types /\ "TOTAL" \in Types
  BY DEF SumType, Types
<1>1. b \in SumType
  BY <1>0, SetSum
<1>2. SameSum(b, s)
  BY DEF SumType, SameSum
<1> HIDE DEF b
<1>3. q \in SumType /\ SameSum(q, s)
  BY <1>0, <1>1, <1>2, StampSum DEF StampedSumType, SameSum
<1> HIDE DEF q
<1>4. p \in SumType /\ SameSum(p, s)
  <2>1. p \in {s, ResetTransferStats(q), ResetTransferStats(s)}
    OBVIOUS
  <2> HIDE DEF p
  <2>2. SameSum(s, s)
    BY DEF SameSum
  <2>3. ResetTransferStats(q) \in SumType /\ SameSum(ResetTransferStats(q), s)
    BY <1>3, ResetSum DEF SameSum
  <2>4. ResetTransferStats(s) \in SumType /\ SameSum(ResetTransferStats(s), s)
    BY ResetSum
  <2> QED BY <2>1, <2>2, <2>3, <2>4
<1> HIDE DEF p
<1>5. c \in SumType
  BY <1>0, <1>4, SetSum
<1>6. SameSum(c, s) /\ c.cntBytes = s.cur /\ c.cnt = s.tot
  BY <1>4 DEF SumType, SameSum
<1> HIDE DEF c
<1>7. f \in SumType /\ SameSum(f, s) /\ f.cntBytes = s.cur /\ f.cnt = s.tot
  BY <1>0, <1>5, <1>6, StampSum DEF StampedSumType, SameSum
<1>8. SumFinal(s) = IF Prints(s) THEN Output(f, SumOutputHandler) ELSE f
  BY DEF SumFinal, b, q, p, c
<1> HIDE DEF f
<1> QED BY <1>0, <1>7, <1>8, OutputSum DEF SameSum

\* The time of the last packet.
LEMMA EarlierSum ==
  ASSUME NEW s \in SumType, NEW now \in Nat
  PROVE  LET r == Earlier(s, now)
         IN  r \in SumType /\ SameSum(r, s) /\ r.prev = s.prev /\ r.threads = s.threads
  BY DEF Earlier, SumType, SameSum

\* A thread leaves the group; the last one makes the final sum.
LEMMA EndSum ==
  ASSUME NEW s \in SumType
  PROVE  LET r == SumEnd(s)
         IN  /\ r \in SumType
             /\ r.cur = s.cur /\ r.tot = s.tot /\ r.count = s.count - 1
             /\ r.maxcount = s.maxcount /\ r.filter = s.filter
             /\ s.count - 1 > 0 =>
                   r.freed = s.freed /\ r.prev = s.prev /\ r.threads = s.threads
             /\ s.count - 1 <= 0 =>
                   /\ r.freed
                   /\ s.maxcount > 1 \/ setup.sumOnly =>
                         /\ r.cnt = s.tot /\ r.cntBytes \in Nat
                         /\ r.iEnd >= 1 => r.cntBytes = s.cur
<1> DEFINE d == [s EXCEPT !.count = @ - 1]
<1>0. s.count - 1 \in Int /\ 0 \in Nat /\ 0 \in Int /\ TRUE \in BOOLEAN
  BY DEF SumType
<1>1. d \in SumType
  BY <1>0, SetSum
<1>2. /\ d.cur = s.cur /\ d.tot = s.tot /\ d.count = s.count - 1 /\ d.maxcount = s.maxcount
      /\ d.filter = s.filter /\ d.freed = s.freed /\ d.prev = s.prev /\ d.threads = s.threads
  BY DEF SumType
<1> DEFINE f == IF s.maxcount > 1 \/ setup.sumOnly THEN SumFinal(d) ELSE d
           r == [f EXCEPT !.freed = TRUE]
<1>3. SumEnd(s) = IF d.count > 0 THEN d ELSE r
  BY DEF SumEnd
<1> HIDE DEF d
<1>4. /\ f \in SumType /\ SameSum(f, d)
      /\ s.maxcount > 1 \/ setup.sumOnly =>
            /\ f.cnt = s.tot /\ f.cntBytes \in Nat
            /\ f.iEnd >= 1 => f.cntBytes = s.cur
  BY <1>1, <1>2, FinalOfSum DEF SameSum
<1> HIDE DEF f
<1>5. r \in SumType
  BY <1>0, <1>4, SetSum
<1>6. /\ r.cur = f.cur /\ r.tot = f.tot /\ r.count = f.count /\ r.maxcount = f.maxcount
      /\ r.filter = f.filter /\ r.freed /\ r.cnt = f.cnt /\ r.cntBytes = f.cntBytes
      /\ r.iEnd = f.iEnd
  BY <1>4 DEF SumType
<1> HIDE DEF r
<1>7. CASE s.count - 1 > 0
  BY <1>0, <1>1, <1>2, <1>3, <1>7
<1>8. CASE s.count - 1 <= 0
  <2>1. SumEnd(s) = r
    BY <1>0, <1>2, <1>3, <1>8
  <2> QED BY <1>0, <1>2, <1>4, <1>5, <1>6, <1>8, <2>1 DEF SameSum
<1> QED BY <1>0, <1>7, <1>8

\* The same of the full duplex report.
LEMMA EndFullDuplex ==
  ASSUME NEW s \in SumType
  PROVE  FullDuplexEnd(s) \in SumType /\ FullDuplexEnd(s).cur = s.cur
<1> DEFINE d == [s EXCEPT !.count = @ - 1]
<1>0. s.count - 1 \in Int /\ 0 \in Nat /\ TRUE \in BOOLEAN
  BY DEF SumType
<1>1. d \in SumType
  BY <1>0, SetSum
<1>2. d.cur = s.cur
  BY DEF SumType
<1>3. FullDuplexEnd(s) = IF d.count > 0 THEN d ELSE FullDuplexFinal(d)
  BY DEF FullDuplexEnd
<1> HIDE DEF d
<1> QED BY <1>1, <1>2, <1>3, FinalFullDuplex

\* A thread joins the group.
LEMMA JoinSum ==
  ASSUME NEW s \in SumType, NEW i \in InfoType
  PROVE  LET r == SumStart(Incr(s), i)
         IN  /\ r \in SumType
             /\ r.cur = s.cur /\ r.tot = s.tot /\ r.count = s.count + 1 /\ r.prev = s.prev
             /\ r.threads = s.threads /\ r.filter = s.filter /\ r.freed = s.freed
<1> DEFINE m == IF s.count + 1 > s.maxcount THEN s.count + 1 ELSE s.maxcount
           c == [s EXCEPT !.count = @ + 1, !.maxcount = m]
           n == IF setup.modeTime THEN i.next ELSE c.next
           r == [c EXCEPT !.start = i.start, !.next = n]
<1>0. /\ s.count + 1 \in Int /\ m \in Int /\ 0 \in Nat /\ TRUE \in BOOLEAN
      /\ i.next \in Nat /\ i.start \in Nat
  BY DEF SumType, InfoType
<1> HIDE DEF m
<1>1. c \in SumType
  BY <1>0, SetSum
<1>2. /\ c.cur = s.cur /\ c.tot = s.tot /\ c.count = s.count + 1 /\ c.prev = s.prev
      /\ c.threads = s.threads /\ c.filter = s.filter /\ c.freed = s.freed
  BY DEF SumType
<1>3. Incr(s) = c
  BY DEF Incr, m
<1> HIDE DEF c
<1>4. n \in Nat /\ 0 \in Int
  BY <1>0, <1>1 DEF SumType
<1>5. SumStart(c, i) = IF c.start # 0 THEN c ELSE r
  BY DEF SumStart
<1> HIDE DEF n
<1>6. r \in SumType
  BY <1>0, <1>1, <1>4, SetSum
<1>7. /\ r.cur = c.cur /\ r.tot = c.tot /\ r.count = c.count /\ r.prev = c.prev
      /\ r.threads = c.threads /\ r.filter = c.filter /\ r.freed = c.freed
  BY <1>1 DEF SumType
<1> HIDE DEF r
<1> QED BY <1>1, <1>2, <1>3, <1>5, <1>6, <1>7

-----------------------------------------------------------------------------
\* The steps of the reporter.

PassedBytes == [t \in Threads |-> IF st[t] = "done" THEN info[t].cur ELSE info[t].prev]
PassedCalls ==
    [t \in Threads |-> info[t].tot - (IF st[t] = "done" THEN 0 ELSE info[t].cnt)]

\* What the threads passed on are natural numbers, of finitely many threads.
LEMMA PassedNat ==
  ASSUME SumTypeOK, PassedOn
  PROVE  /\ IsFiniteSet(Started) /\ IsFiniteSet(Running)
         /\ \A t \in Started : PassedBytes[t] \in Nat /\ PassedCalls[t] \in Nat
         /\ \A t \in Threads : info[t].cur \in Nat /\ info[t].tot \in Nat
<1>1. IsFiniteSet(Started)
  BY IntervalAssumption, FS_Subset DEF Started
<1>2. IsFiniteSet(Running)
  BY IntervalAssumption, FS_Subset DEF Running
<1>3. ASSUME NEW t \in Threads
      PROVE  /\ info[t].cur \in Nat /\ info[t].prev \in Nat
             /\ info[t].tot \in Nat /\ info[t].cnt \in Nat
  BY DEF SumTypeOK, InfoType
<1>4. ASSUME NEW t \in Started PROVE PassedBytes[t] \in Nat /\ PassedCalls[t] \in Nat
  <2>1. CASE st[t] = "done"
    BY <1>3, <2>1 DEF PassedBytes, PassedCalls, Started
  <2>2. CASE st[t] = "run"
    <3>1. info[t].cnt <= info[t].tot /\ t \in Threads
      BY <2>2 DEF PassedOn, Running, Started
    <3> QED BY <1>3, <2>2, <3>1 DEF PassedBytes, PassedCalls
  <2> QED BY <2>1, <2>2 DEF Started
<1> QED BY <1>1, <1>2, <1>3, <1>4

\* Nothing but thread t and the reports change, and thread t passes on so many
\* bytes and calls.
PassesOn(t, bytes, calls) ==
    /\ t \in Started /\ Started' = Started
    /\ \A u \in Threads \ {t} : info'[u] = info[u] /\ st'[u] = st[u]
    /\ PassedBytes'[t] = PassedBytes[t] + bytes
    /\ PassedCalls'[t] = PassedCalls[t] + calls

\* Then the totals change by as much.
LEMMA TotalsGrow ==
  ASSUME SumTypeOK, PassedOn, NEW t \in Threads, NEW bytes \in Nat, NEW calls \in Nat,
         PassesOn(t, bytes, calls)
  PROVE  /\ Total(PassedBytes)' = Total(PassedBytes) + bytes
         /\ Total(PassedCalls)' = Total(PassedCalls) + calls
         /\ Total(PassedBytes) \in Nat /\ Total(PassedCalls) \in Nat
<1>1. /\ IsFiniteSet(Started)
      /\ \A u \in Started : PassedBytes[u] \in Nat /\ PassedCalls[u] \in Nat
  BY PassedNat
<1>2. /\ t \in Started /\ Started' = Started
      /\ PassedBytes'[t] = PassedBytes[t] + bytes
      /\ PassedCalls'[t] = PassedCalls[t] + calls
  BY DEF PassesOn
<1>3. ASSUME NEW u \in Started \ {t}
      PROVE  PassedBytes'[u] = PassedBytes[u] /\ PassedCalls'[u] = PassedCalls[u]
  <2>1. u \in Threads \ {t}
    BY DEF Started
  <2> QED BY <2>1 DEF PassesOn, PassedBytes, PassedCalls
<1>4. PassedBytes'[t] \in Nat /\ PassedCalls'[t] \in Nat
  BY <1>1, <1>2
<1> DEFINE b == PassedBytes
           c == PassedCalls
           b1 == PassedBytes'
           c1 == PassedCalls'
<1>5. SumFunctionOnSet(b1, Started) = SumFunctionOnSet(b, Started) + (b1[t] - b[t])
  <2> HIDE DEF b, b1
  <2> QED BY <1>1, <1>2, <1>3, <1>4, SumChange DEF b, b1
<1>6. SumFunctionOnSet(c1, Started) = SumFunctionOnSet(c, Started) + (c1[t] - c[t])
  BY <1>1, <1>2, <1>3, <1>4, SumChange
<1>7. SumFunctionOnSet(b, Started) \in Nat /\ SumFunctionOnSet(c, Started) \in Nat
  BY <1>1, SumSplit
<1> QED BY <1>1, <1>2, <1>5, <1>6, <1>7 DEF Total

AllBytes == [t \in Threads |-> info[t].cur]
AllCalls == [t \in Threads |-> info[t].tot]

\* The totals of all threads and of what they passed on are as before.
SameTotals ==
    /\ Total(PassedBytes)' = Total(PassedBytes) /\ Total(PassedCalls)' = Total(PassedCalls)
    /\ Total(AllBytes)' = Total(AllBytes) /\ Total(AllCalls)' = Total(AllCalls)

\* They are when no thread that was started changes.
LEMMA TotalsSame ==
  ASSUME SumTypeOK, PassedOn, Started' = Started,
         \A u \in Started : info'[u] = info[u] /\ st'[u] = st[u]
  PROVE  SameTotals
<1>1. /\ IsFiniteSet(Started)
      /\ \A u \in Started : PassedBytes[u] \in Nat /\ PassedCalls[u] \in Nat
      /\ \A u \in Started : AllBytes[u] \in Nat /\ AllCalls[u] \in Nat
  BY PassedNat DEF AllBytes, AllCalls, Started
<1>2. \A u \in Started : /\ PassedBytes'[u] = PassedBytes[u] /\ PassedCalls'[u] = PassedCalls[u]
                         /\ AllBytes'[u] = AllBytes[u] /\ AllCalls'[u] = AllCalls[u]
  BY DEF Started, PassedBytes, PassedCalls, AllBytes, AllCalls
<1>3. SumFunctionOnSet(PassedBytes', Started) = SumFunctionOnSet(PassedBytes, Started)
  BY <1>1, <1>2, SumSame
<1>4. SumFunctionOnSet(PassedCalls', Started) = SumFunctionOnSet(PassedCalls, Started)
  BY <1>1, <1>2, SumSame
<1>5. SumFunctionOnSet(AllBytes', Started) = SumFunctionOnSet(AllBytes, Started)
  BY <1>1, <1>2, SumSame
<1>6. SumFunctionOnSet(AllCalls', Started) = SumFunctionOnSet(AllCalls, Started)
  BY <1>1, <1>2, SumSame
<1> QED BY <1>3, <1>4, <1>5, <1>6 DEF Total, SameTotals

\* What a packet does to the report of its thread.
LEMMA PacketInfo ==
  ASSUME NEW t, NEW o \in InfoType, NEW now \in Nat, NEW len \in Nat,
         o.prev <= o.cur, o.cnt <= o.tot, o.start + Interval <= o.next,
         o.iEnd = o.next - Interval - o.start,
         OutputHandler # "none" => o.pt - o.next <= Interval
  PROVE  LET i == [o EXCEPT !.last = now]
             due == i.next < now
             j == HandlePacket(t, IF due THEN IntervalReport(i, now) ELSE i, now, len, len)
         IN  /\ j \in InfoType
             /\ j.cur = o.cur + len /\ j.tot = o.tot + len
             /\ j.prev = IF due THEN o.cur ELSE o.prev
             /\ j.cnt = (IF due THEN 0 ELSE o.cnt) + len
             /\ j.prev <= j.cur /\ j.cnt <= j.tot /\ j.start + Interval <= j.next
             /\ j.iEnd = j.next - Interval - j.start
             /\ OutputHandler # "none" => j.pt - j.next <= Interval
<1> DEFINE i == [o EXCEPT !.last = now]
           due == i.next < now
           h == IF due THEN IntervalReport(i, now) ELSE i
           j == HandlePacket(t, h, now, len, len)
<1>0. /\ o.cur \in Nat /\ o.prev \in Nat /\ o.cnt \in Nat /\ o.tot \in Nat /\ 0 \in Int
      /\ o.next \in Nat /\ o.start \in Nat /\ o.pt \in Nat /\ Interval \in Nat
  BY IntervalNat DEF InfoType
<1>1. i \in InfoType
  BY <1>0, SetInfo
<1>2. /\ i.cur = o.cur /\ i.prev = o.prev /\ i.cnt = o.cnt /\ i.tot = o.tot /\ i.pt = o.pt
      /\ i.start = o.start /\ i.next = o.next /\ i.iEnd = o.iEnd
  BY DEF InfoType
<1> HIDE DEF i
<1>3. /\ h \in InfoType
      /\ h.cur = o.cur /\ h.tot = o.tot
      /\ h.prev = IF due THEN o.cur ELSE o.prev
      /\ h.cnt = IF due THEN 0 ELSE o.cnt
      /\ h.start + Interval <= h.next /\ h.iEnd = h.next - Interval - h.start
      /\ OutputHandler # "none" =>
            h.pt - h.next <= Interval /\ now - h.next <= Interval
  <2>1. CASE due
    <3>1. i.start + Interval <= i.next
      BY <1>2
    <3> DEFINE r == IntervalReport(i, now)
    <3>2. /\ r \in InfoType
          /\ r.cur = i.cur /\ r.prev = i.cur /\ r.cnt = 0 /\ r.tot = i.tot
          /\ r.start + Interval <= r.next /\ r.iEnd = r.next - Interval - r.start
          /\ r.pt = now
          /\ OutputHandler # "none" => r.pt - r.next <= Interval
      BY <1>1, <2>1, <3>1, IntervalInfo
    <3>3. h = r
      BY <2>1
    <3> HIDE DEF r, h
    <3> QED BY <1>2, <2>1, <3>2, <3>3
  <2>2. CASE ~due
    <3>1. now - i.next <= Interval
      BY <1>0, <1>2, <2>2
    <3> QED BY <1>1, <1>2, <2>2, <3>1
  <2> QED BY <2>1, <2>2
<1> HIDE DEF h
<1>4. /\ j \in InfoType
      /\ j.cur = h.cur + len /\ j.cnt = h.cnt + len /\ j.tot = h.tot + len
      /\ j.prev = h.prev /\ j.start = h.start /\ j.next = h.next
      /\ j.iEnd = h.iEnd /\ j.pt \in {h.pt, now}
  BY <1>3, HandleInfo
<1>5. j.prev <= j.cur /\ j.cnt <= j.tot
  <2> HIDE DEF j
  <2> QED BY <1>0, <1>3, <1>4
<1>6. OutputHandler # "none" => j.pt - j.next <= Interval
  <2> HIDE DEF j
  <2> QED BY <1>3, <1>4
<1>7. /\ j.cur = o.cur + len /\ j.tot = o.tot + len
      /\ j.prev = IF due THEN o.cur ELSE o.prev
      /\ j.cnt = (IF due THEN 0 ELSE o.cnt) + len
      /\ j.start + Interval <= j.next /\ j.iEnd = j.next - Interval - j.start
  <2> HIDE DEF j, due
  <2> QED BY <1>0, <1>3, <1>4
<1> HIDE DEF j
<1> QED BY <1>4, <1>5, <1>6, <1>7 DEF j, h, i

\* What it does to the sum report of the group and to the full duplex report:
\* b and c are the bytes and calls passed on.
LEMMA PacketSum ==
  ASSUME NEW s \in SumType, NEW f \in SumType, NEW i \in InfoType, i.prev <= i.cur,
         NEW now \in Nat, NEW due \in BOOLEAN
  PROVE  LET a == AddToSum(s, i)
             r == [IF due THEN SumDue(a) ELSE s EXCEPT !.pt = now]
             g == [IF due THEN FullDuplexDue(AddToSum(f, i)) ELSE f EXCEPT !.pt = now]
             b == IF due THEN i.cur - i.prev ELSE 0
             c == IF due THEN i.cnt ELSE 0
             out == due /\ s.threads + 1 = s.count
         IN  /\ r \in SumType
             /\ r.cur = s.cur + b /\ r.tot = s.tot + c /\ r.count = s.count
             /\ r.maxcount = s.maxcount /\ r.freed = s.freed
             /\ a.prev = s.prev /\ a.cur = s.cur + (i.cur - i.prev)
             /\ a.threads = s.threads /\ a.count = s.count
             /\ r.prev = IF out THEN a.cur ELSE s.prev
             /\ r.threads = IF out THEN 0 ELSE IF due THEN s.threads + 1 ELSE s.threads
             /\ g \in SumType /\ g.cur = f.cur + b
<1> DEFINE a == AddToSum(s, i)
           x == IF due THEN SumDue(a) ELSE s
           r == [x EXCEPT !.pt = now]
           e == AddToSum(f, i)
           y == IF due THEN FullDuplexDue(e) ELSE f
           g == [y EXCEPT !.pt = now]
           b == IF due THEN i.cur - i.prev ELSE 0
           c == IF due THEN i.cnt ELSE 0
           out == due /\ s.threads + 1 = s.count
<1>0. 0 \in Int /\ TRUE \in BOOLEAN /\ s.cur \in Nat /\ s.tot \in Nat /\ f.cur \in Nat
  BY DEF SumType
<1>1. /\ a \in SumType
      /\ a.cur = s.cur + (i.cur - i.prev) /\ a.tot = s.tot + i.cnt /\ a.prev = s.prev
      /\ a.threads = s.threads /\ a.count = s.count /\ a.maxcount = s.maxcount
      /\ a.freed = s.freed
  BY AddSum
<1>2. e \in SumType /\ e.cur = f.cur + (i.cur - i.prev)
  BY AddSum
<1> HIDE DEF a, e
<1>3. /\ x \in SumType
      /\ x.cur = s.cur + b /\ x.tot = s.tot + c /\ x.count = s.count
      /\ x.maxcount = s.maxcount /\ x.freed = s.freed
      /\ x.prev = IF out THEN a.cur ELSE s.prev
      /\ x.threads = IF out THEN 0 ELSE IF due THEN s.threads + 1 ELSE s.threads
  <2>1. CASE due
    <3> DEFINE d == SumDue(a)
    <3>1. /\ d \in SumType
          /\ d.cur = a.cur /\ d.tot = a.tot /\ d.count = a.count
          /\ d.maxcount = a.maxcount /\ d.freed = a.freed
          /\ IF a.threads + 1 # a.count
             THEN d.prev = a.prev /\ d.threads = a.threads + 1
             ELSE d.prev = a.cur /\ d.threads = 0
      BY <1>1, DueSum
    <3>2. x = d
      BY <2>1
    <3> HIDE DEF d, x
    <3> QED BY <1>1, <2>1, <3>1, <3>2
  <2>2. CASE ~due
    BY <1>0, <2>2
  <2> QED BY <2>1, <2>2
<1>4. y \in SumType /\ y.cur = f.cur + b
  BY <1>0, <1>2, DueFullDuplex
<1> HIDE DEF x, y
<1>5. r \in SumType /\ g \in SumType
  BY <1>0, <1>3, <1>4, SetSum
<1>6. /\ r.cur = x.cur /\ r.tot = x.tot /\ r.count = x.count /\ r.maxcount = x.maxcount
      /\ r.freed = x.freed /\ r.prev = x.prev /\ r.threads = x.threads
      /\ g.cur = y.cur
  BY <1>3, <1>4 DEF SumType
<1> HIDE DEF r, g
<1>7. /\ r \in SumType
      /\ r.cur = s.cur + b /\ r.tot = s.tot + c /\ r.count = s.count
      /\ r.maxcount = s.maxcount /\ r.freed = s.freed
      /\ a.prev = s.prev /\ a.cur = s.cur + (i.cur - i.prev)
      /\ a.threads = s.threads /\ a.count = s.count
      /\ r.prev = IF out THEN a.cur ELSE s.prev
      /\ r.threads = IF out THEN 0 ELSE IF due THEN s.threads + 1 ELSE s.threads
      /\ g \in SumType /\ g.cur = f.cur + b
  BY <1>1, <1>3, <1>4, <1>5, <1>6
<1> QED BY <1>7 DEF r, g, x, y, a, e

\* A thread joins.
LEMMA JoinInv ==
  ASSUME IntervalInv, NEW t \in Threads, Join(t)
  PROVE  IntervalInv'
<1> USE DEF IntervalInv
<1>1. PICK now \in 1 .. 2 :
        LET kernel == IF setup.udp /\ setup.mode[t] = "server" THEN now - 1 ELSE now
            i == [NoInfo EXCEPT !.start = now, !.next = now + Interval, !.last = kernel]
        IN  /\ info' = [info EXCEPT ![t] = i]
            /\ IF setup.group /\ sum.freed
               THEN /\ st' = [st EXCEPT ![t] = "lost"]
                    /\ UNCHANGED <<sum, fdx>>
               ELSE /\ st' = [st EXCEPT ![t] = "run"]
                    /\ sum' = IF setup.group THEN SumStart(Incr(sum), i) ELSE sum
                    /\ fdx' = IF setup.fullDuplex THEN SumStart(Incr(fdx), i) ELSE fdx
  BY DEF Join
<1> DEFINE kernel == IF setup.udp /\ setup.mode[t] = "server" THEN now - 1 ELSE now
           i == [NoInfo EXCEPT !.start = now, !.next = now + Interval, !.last = kernel]
<1>2. /\ st[t] = "none" /\ setup' = setup /\ shown' = shown /\ sumShown' = sumShown
      /\ sumFinal' = sumFinal /\ ended' = ended
  BY DEF Join
<1>3. /\ i \in InfoType
      /\ i.cur = 0 /\ i.prev = 0 /\ i.cnt = 0 /\ i.tot = 0 /\ i.pt = 0 /\ i.iEnd = 0
      /\ i.start \in Nat /\ i.next = i.start + Interval
  <2>1. kernel \in Nat
    OBVIOUS
  <2> HIDE DEF kernel
  <2>2. NoInfo \in InfoType
    BY DEF NoInfo, InfoType
  <2>3. now \in Nat /\ now + Interval \in Nat /\ 0 \in Int
    BY IntervalNat
  <2>4. i \in InfoType
    BY <2>1, <2>2, <2>3, SetInfo
  <2>5. /\ i.cur = 0 /\ i.prev = 0 /\ i.cnt = 0 /\ i.tot = 0 /\ i.pt = 0 /\ i.iEnd = 0
        /\ i.start = now /\ i.next = now + Interval
    BY DEF NoInfo
  <2> QED BY <2>3, <2>4, <2>5
<1> HIDE DEF i
<1>4. /\ info' = [info EXCEPT ![t] = i]
      /\ \/ /\ setup.group /\ sum.freed /\ st' = [st EXCEPT ![t] = "lost"]
            /\ sum' = sum /\ fdx' = fdx
         \/ /\ ~(setup.group /\ sum.freed) /\ st' = [st EXCEPT ![t] = "run"]
            /\ sum' = IF setup.group THEN SumStart(Incr(sum), i) ELSE sum
            /\ fdx' = IF setup.fullDuplex THEN SumStart(Incr(fdx), i) ELSE fdx
  BY <1>1 DEF i
<1> DEFINE js == SumStart(Incr(sum), i)
           jf == SumStart(Incr(fdx), i)
<1>5. /\ js \in SumType
      /\ js.cur = sum.cur /\ js.tot = sum.tot /\ js.count = sum.count + 1
      /\ js.prev = sum.prev /\ js.threads = sum.threads /\ js.filter = sum.filter
      /\ js.freed = sum.freed
  BY <1>3, JoinSum DEF SumTypeOK
<1>6. jf \in SumType /\ jf.cur = fdx.cur
  BY <1>3, JoinSum DEF SumTypeOK
<1> HIDE DEF js, jf
<1>7. /\ info'[t] = i /\ \A u \in Threads \ {t} : info'[u] = info[u] /\ st'[u] = st[u]
      /\ info' \in [Threads -> InfoType]
  BY <1>3, <1>4 DEF SumTypeOK
<1>8. CASE setup.group /\ sum.freed /\ st' = [st EXCEPT ![t] = "lost"] /\ sum' = sum /\ fdx' = fdx
  <2>1. st'[t] = "lost" /\ st' \in [Threads -> {"none", "run", "done", "lost"}]
    BY <1>8 DEF SumTypeOK
  <2>2. Started' = Started /\ Running' = Running /\ t \notin Started
    BY <1>2, <1>7, <2>1 DEF Started, Running
  <2>3. SameTotals
    <3>1. \A u \in Started : info'[u] = info[u] /\ st'[u] = st[u]
      BY <1>7, <2>2 DEF Started
    <3> QED BY <2>2, <3>1, TotalsSame
  <2>4. SumComplete' /\ FinalSumIsTotal'
    BY <1>2, <1>8, <2>3
    DEF SumComplete, FinalSumIsTotal, SameTotals, PassedBytes, PassedCalls, AllBytes, AllCalls
  <2>5. SumTypeOK'
    BY <1>2, <1>7, <1>8, <2>1 DEF SumTypeOK
  <2>6. NothingYet'
    BY <1>2, <1>7, <2>1 DEF NothingYet
  <2>7. PassedOn' /\ IntervalsTile'
    BY <1>2, <1>7, <2>1, <2>2 DEF PassedOn, IntervalsTile, Running, OutputHandler
  <2>8. CountRight' /\ PaceInv'
    BY <1>2, <1>8, <2>2 DEF CountRight, PaceInv
  <2> QED BY <2>4, <2>5, <2>6, <2>7, <2>8
<1>9. CASE /\ ~(setup.group /\ sum.freed) /\ st' = [st EXCEPT ![t] = "run"]
           /\ sum' = IF setup.group THEN js ELSE sum
           /\ fdx' = IF setup.fullDuplex THEN jf ELSE fdx
  <2>1. st'[t] = "run" /\ st' \in [Threads -> {"none", "run", "done", "lost"}]
    BY <1>9 DEF SumTypeOK
  <2>2. /\ Started' = Started \cup {t} /\ t \notin Started
        /\ Running' = Running \cup {t} /\ t \notin Running
    BY <1>2, <1>7, <2>1 DEF Started, Running
  <2>3. SumTypeOK'
    BY <1>2, <1>5, <1>6, <1>7, <1>9, <2>1 DEF SumTypeOK
  <2>4. ~sum.freed /\ ~sum'.freed /\ sumFinal' = -1
    BY <1>2, <1>5, <1>9 DEF CountRight, SumTypeOK
  <2>5. Total(PassedBytes)' = Total(PassedBytes) /\ Total(PassedCalls)' = Total(PassedCalls)
    <3>1. /\ IsFiniteSet(Started)
          /\ \A u \in Started : PassedBytes[u] \in Nat /\ PassedCalls[u] \in Nat
      BY PassedNat
    <3>2. \A u \in Started : PassedBytes'[u] = PassedBytes[u] /\ PassedCalls'[u] = PassedCalls[u]
      BY <1>7, <2>2 DEF Started, PassedBytes, PassedCalls
    <3>3. PassedBytes'[t] = 0 /\ PassedCalls'[t] = 0
      BY <1>3, <1>7, <2>1 DEF PassedBytes, PassedCalls
    <3>4. SumFunctionOnSet(PassedBytes', Started \cup {t})
            = SumFunctionOnSet(PassedBytes, Started) + PassedBytes'[t]
      BY <2>2, <3>1, <3>2, <3>3, SumNew
    <3>5. SumFunctionOnSet(PassedCalls', Started \cup {t})
            = SumFunctionOnSet(PassedCalls, Started) + PassedCalls'[t]
      BY <2>2, <3>1, <3>2, <3>3, SumNew
    <3>6. /\ SumFunctionOnSet(PassedBytes, Started) \in Nat
          /\ SumFunctionOnSet(PassedCalls, Started) \in Nat
      BY <3>1, SumSplit
    <3> QED BY <2>2, <3>3, <3>4, <3>5, <3>6 DEF Total
  <2>6. SumComplete' /\ FinalSumIsTotal'
    BY <1>2, <1>5, <1>6, <1>9, <2>4, <2>5
    DEF SumComplete, FinalSumIsTotal, PassedBytes, PassedCalls
  <2>7. NothingYet'
    BY <1>2, <1>7, <2>1 DEF NothingYet
  <2>8. PassedOn'
    BY <1>3, <1>7, <2>1, <2>2, IntervalNat DEF PassedOn, Running
  <2>9. IntervalsTile'
    <3>1. /\ shown'[t] = i.prev /\ i.iEnd = i.next - Interval - i.start
          /\ i.pt - i.next <= Interval
      BY <1>2, <1>3, IntervalNat DEF NothingYet
    <3> QED BY <1>2, <1>7, <3>1 DEF IntervalsTile, OutputHandler
  <2>10. CountRight'
    <3>1. Cardinality(Running \cup {t}) = Cardinality(Running) + 1
      BY <2>2, PassedNat, FS_AddElement
    <3> QED BY <1>2, <1>5, <1>9, <2>2, <2>4, <3>1 DEF CountRight
  <2>11. PaceInv'
    BY <1>2, <1>5, <1>9, <2>4 DEF PaceInv, SumTypeOK, SumType
  <2> QED BY <2>3, <2>6, <2>7, <2>8, <2>9, <2>10, <2>11
<1> QED BY <1>4, <1>8, <1>9 DEF js, jf

\* A packet of traffic.
LEMMA PacketInv ==
  ASSUME IntervalInv, NEW t \in Threads, ProcessPacket(t)
  PROVE  IntervalInv'
<1> USE DEF IntervalInv
<1> DEFINE I(now) == [info[t] EXCEPT !.last = now]
           Due(now) == I(now).next < now
           J(now, len) == HandlePacket(t, IF Due(now) THEN IntervalReport(I(now), now)
                                          ELSE I(now), now, len, len)
           A(now) == AddToSum(sum, I(now))
           R(now) == [IF Due(now) THEN SumDue(A(now)) ELSE sum EXCEPT !.pt = now]
           G(now) == [IF Due(now) THEN FullDuplexDue(AddToSum(fdx, I(now))) ELSE fdx
                        EXCEPT !.pt = now]
           Out(now) == Due(now) /\ setup.group /\ A(now).threads + 1 = A(now).count
<1>1. PICK now \in From(info[t].last), len \in 0 .. 1 :
        /\ info' = [info EXCEPT ![t] = J(now, len)]
        /\ sum' = IF ~setup.group THEN sum ELSE R(now)
        /\ fdx' = IF ~setup.fullDuplex THEN fdx ELSE G(now)
        /\ shown' = [shown EXCEPT ![t] = IF Due(now) THEN @ + I(now).cur - I(now).prev ELSE @]
        /\ sumShown' = IF Out(now) THEN sumShown + A(now).cur - A(now).prev ELSE sumShown
        /\ ended' = IF Out(now) THEN 0 ELSE ended
  BY DEF ProcessPacket
<1>2. st[t] = "run" /\ setup' = setup /\ st' = st /\ sumFinal' = sumFinal
  BY DEF ProcessPacket
<1> DEFINE o == info[t]
           i == I(now)
           due == Due(now)
           j == J(now, len)
           a == A(now)
           r == R(now)
           g == G(now)
           b == IF due THEN o.cur - o.prev ELSE 0
           c == IF due THEN o.cnt ELSE 0
           out == due /\ setup.group /\ sum.threads + 1 = sum.count
<1>3. /\ now \in Nat /\ len \in Nat /\ o \in InfoType /\ t \in Running /\ t \in Started
      /\ sum \in SumType /\ fdx \in SumType /\ due \in BOOLEAN
  BY <1>2, IntervalAssumption DEF From, SumTypeOK, Running, Started
<1>4. /\ o.prev <= o.cur /\ o.cnt <= o.tot /\ o.start + Interval <= o.next
      /\ o.iEnd = o.next - Interval - o.start
      /\ OutputHandler # "none" => o.pt - o.next <= Interval
  BY <1>2, <1>3 DEF PassedOn, IntervalsTile
<1>5. /\ j \in InfoType
      /\ j.cur = o.cur + len /\ j.tot = o.tot + len
      /\ j.prev = IF due THEN o.cur ELSE o.prev
      /\ j.cnt = (IF due THEN 0 ELSE o.cnt) + len
      /\ j.prev <= j.cur /\ j.cnt <= j.tot /\ j.start + Interval <= j.next
      /\ j.iEnd = j.next - Interval - j.start
      /\ OutputHandler # "none" => j.pt - j.next <= Interval
  <2> HIDE DEF o
  <2> QED BY <1>3, <1>4, PacketInfo DEF o
<1>6. i \in InfoType
  <2>1. 0 \in Int
    OBVIOUS
  <2> QED BY <1>3, <2>1, SetInfo
<1>7. i.cur = o.cur /\ i.prev = o.prev /\ i.cnt = o.cnt
  BY <1>3 DEF InfoType
<1>8. /\ r \in SumType
      /\ r.cur = sum.cur + b /\ r.tot = sum.tot + c /\ r.count = sum.count
      /\ r.maxcount = sum.maxcount /\ r.freed = sum.freed
      /\ a.prev = sum.prev /\ a.cur = sum.cur + (o.cur - o.prev)
      /\ a.threads = sum.threads /\ a.count = sum.count
      /\ r.prev = IF due /\ sum.threads + 1 = sum.count THEN a.cur ELSE sum.prev
      /\ r.threads = IF due /\ sum.threads + 1 = sum.count THEN 0
                     ELSE IF due THEN sum.threads + 1 ELSE sum.threads
      /\ g \in SumType /\ g.cur = fdx.cur + b
  <2>1. i.prev <= i.cur
    BY <1>4, <1>7
  <2> HIDE DEF I, Due
  <2> QED BY <1>3, <1>6, <1>7, <2>1, PacketSum
<1>9. /\ info' = [info EXCEPT ![t] = j]
      /\ sum' = IF ~setup.group THEN sum ELSE r
      /\ fdx' = IF ~setup.fullDuplex THEN fdx ELSE g
      /\ shown' = [shown EXCEPT ![t] = IF due THEN @ + o.cur - o.prev ELSE @]
      /\ sumShown' = IF out THEN sumShown + a.cur - a.prev ELSE sumShown
      /\ ended' = IF out THEN 0 ELSE ended
  BY <1>1, <1>7, <1>8
<1> HIDE DEF j, a, r, g, due, i
<1>10. /\ info'[t] = j /\ \A u \in Threads \ {t} : info'[u] = info[u] /\ shown'[u] = shown[u]
       /\ info' \in [Threads -> InfoType]
       /\ shown'[t] = IF due THEN shown[t] + o.cur - o.prev ELSE shown[t]
  BY <1>5, <1>9 DEF SumTypeOK
<1>11. o.cur \in Nat /\ o.prev \in Nat /\ o.cnt \in Nat /\ o.tot \in Nat
  BY <1>3 DEF InfoType
<1>12. b \in Nat /\ c \in Nat
  BY <1>3, <1>4, <1>11
<1>13. shown' \in [Threads -> Int] /\ sumShown' \in Int /\ ended' \in Nat
  <2>1. a.cur \in Int /\ a.prev \in Int /\ sumShown \in Int /\ ended \in Nat
    BY <1>3, <1>8, <1>11 DEF SumTypeOK, SumType
  <2>2. (IF due THEN shown[t] + o.cur - o.prev ELSE shown[t]) \in Int
    BY <1>11 DEF SumTypeOK
  <2>3. shown' \in [Threads -> Int]
    BY <1>9, <2>2 DEF SumTypeOK
  <2>4. sumShown' \in Int /\ ended' \in Nat
    BY <1>9, <2>1
  <2> QED BY <2>3, <2>4
<1>14. SumTypeOK'
  BY <1>2, <1>3, <1>8, <1>9, <1>10, <1>13 DEF SumTypeOK
<1>15. Started' = Started /\ Running' = Running
  BY <1>2 DEF Started, Running
<1>16. SumComplete'
  <2>1. PassesOn(t, b, c)
    <3>1. /\ PassedBytes[t] = o.prev /\ PassedCalls[t] = o.tot - o.cnt
          /\ PassedBytes'[t] = j.prev /\ PassedCalls'[t] = j.tot - j.cnt
      BY <1>2, <1>10 DEF PassedBytes, PassedCalls
    <3>2. j.prev = o.prev + b
      BY <1>5, <1>11
    <3>3. j.tot - j.cnt = o.tot - o.cnt + c
      BY <1>3, <1>5, <1>11
    <3> HIDE DEF o, b, c
    <3> QED BY <1>2, <1>3, <1>10, <1>15, <3>1, <3>2, <3>3 DEF PassesOn
  <2> HIDE DEF b, c
  <2>2. /\ Total(PassedBytes)' = Total(PassedBytes) + b
        /\ Total(PassedCalls)' = Total(PassedCalls) + c
    BY <1>12, <2>1, TotalsGrow
  <2> QED BY <1>2, <1>8, <1>9, <2>2 DEF SumComplete, PassedBytes, PassedCalls
<1>17. ~sum.freed /\ ~sum'.freed
  BY <1>3, <1>8, <1>9 DEF CountRight
<1>18. FinalSumIsTotal'
  BY <1>17 DEF FinalSumIsTotal
<1>19. NothingYet'
  BY <1>2, <1>10 DEF NothingYet
<1>20. PassedOn'
  BY <1>5, <1>10, <1>15 DEF PassedOn, Running
<1>21. IntervalsTile'
  <2>1. shown'[t] = j.prev
    BY <1>2, <1>5, <1>10, <1>11 DEF IntervalsTile
  <2> QED BY <1>2, <1>5, <1>10, <2>1 DEF IntervalsTile, OutputHandler
<1>22. CountRight'
  BY <1>2, <1>8, <1>9, <1>15, <1>17 DEF CountRight
<1>23. PaceInv'
  <2> SUFFICES ASSUME setup.group
               PROVE  /\ sumShown' = sum'.prev
                      /\ ended' = 0 => sum'.threads < sum'.count
    BY <1>2 DEF PaceInv
  <2>1. /\ sumShown = sum.prev
        /\ ended = 0 => sum.threads < sum.count \/ (sum.threads = 0 /\ sum.count = 0)
    BY <1>17 DEF PaceInv
  <2>2. sum.count \in Nat /\ sum.count > 0
    <3>1. Cardinality(Running) \in Nat /\ Cardinality(Running) # 0
      BY <1>3, PassedNat, FS_CardinalityType, FS_EmptySet
    <3> QED BY <3>1 DEF CountRight
  <2>3. sum.threads \in Nat /\ sum.prev \in Nat /\ a.cur \in Int
    BY <1>3, <1>8, <1>11 DEF SumType
  <2> QED BY <1>8, <1>9, <2>1, <2>2, <2>3
<1> QED BY <1>14, <1>16, <1>18, <1>19, <1>20, <1>21, <1>22, <1>23

\* The final packet of a thread.
LEMMA FinalInv ==
  ASSUME IntervalInv, NEW t \in Threads, ProcessFinal(t)
  PROVE  IntervalInv'
<1> USE DEF IntervalInv
<1> DEFINE calls == IF setup.mode[t] = "client" THEN 1 ELSE 0
           L(now) == [info[t] EXCEPT !.last = now]
           H(now, len) == HandlePacket(t, L(now), now, len, calls)
           I(now, len) == [H(now, len) EXCEPT !.pt = now]
           S(now, len) == Earlier(AddToSum(sum, I(now, len)), now)
           F(now, len) == AddToSum(fdx, I(now, len))
<1>1. PICK now \in From(info[t].last), len \in 0 .. 1 :
        /\ info' = [info EXCEPT ![t] = ProtocolFinal(t, I(now, len))]
        /\ sum' = IF setup.group THEN SumEnd(S(now, len)) ELSE sum
        /\ fdx' = IF ~setup.fullDuplex THEN fdx
                  ELSE IF setup.enhanced THEN FullDuplexEnd(Earlier(F(now, len), now))
                  ELSE F(now, len)
        /\ sumFinal' = IF setup.group /\ sum'.freed /\ Prints(sum)
                          /\ (sum.maxcount > 1 \/ setup.sumOnly)
                       THEN sum'.cntBytes ELSE sumFinal
  BY DEF ProcessFinal
<1>2. /\ st[t] = "run" /\ st' = [st EXCEPT ![t] = "done"] /\ setup' = setup
      /\ shown' = shown /\ sumShown' = sumShown /\ ended' = ended + 1
  BY DEF ProcessFinal
<1> DEFINE o == info[t]
           l == L(now)
           h == H(now, len)
           i == I(now, len)
           j == ProtocolFinal(t, i)
           a == AddToSum(sum, i)
           s == S(now, len)
           r == SumEnd(s)
           f == F(now, len)
           b == o.cur + len - o.prev
           c == o.cnt + calls
<1>3. /\ now \in Nat /\ len \in Nat /\ calls \in Nat /\ 0 \in Int /\ o \in InfoType
      /\ t \in Running /\ t \in Started /\ sum \in SumType /\ fdx \in SumType
  BY <1>2, IntervalAssumption DEF From, SumTypeOK, Running, Started
<1> HIDE DEF calls
<1>4. o.cur \in Nat /\ o.prev \in Nat /\ o.cnt \in Nat /\ o.tot \in Nat /\ o.prev <= o.cur
  BY <1>3 DEF InfoType, PassedOn
<1>5. b \in Nat /\ c \in Nat
  BY <1>3, <1>4
<1>6. l \in InfoType
  BY <1>3, SetInfo
<1>7. l.cur = o.cur /\ l.prev = o.prev /\ l.cnt = o.cnt /\ l.tot = o.tot
  BY <1>3 DEF InfoType
<1> HIDE DEF l, L
<1>8. /\ h \in InfoType /\ h.cur = o.cur + len /\ h.prev = o.prev
      /\ h.cnt = c /\ h.tot = o.tot + calls
  <2>1. /\ h \in InfoType /\ h.cur = l.cur + len /\ h.prev = l.prev
        /\ h.cnt = l.cnt + calls /\ h.tot = l.tot + calls
    BY <1>3, <1>6, HandleInfo DEF l
  <2> QED BY <1>7, <2>1
<1> HIDE DEF H
<1>9. i \in InfoType
  BY <1>3, <1>8, SetInfo
<1>10. /\ i.cur = o.cur + len /\ i.prev = o.prev /\ i.cnt = c /\ i.tot = o.tot + calls
       /\ i.prev <= i.cur /\ i.cur - i.prev = b
  <2>1. i.cur = h.cur /\ i.prev = h.prev /\ i.cnt = h.cnt /\ i.tot = h.tot
    BY <1>8 DEF InfoType
  <2> QED BY <1>3, <1>4, <1>8, <2>1
<1> HIDE DEF i, I
<1>11. j \in InfoType /\ j.cur = o.cur + len /\ j.tot = o.tot + calls
  BY <1>9, <1>10, FinalInfo
<1>12. /\ s \in SumType
       /\ s.cur = sum.cur + b /\ s.tot = sum.tot + c /\ s.prev = sum.prev
       /\ s.threads = sum.threads /\ s.count = sum.count /\ s.maxcount = sum.maxcount
       /\ s.filter = sum.filter /\ s.freed = sum.freed
  <2>1. /\ a \in SumType
        /\ a.cur = sum.cur + b /\ a.tot = sum.tot + c /\ a.prev = sum.prev
        /\ a.threads = sum.threads /\ a.count = sum.count /\ a.maxcount = sum.maxcount
        /\ a.filter = sum.filter /\ a.freed = sum.freed
    BY <1>3, <1>9, <1>10, AddSum
  <2>2. s = Earlier(a, now)
    BY DEF i
  <2> HIDE DEF a, s
  <2> QED BY <1>3, <2>1, <2>2, EarlierSum DEF SameSum
<1>13. /\ f \in SumType /\ f.cur = fdx.cur + b
       /\ Earlier(f, now) \in SumType /\ Earlier(f, now).cur = fdx.cur + b
  <2>1. f \in SumType /\ f.cur = fdx.cur + b
    BY <1>3, <1>9, <1>10, AddSum DEF i
  <2> HIDE DEF f
  <2> QED BY <1>3, <2>1, EarlierSum DEF SameSum
<1> HIDE DEF S, F
<1>14. /\ r \in SumType
       /\ r.cur = sum.cur + b /\ r.tot = sum.tot + c /\ r.count = sum.count - 1
       /\ r.maxcount = sum.maxcount /\ r.filter = sum.filter
       /\ sum.count - 1 > 0 =>
             r.freed = sum.freed /\ r.prev = sum.prev /\ r.threads = sum.threads
       /\ sum.count - 1 <= 0 =>
             /\ r.freed
             /\ sum.maxcount > 1 \/ setup.sumOnly =>
                   /\ r.cnt = r.tot /\ r.cntBytes \in Nat
                   /\ r.iEnd >= 1 => r.cntBytes = r.cur
  BY <1>12, EndSum
<1>15. /\ info' = [info EXCEPT ![t] = j] /\ sum' = IF setup.group THEN r ELSE sum
       /\ fdx' \in SumType
       /\ setup.fullDuplex => fdx'.cur = fdx.cur + b
  <2>1. FullDuplexEnd(Earlier(f, now)) \in SumType
        /\ FullDuplexEnd(Earlier(f, now)).cur = fdx.cur + b
    BY <1>13, EndFullDuplex
  <2> QED BY <1>1, <1>3, <1>13, <2>1 DEF i
<1>16. /\ info'[t] = j /\ st'[t] = "done"
       /\ \A u \in Threads \ {t} : info'[u] = info[u] /\ st'[u] = st[u]
       /\ info' \in [Threads -> InfoType]
       /\ st' \in [Threads -> {"none", "run", "done", "lost"}]
  BY <1>2, <1>11, <1>15 DEF SumTypeOK
<1> HIDE DEF j, r
<1>17. Started' = Started /\ Running' = Running \ {t}
  BY <1>2, <1>3, <1>16 DEF Started, Running
<1>18. ~sum.freed /\ sumFinal = -1
  BY <1>3 DEF CountRight
<1>19. sum' \in SumType
  BY <1>3, <1>14, <1>15
<1>20. SumTypeOK'
  <2>1. sumFinal' \in Int
    BY <1>1, <1>18, <1>19 DEF SumType
  <2>2. fdx' \in SumType
    BY <1>15
  <2>3. ended' \in Nat
    BY <1>2 DEF SumTypeOK
  <2>4. setup' \in Setup /\ shown' = shown /\ sumShown' = sumShown
    BY <1>2 DEF SumTypeOK
  <2> QED BY <1>16, <1>19, <2>1, <2>2, <2>3, <2>4 DEF SumTypeOK
<1>21. SumComplete'
  <2>1. PassesOn(t, b, c)
    <3>1. /\ PassedBytes[t] = o.prev /\ PassedCalls[t] = o.tot - o.cnt
          /\ PassedBytes'[t] = j.cur /\ PassedCalls'[t] = j.tot - 0
      BY <1>2, <1>16 DEF PassedBytes, PassedCalls
    <3>2. j.cur = o.prev + b
      BY <1>3, <1>4, <1>11
    <3>3. j.tot - 0 = o.tot - o.cnt + c
      BY <1>3, <1>4, <1>11
    <3> HIDE DEF o, b, c
    <3> QED BY <1>3, <1>16, <1>17, <3>1, <3>2, <3>3 DEF PassesOn
  <2> HIDE DEF b, c
  <2>2. /\ Total(PassedBytes)' = Total(PassedBytes) + b
        /\ Total(PassedCalls)' = Total(PassedCalls) + c
    BY <1>5, <2>1, TotalsGrow
  <2>3. setup.group => sum'.cur = sum.cur + b /\ sum'.tot = sum.tot + c
    BY <1>14, <1>15
  <2>4. setup.fullDuplex => fdx'.cur = fdx.cur + b
    BY <1>15
  <2>5. setup.group => sum'.cur = Total(PassedBytes)' /\ sum'.tot = Total(PassedCalls)'
    BY <2>2, <2>3 DEF SumComplete, PassedBytes, PassedCalls
  <2>6. setup.fullDuplex => fdx'.cur = Total(PassedBytes)'
    BY <2>2, <2>4 DEF SumComplete, PassedBytes
  <2> QED BY <1>2, <2>5, <2>6 DEF SumComplete, PassedBytes, PassedCalls
<1>22. /\ Cardinality(Running) \in Nat /\ Cardinality(Running') = Cardinality(Running) - 1
       /\ Cardinality(Running) - 1 <= 0 => Running' = {}
  <2>1. IsFiniteSet(Running)
    BY PassedNat
  <2>2. /\ IsFiniteSet(Running \ {t}) /\ Cardinality(Running) \in Nat
        /\ Cardinality(Running \ {t}) = Cardinality(Running) - 1
    BY <1>3, <2>1, FS_RemoveElement, FS_CardinalityType
  <2>3. Cardinality(Running \ {t}) \in Nat
    BY <2>2, FS_CardinalityType
  <2>4. Cardinality(Running \ {t}) = 0 => Running \ {t} = {}
    BY <2>2, FS_EmptySet
  <2> QED BY <1>17, <2>2, <2>3, <2>4
<1>23. CountRight'
  <2>1. CASE setup.group
    <3>1. /\ sum'.count = Cardinality(Running') /\ sum' = r
          /\ sum.count = Cardinality(Running)
      BY <1>14, <1>15, <1>22, <2>1 DEF CountRight
    <3>2. sum'.freed => Running' = {}
      <4>1. sum.count \in Int
        BY <1>3 DEF SumType
      <4>2. sum.count - 1 > 0 => r.freed = sum.freed
        BY <1>14
      <4>3. sum.count - 1 > 0 => ~sum'.freed
        BY <1>18, <3>1, <4>2
      <4> QED BY <1>22, <3>1, <4>1, <4>3
    <3>3. ~sum'.freed => sumFinal' = -1
      BY <1>1, <1>18
    <3> QED BY <1>2, <2>1, <3>1, <3>2, <3>3 DEF CountRight
  <2>2. CASE ~setup.group
    BY <1>1, <1>2, <1>15, <1>18, <2>2 DEF CountRight
  <2> QED BY <2>1, <2>2
<1>24. FinalSumIsTotal'
  <2> SUFFICES ASSUME sum'.freed, sum'.maxcount > 1 \/ setup.sumOnly
               PROVE  /\ sum'.cnt = Total(AllCalls)'
                      /\ sum'.iEnd >= 1 => sum'.cntBytes = Total(AllBytes)'
                      /\ sumFinal' = -1 <=> setup.csv \/ sum'.filter
                      /\ sumFinal' # -1 /\ sum'.iEnd >= 1 => sumFinal' = Total(AllBytes)'
    BY <1>2 DEF FinalSumIsTotal, AllBytes, AllCalls
  <2>1. setup.group /\ sum' = r /\ Running' = {}
    BY <1>2, <1>15, <1>18, <1>23 DEF CountRight
  <2>2. sum.count - 1 <= 0 /\ (sum.maxcount > 1 \/ setup.sumOnly)
    <3>1. sum.count \in Int
      BY <1>3 DEF SumType
    <3> QED BY <1>14, <1>18, <2>1, <3>1
  <2>3. /\ sum'.cnt = sum'.tot /\ sum'.cntBytes \in Nat
        /\ sum'.iEnd >= 1 => sum'.cntBytes = sum'.cur
    BY <1>14, <2>1, <2>2
  <2>4. sum'.cur = Total(PassedBytes)' /\ sum'.tot = Total(PassedCalls)'
    BY <1>2, <1>21, <2>1 DEF SumComplete, PassedBytes, PassedCalls
  <2>5. /\ Total(PassedBytes)' = Total(AllBytes)'
        /\ Total(PassedCalls)' = Total(AllCalls)'
    <3>1. ASSUME NEW u \in Started'
          PROVE  /\ PassedBytes'[u] = AllBytes'[u] /\ PassedCalls'[u] = AllCalls'[u]
                 /\ AllBytes'[u] \in Nat /\ AllCalls'[u] \in Nat
      <4>1. u \in Threads /\ st'[u] = "done"
        BY <2>1 DEF Started, Running
      <4>2. info'[u].cur \in Nat /\ info'[u].tot \in Nat
        BY <1>16, <4>1 DEF InfoType
      <4>3. info'[u].tot - 0 = info'[u].tot
        BY <4>2
      <4> QED BY <4>1, <4>2, <4>3 DEF PassedBytes, PassedCalls, AllBytes, AllCalls
    <3>2. IsFiniteSet(Started')
      BY <1>17, PassedNat
    <3>3. SumFunctionOnSet(PassedBytes', Started') = SumFunctionOnSet(AllBytes', Started')
      BY <3>1, <3>2, SumSame
    <3>4. SumFunctionOnSet(PassedCalls', Started') = SumFunctionOnSet(AllCalls', Started')
      BY <3>1, <3>2, SumSame
    <3> QED BY <3>3, <3>4 DEF Total
  <2>6. sumFinal' = IF Prints(sum) THEN sum'.cntBytes ELSE -1
    BY <1>1, <1>18, <2>1, <2>2
  <2>7. Prints(sum) <=> ~(setup.csv \/ sum'.filter)
    BY <1>14, <2>1 DEF Prints, SumOutputHandler
  <2> QED BY <2>3, <2>4, <2>5, <2>6, <2>7
<1>25. NothingYet' /\ PassedOn' /\ IntervalsTile'
  BY <1>2, <1>16, <1>17 DEF NothingYet, PassedOn, IntervalsTile, Running, OutputHandler
<1>26. PaceInv'
  <2> SUFFICES ASSUME setup.group, ~sum'.freed
               PROVE  sumShown' = sum'.prev /\ ended' # 0
    BY <1>2 DEF PaceInv
  <2>1. sum.count \in Int /\ ended \in Nat
    BY <1>3 DEF SumType, SumTypeOK
  <2>2. sum' = r /\ sum.count - 1 > 0
    BY <1>14, <1>15, <2>1
  <2> QED BY <1>2, <1>14, <1>18, <2>1, <2>2 DEF PaceInv
<1> QED BY <1>20, <1>21, <1>23, <1>24, <1>25, <1>26

\* Before the first thread.
LEMMA InitialInv == ASSUME Init PROVE IntervalInv
<1>1. /\ NoInfo \in InfoType /\ InitSumReport \in SumType
      /\ InitSumReport.cur = 0 /\ InitSumReport.tot = 0 /\ InitSumReport.prev = 0
      /\ InitSumReport.threads = 0 /\ InitSumReport.count = 0 /\ ~InitSumReport.freed
  BY DEF NoInfo, InitSumReport, InfoType, SumType
<1>2. SumTypeOK
  BY <1>1, IntervalAssumption DEF Init, SumTypeOK
<1>3. Running = {} /\ Started = {}
  BY DEF Init, Running, Started
<1>4. \A f : SumFunctionOnSet(f, {}) = 0
  <2> TAKE f
  <2>1. IsFiniteSet({}) /\ Cardinality({}) = 0
    BY FS_EmptySet
  <2>2. SumFunctionOnSet(f, {}) = Cardinality(Units(f, {}))
    BY <2>1, SumIsUnits
  <2>3. Units(f, {}) = {}
    BY DEF Units
  <2> QED BY <2>1, <2>2, <2>3
<1>5. SumComplete
  BY <1>1, <1>3, <1>4 DEF SumComplete, Total, Init
<1>6. FinalSumIsTotal /\ PassedOn /\ CountRight /\ PaceInv
  BY <1>1, <1>3, FS_EmptySet DEF FinalSumIsTotal, PassedOn, CountRight, PaceInv, Init
<1>7. NothingYet /\ IntervalsTile
  BY DEF NothingYet, IntervalsTile, Init
<1> QED BY <1>2, <1>5, <1>6, <1>7 DEF IntervalInv

\* The invariant holds for any group of threads, interval and settings: what
\* reporter_process_transfer_report keeps from one packet to the next.
THEOREM IntervalInvariant == Spec => []IntervalInv
<1>1. Init => IntervalInv
  BY InitialInv
<1>2. IntervalInv /\ [Next]_vars => IntervalInv'
  <2> SUFFICES ASSUME IntervalInv, [Next]_vars PROVE IntervalInv'
    OBVIOUS
  <2>1. ASSUME NEW t \in Threads, Join(t) PROVE IntervalInv'
    BY <2>1, JoinInv
  <2>2. ASSUME NEW t \in Threads, ProcessPacket(t) PROVE IntervalInv'
    BY <2>2, PacketInv
  <2>3. ASSUME NEW t \in Threads, ProcessFinal(t) PROVE IntervalInv'
    BY <2>3, FinalInv
  <2>4. CASE UNCHANGED vars
    BY <2>4 DEF vars, IntervalInv, SumTypeOK, NothingYet, PassedOn, CountRight, PaceInv,
                SumComplete, FinalSumIsTotal, IntervalsTile, Running, Started, Total,
                OutputHandler
  <2> QED BY <2>1, <2>2, <2>3, <2>4 DEF Next
<1> QED BY <1>1, <1>2, PTL DEF Spec

\* Every byte and call of every thread is in the sum report exactly once, and
\* the final sum shows them all (reporter_transfer_protocol_sum_*).
THEOREM SumRightAlways == Spec => []SumRight
<1>1. IntervalInv => SumRight
  BY DEF IntervalInv, SumRight
<1> QED BY <1>1, IntervalInvariant, PTL

\* While no thread ends, the count of interval reports is never past the count
\* of threads, and the interval sums are what the report has passed on
\* (reporter_condprint_time_interval_report).
THEOREM SumKeepsPaceAlways == Spec => []SumKeepsPace
<1>1. IntervalInv => SumKeepsPace
  <2> SUFFICES ASSUME IntervalInv, setup.group, sum.count > 0
               PROVE  (ended = 0 => sum.threads < sum.count) /\ sumShown = sum.prev
    BY DEF SumKeepsPace
  <2>1. ~sum.freed
    BY FS_EmptySet DEF IntervalInv, CountRight
  <2> QED BY <2>1 DEF IntervalInv, PaceInv
<1> QED BY <1>1, IntervalInvariant, PTL

\* The interval lines of a thread tile the time since its start
\* (reporter_transfer_protocol_missed_reports).
THEOREM IntervalsTileAlways == Spec => []IntervalsTile
<1>1. IntervalInv => IntervalsTile
  BY DEF IntervalInv
<1> QED BY <1>1, IntervalInvariant, PTL
-----------------------------------------------------------------------------
\* What the client, the server and the network of IsochFrames hold.
Ids == 0 .. MaxClock + 2
CounterType == [slot : Nat, last : Nat, next : Nat, slip : Nat]
FrameType == [id : Nat, prev : Nat, size : Nat, left : Nat, padded : BOOLEAN,
              head : BOOLEAN, last : BOOLEAN]
StatsType == [frameID : Nat, framecnt : Nat, framelostcnt : Int, slipcnt : Nat]
DatagramType == [id : Ids, prev : Nat, head : BOOLEAN, last : BOOLEAN, fin : BOOLEAN]
HistogramType ==
    [mybins : [0..Bins - 1 -> Nat], beyond : Nat, populationcnt : Nat,
     cntloweroutofbounds : Nat, cntupperoutofbounds : Nat]

ClientTypeOK ==
    /\ clock \in 0..MaxClock /\ cpc \in {"tick", "sleep", "burst", "ended"}
    /\ counter \in CounterType /\ frame \in FrameType /\ clientStats \in StatsType
    /\ sent \subseteq Nat /\ lone \subseteq Nat
NetTypeOK == net \in Seq(DatagramType) /\ packet \in DatagramType
HistogramTypeOK ==
    /\ histogram \in HistogramType
    /\ inserted \in [1 .. MaxClock + 2 -> Nat]
ServerTypeOK ==
    /\ serverStats \in StatsType /\ matchframeID \in Nat
    /\ seen \subseteq Nat /\ begun \in Nat

\* The slots of the frame counter: it is never ahead of the clock by more than a
\* period, nor behind when a frame is sent.
SlotsRight ==
    /\ counter.slot = 0 => cpc = "tick" /\ counter.next = 0
    /\ counter.slot > 0 => 2 * (counter.slot - 1) <= counter.next
    /\ counter.next <= clock + 2
    /\ cpc \in {"tick", "burst"} => counter.next <= clock

\* Where the frame counter, the frame and the report stand to each other.
Tick ==
    /\ counter.last = counter.slot /\ frame.id = counter.slot
    /\ clientStats.frameID = frame.id
    /\ counter.slip = clientStats.slipcnt
Sleep ==
    /\ counter.last = frame.id /\ clientStats.frameID = frame.id
    /\ frame.id < counter.slot
    /\ frame.id = 0 => counter.slot = 1
    /\ counter.slip = clientStats.slipcnt + (IF counter.slot - frame.id > 1 THEN 1 ELSE 0)
Burst ==
    /\ counter.last = counter.slot /\ frame.id = counter.slot
    /\ frame.prev = clientStats.frameID /\ frame.prev < frame.id
    /\ frame.prev = 0 => frame.id = 1
    /\ counter.slip = clientStats.slipcnt + (IF frame.id - frame.prev > 1 THEN 1 ELSE 0)
    /\ frame.left > 0 /\ frame.left <= frame.size
ClientInv ==
    /\ ClientTypeOK
    /\ SlotsRight
    /\ cpc = "tick" => Tick
    /\ cpc = "sleep" => Sleep
    /\ cpc = "burst" => Burst
    /\ clientStats.frameID # 0 =>
          clientStats.framecnt - 1 + clientStats.framelostcnt = clientStats.frameID
    /\ clientStats.frameID = 0 => clientStats.framecnt = 0 /\ clientStats.framelostcnt = 0

\* The frames of which datagrams were sent, up to the present one.
SentUpTo ==
    /\ 0 \notin sent
    /\ cpc # "ended" =>
          /\ \A f \in sent : f <= frame.prev \/ f = frame.id
          /\ frame.prev < frame.id \/ (frame.id = 0 /\ sent = {})
    /\ cpc = "burst" /\ frame.left = frame.size => frame.id \notin sent
    /\ cpc = "tick" => frame.id \in lone \/ ~frame.head

\* What is true of a datagram that is in flight or was read: it names the frame
\* before its own, the final one comes when the client has ended, and the last
\* one of a frame when the frame is complete.
DatagramRight(d) ==
    /\ d.id # 0 => d.prev < d.id /\ \A f \in sent : f < d.id => f <= d.prev
    /\ d.fin => cpc = "ended"
    /\ d.id # 0 /\ ~d.fin => d.id \in sent
    /\ d.head /\ d.last /\ ~d.fin => d.id \in lone
    /\ cpc = "burst" /\ d.id = frame.id => ~d.last
DatagramsRight ==
    /\ DatagramRight(packet)
    /\ \A k \in 1 .. Len(net) : DatagramRight(net[k])

\* What the server has read, whatever the order: its last frame is that of its
\* last datagram, and it has no latency of a frame that is not complete.
ReadRight ==
    /\ lastpacket => cpc = "ended"
    /\ packet.fin => lastpacket
    /\ ~lastpacket =>
          /\ serverStats.frameID \in sent \cup {0}
          /\ \A f \in 1 .. MaxClock + 2 : inserted[f] > 0 => f \in sent
    /\ cpc = "burst" => inserted[frame.id] = 0
    /\ ready => packet.id = 0 \/ packet.id = serverStats.frameID
    /\ serverStats.frameID = 0 <=> begun = 0
    /\ begun = 0 => seen = {} /\ serverStats.framecnt = 0 /\ serverStats.framelostcnt = 0

\* Datagram e may come after d: no first datagram of a frame after its last one.
After(d, e) ==
    /\ d.id <= e.id
    /\ d.last /\ ~d.fin /\ d.id = e.id /\ d.id \notin lone => ~e.head

\* A frame whose latency was taken is not the one to match, nor does a first
\* datagram of it come again.
Taken(f) ==
    /\ matchframeID # f
    /\ packet.id = f => ~packet.head
    /\ \A k \in 1 .. Len(net) : net[k].id = f => ~net[k].head

\* As long as the datagrams keep their order.
OrderInv ==
    /\ \A k, m \in 1 .. Len(net) : k < m => After(net[k], net[m])
    /\ \A k \in 1 .. Len(net) : serverStats.frameID <= net[k].id \/ lastpacket
    /\ seen \subseteq 1 .. serverStats.frameID
    /\ serverStats.frameID # 0 => serverStats.frameID \in seen
    /\ \A f \in (1 .. MaxClock + 2) \ lone : inserted[f] > 0 /\ ~lastpacket => Taken(f)

FlowInv ==
    /\ NetTypeOK /\ ServerTypeOK /\ HistogramTypeOK
    /\ SentUpTo /\ DatagramsRight /\ ReadRight
StreamInv == FlowInv /\ (~disorder => OrderInv /\ LatencyOnce /\ ServerFrames)

\* The latencies in a histogram.
HistogramSum(h) ==
    SumFunctionOnSet(h.mybins, 0..Bins - 1) + h.beyond
    + (h.cntloweroutofbounds + h.cntupperoutofbounds)

\* Every latency taken is somewhere in the histogram.
HistogramInv ==
    /\ HistogramTypeOK /\ prev \in HistogramType
    /\ histogram.populationcnt = SumFunctionOnSet(inserted, 1 .. MaxClock + 2)
    /\ histogram.populationcnt = HistogramSum(histogram)
    /\ PrintedWhole

-----------------------------------------------------------------------------
\* The client.

\* The bounds of the model.
LEMMA IsochBounds ==
  /\ MaxClock \in Nat /\ Bins \in Nat /\ Bins > 0 /\ Sizes \subseteq Nat \ {0}
  /\ Latencies \subseteq Int /\ CiLower \in 0..100 /\ CiUpper \in 0..100
  BY IsochAssumption

\* Setting a field of the frame counter keeps its type,
LEMMA SetCounter ==
  ASSUME NEW c \in CounterType, NEW n \in Nat
  PROVE  /\ [c EXCEPT !.slot = n] \in CounterType /\ [c EXCEPT !.last = n] \in CounterType
         /\ [c EXCEPT !.next = n] \in CounterType /\ [c EXCEPT !.slip = n] \in CounterType
  BY DEF CounterType

\* and so does setting one of the frame.
LEMMA SetFrame ==
  ASSUME NEW c \in FrameType, NEW n \in Nat, NEW b \in BOOLEAN
  PROVE  /\ [c EXCEPT !.id = n] \in FrameType /\ [c EXCEPT !.prev = n] \in FrameType
         /\ [c EXCEPT !.size = n] \in FrameType /\ [c EXCEPT !.left = n] \in FrameType
         /\ [c EXCEPT !.padded = b] \in FrameType /\ [c EXCEPT !.head = b] \in FrameType
         /\ [c EXCEPT !.last = b] \in FrameType
  BY DEF FrameType

\* What HandleFrame returns for a client, which counts every slot that it skips,
LEMMA ClientCounted ==
  ASSUME NEW s \in StatsType, NEW id \in Nat, NEW p \in Nat
  PROVE  LET h == HandleFrame(s, id, p, FALSE)
         IN  /\ h \in StatsType /\ h.frameID = id
             /\ h.framecnt = (IF s.frameID = 0 THEN id ELSE s.framecnt)
                             + (IF id # s.frameID THEN 1 ELSE 0)
             /\ h.framelostcnt = s.framelostcnt +
                   (IF id - s.frameID <= 1 THEN 0 ELSE id - s.frameID - 1)
             /\ h.slipcnt = s.slipcnt + (IF id - s.frameID > 1 THEN 1 ELSE 0)
<1>1. /\ s.frameID \in Nat /\ s.framecnt \in Nat /\ s.framelostcnt \in Int /\ s.slipcnt \in Nat
  BY DEF StatsType
<1> QED BY <1>1 DEF HandleFrame, StatsType

\* and for a server, which goes by the previous frame that the datagram names.
LEMMA ServerCounted ==
  ASSUME NEW s \in StatsType, NEW id \in Nat, NEW p \in Nat
  PROVE  LET h == HandleFrame(s, id, p, TRUE)
         IN  /\ h \in StatsType /\ h.frameID = id
             /\ h.framecnt = (IF s.frameID = 0 THEN id ELSE s.framecnt)
                             + (IF id # s.frameID THEN 1 ELSE 0)
             /\ h.framelostcnt = s.framelostcnt +
                   (IF id - s.frameID <= 1 THEN 0 ELSE p - s.frameID)
<1>1. /\ s.frameID \in Nat /\ s.framecnt \in Nat /\ s.framelostcnt \in Int /\ s.slipcnt \in Nat
  BY DEF StatsType
<1> QED BY <1>1 DEF HandleFrame, StatsType

\* A new frame counter.
LEMMA ClientStarts == ASSUME IsochInit PROVE ClientInv
<1>1. ClientTypeOK
  BY IsochBounds
     DEF IsochInit, ClientTypeOK, CounterType, FrameType, StatsType, NoFrame, ZeroStats
<1> QED
  BY <1>1 DEF IsochInit, ClientInv, SlotsRight, Tick, ZeroStats, NoFrame

\* The network and the server leave the client alone.
LEMMA ClientStays ==
  ASSUME ClientInv, UNCHANGED <<clock, cpc, counter, frame, clientStats, sent, lone>>
  PROVE  ClientInv'
  BY DEF ClientInv, ClientTypeOK, SlotsRight, Tick, Sleep, Burst

\* The time passes.
LEMMA ClientPass == ASSUME ClientInv, Pass PROVE ClientInv'
<1>1. UNCHANGED <<cpc, counter, frame, clientStats, sent, lone>>
  BY DEF Pass, clientVars
<1>2. clock' \in 0..MaxClock /\ clock' = clock + 1 /\ clock \in Nat
  BY IsochBounds DEF Pass, ClientInv, ClientTypeOK
<1>3. counter \in CounterType
  BY DEF ClientInv, ClientTypeOK
<1>4. SlotsRight'
  BY <1>1, <1>2, <1>3 DEF SlotsRight, ClientInv, CounterType
<1> QED BY <1>1, <1>2, <1>4 DEF ClientInv, ClientTypeOK, Tick, Sleep, Burst

\* wait_tick goes to the next slot that is not in the past.
LEMMA ClientWaitTick == ASSUME ClientInv, WaitTick PROVE ClientInv'
<1>1. /\ cpc = "tick" /\ cpc' = "sleep" /\ UNCHANGED <<clock, frame, clientStats, sent, lone>>
      /\ clock \in 0..MaxClock /\ counter \in CounterType /\ frame \in FrameType
      /\ clientStats \in StatsType /\ Tick /\ SlotsRight
  BY DEF WaitTick, ClientInv, ClientTypeOK
<1>2. /\ counter.slot \in Nat /\ counter.next \in Nat /\ counter.slip \in Nat
      /\ counter.last \in Nat /\ clock \in Nat /\ frame.id \in Nat /\ clientStats.slipcnt \in Nat
  BY <1>1, IsochBounds DEF CounterType, FrameType, StatsType
<1>3. counter' \in CounterType /\ SlotsRight' /\ Sleep'
  <2>1. CASE counter.slot = 0
    <3>1. counter' = [counter EXCEPT !.slot = 1, !.next = clock]
      BY <2>1 DEF WaitTick
    <3>2. /\ counter'.slot = 1 /\ counter'.next = clock
          /\ counter'.slip = counter.slip /\ counter'.last = counter.last
      BY <1>1, <3>1 DEF CounterType
    <3>3. counter' \in CounterType
      BY <1>1, <1>2, <3>1, SetCounter
    <3> QED BY <1>1, <1>2, <2>1, <3>2, <3>3 DEF SlotsRight, Sleep, Tick
  <2>2. CASE counter.slot # 0
    <3> DEFINE n == (clock - counter.next) \div 2 + 1
    <3>1. /\ n \in Nat /\ n >= 1 /\ counter.next + 2 * n <= clock + 2
      BY <1>1, <1>2, <2>2 DEF SlotsRight
    <3>2. Slots = n
      BY <1>1, <1>2, <2>2 DEF Slots, SlotsRight
    <3> HIDE DEF n
    <3>3. counter' = [counter EXCEPT !.slot = @ + n, !.next = @ + 2 * n,
                                     !.slip = IF counter.slot + n - counter.last > 1
                                              THEN @ + 1 ELSE @]
      BY <2>2, <3>2 DEF WaitTick
    <3>4. /\ counter'.slot = counter.slot + n /\ counter'.next = counter.next + 2 * n
          /\ counter'.slip = IF counter.slot + n - counter.last > 1
                             THEN counter.slip + 1 ELSE counter.slip
          /\ counter'.last = counter.last
      BY <1>1, <3>3 DEF CounterType
    <3>5. /\ counter.slot + n \in Nat /\ counter.next + 2 * n \in Nat
          /\ (IF counter.slot + n - counter.last > 1 THEN counter.slip + 1 ELSE counter.slip)
                \in Nat
      BY <1>2, <3>1
    <3>6. counter' \in CounterType
      BY <1>1, <3>3, <3>5, SetCounter
    <3>7. SlotsRight'
      BY <1>1, <1>2, <2>2, <3>1, <3>4 DEF SlotsRight
    <3>8. Sleep'
      BY <1>1, <1>2, <2>2, <3>1, <3>4 DEF Sleep, Tick
    <3> QED BY <3>6, <3>7, <3>8
  <2> QED BY <2>1, <2>2
<1> QED BY <1>1, <1>3 DEF ClientInv, ClientTypeOK

\* A frame begins in its slot.
LEMMA ClientBeginFrame == ASSUME ClientInv, BeginFrame PROVE ClientInv'
<1>1. /\ cpc = "sleep" /\ cpc' = "burst" /\ UNCHANGED <<clock, clientStats, sent, lone>>
      /\ clock \in 0..MaxClock /\ counter \in CounterType /\ frame \in FrameType
      /\ clientStats \in StatsType /\ Sleep /\ SlotsRight /\ clock >= counter.next
  BY DEF BeginFrame, ClientInv, ClientTypeOK
<1>2. /\ counter.slot \in Nat /\ counter.next \in Nat /\ counter.slip \in Nat
      /\ counter.last \in Nat /\ clock \in Nat /\ frame.id \in Nat /\ clientStats.slipcnt \in Nat
  BY <1>1, IsochBounds DEF CounterType, FrameType, StatsType
<1>3. counter' = [counter EXCEPT !.last = counter.slot]
  BY DEF BeginFrame
<1>4. /\ counter'.slot = counter.slot /\ counter'.next = counter.next
      /\ counter'.slip = counter.slip /\ counter'.last = counter.slot
      /\ counter' \in CounterType
  BY <1>1, <1>2, <1>3 DEF CounterType
<1>5. PICK n \in Sizes, padded \in BOOLEAN :
         frame' = [frame EXCEPT !.id = counter.slot, !.prev = frame.id,
                                !.size = n, !.left = n, !.padded = padded]
  BY DEF BeginFrame
<1>6. n \in Nat /\ n > 0
  BY IsochBounds
<1>7. frame' \in FrameType
  BY <1>1, <1>2, <1>5, <1>6, SetFrame
<1>8. frame'.id = counter.slot /\ frame'.prev = frame.id /\ frame'.left = n /\ frame'.size = n
  BY <1>1, <1>5 DEF FrameType
<1>9. SlotsRight'
  BY <1>1, <1>2, <1>4 DEF SlotsRight
<1>10. Burst'
  BY <1>1, <1>2, <1>4, <1>6, <1>8 DEF Burst, Sleep
<1> QED BY <1>1, <1>4, <1>7, <1>9, <1>10 DEF ClientInv, ClientTypeOK

\* A datagram of the frame; with the last one the frame is counted.
LEMMA ClientSend == ASSUME ClientInv, SendDatagram PROVE ClientInv'
<1> DEFINE last == frame.left = 1
           head == frame.left = frame.size \/ (last /\ frame.padded)
           h == HandleFrame(clientStats, frame.id, frame.prev, FALSE)
<1>1. /\ cpc = "burst" /\ cpc' = (IF last THEN "tick" ELSE "burst") /\ UNCHANGED <<clock, counter>>
      /\ sent' = sent \cup {frame.id} /\ lone' \in {lone, lone \cup {frame.id}}
      /\ clock \in 0..MaxClock /\ counter \in CounterType /\ frame \in FrameType
      /\ clientStats \in StatsType /\ Burst /\ SlotsRight
      /\ frame' = [frame EXCEPT !.left = @ - 1, !.head = head, !.last = last]
      /\ clientStats' = IF last THEN h ELSE clientStats
  BY DEF SendDatagram, ClientInv, ClientTypeOK
<1>2. /\ counter.slot \in Nat /\ counter.slip \in Nat
      /\ counter.last \in Nat /\ frame.id \in Nat /\ frame.left \in Nat /\ frame.prev \in Nat
      /\ frame.size \in Nat
      /\ clientStats.slipcnt \in Nat /\ clientStats.framecnt \in Nat
      /\ clientStats.framelostcnt \in Int
  BY <1>1 DEF CounterType, FrameType, StatsType
<1>3. frame' \in FrameType
  <2>1. frame.left - 1 \in Nat /\ head \in BOOLEAN /\ last \in BOOLEAN
    BY <1>1, <1>2 DEF Burst, FrameType
  <2> HIDE DEF head, last
  <2> QED BY <1>1, <2>1, SetFrame
<1>4. /\ frame'.id = frame.id /\ frame'.prev = frame.prev /\ frame'.left = frame.left - 1
      /\ frame'.size = frame.size
  BY <1>1 DEF FrameType
<1>5. /\ h \in StatsType /\ h.frameID = frame.id
      /\ h.framecnt = (IF clientStats.frameID = 0 THEN frame.id ELSE clientStats.framecnt)
                      + (IF frame.id # clientStats.frameID THEN 1 ELSE 0)
      /\ h.framelostcnt = clientStats.framelostcnt +
            (IF frame.id - clientStats.frameID <= 1 THEN 0
             ELSE frame.id - clientStats.frameID - 1)
      /\ h.slipcnt = clientStats.slipcnt + (IF frame.id - clientStats.frameID > 1 THEN 1 ELSE 0)
  <2>1. clientStats \in StatsType /\ frame.id \in Nat /\ frame.prev \in Nat
    BY <1>1, <1>2
  <2> QED BY <2>1, ClientCounted, Zenon
<1> HIDE DEF h
<1>6. ClientTypeOK'
  BY <1>1, <1>2, <1>3, <1>5 DEF ClientInv, ClientTypeOK
<1>7. SlotsRight'
  BY <1>1, <1>2 DEF SlotsRight, Burst
<1>8. (cpc' = "tick" => Tick') /\ (cpc' = "burst" => Burst') /\ cpc' # "sleep"
  BY <1>1, <1>2, <1>4, <1>5 DEF Burst, Tick
<1>9. /\ clientStats'.frameID # 0 =>
            clientStats'.framecnt - 1 + clientStats'.framelostcnt = clientStats'.frameID
      /\ clientStats'.frameID = 0 =>
            clientStats'.framecnt = 0 /\ clientStats'.framelostcnt = 0
  <2>1. CASE last
    <3>1. clientStats' = h /\ clientStats.frameID < frame.id /\ clientStats.frameID \in Nat
          /\ (clientStats.frameID = 0 => frame.id = 1)
      BY <1>1, <1>2, <2>1 DEF Burst
    <3>2. /\ clientStats.frameID # 0 =>
                clientStats.framecnt - 1 + clientStats.framelostcnt = clientStats.frameID
          /\ clientStats.frameID = 0 => clientStats.framecnt = 0 /\ clientStats.framelostcnt = 0
      BY DEF ClientInv
    <3>3. /\ h.framecnt = (IF clientStats.frameID = 0 THEN 2 ELSE clientStats.framecnt + 1)
          /\ h.framelostcnt = clientStats.framelostcnt + (frame.id - clientStats.frameID - 1)
      BY <1>2, <1>5, <3>1
    <3>4. h.frameID = frame.id
      BY <1>5
    <3>5. h.framecnt - 1 + h.framelostcnt = frame.id /\ frame.id # 0
      <4>1. CASE clientStats.frameID = 0
        <5>1. frame.id = 1 /\ clientStats.framelostcnt = 0
          BY <3>1, <3>2, <4>1
        <5>2. h.framecnt = 2 /\ h.framelostcnt = 0
          BY <3>3, <4>1, <5>1
        <5> QED BY <5>1, <5>2
      <4>2. CASE clientStats.frameID # 0
        BY <1>2, <3>1, <3>2, <3>3, <4>2
      <4> QED BY <4>1, <4>2
    <3> QED BY <3>1, <3>4, <3>5
  <2>2. CASE ~last
    BY <1>1, <2>2 DEF ClientInv
  <2> QED BY <2>1, <2>2
<1> QED BY <1>6, <1>7, <1>8, <1>9 DEF ClientInv

\* The invariant of the client.
LEMMA ClientStep == ASSUME ClientInv, [IsochNext]_isochVars PROVE ClientInv'
<1>1. CASE Stop
  BY <1>1 DEF Stop, ClientInv, ClientTypeOK, SlotsRight, Tick, Sleep, Burst
<1>2. CASE Lose \/ Duplicate \/ Overtake
  BY <1>2, ClientStays DEF Lose, Duplicate, Overtake, clientVars
<1>3. CASE ReceiveFirst \/ ReceiveDatagram \/ EmptyReport \/ Report
  BY <1>3, ClientStays DEF ReceiveFirst, ReceiveDatagram, EmptyReport, Report, clientVars
<1>4. CASE UNCHANGED isochVars
  BY <1>4, ClientStays DEF isochVars, clientVars
<1> QED BY <1>1, <1>2, <1>3, <1>4, ClientPass, ClientWaitTick, ClientBeginFrame, ClientSend
        DEF IsochNext

\* The client's counter and counts, for any sizes of frames, any length of the
\* test and any network: ClientFrames.
THEOREM ClientFramesAlways == IsochSpec => []ClientFrames
<1>1. ClientInv => ClientFrames
  <2> SUFFICES ASSUME ClientInv PROVE ClientFrames
    OBVIOUS
  <2>1. /\ counter \in CounterType /\ frame \in FrameType /\ clock \in Nat
    BY IsochBounds DEF ClientInv, ClientTypeOK
  <2>2. cpc = "burst" => /\ frame.prev < frame.id
                         /\ 2 * (frame.id - 1) <= clock
                         /\ counter.next <= clock
    BY <2>1 DEF ClientInv, SlotsRight, Burst, CounterType, FrameType
  <2> QED BY <2>2 DEF ClientInv, Tick, ClientFrames
<1> QED BY <1>1, ClientStarts, ClientStep, PTL DEF IsochSpec

-----------------------------------------------------------------------------
\* The datagrams, in whatever order.

\* The header is on its way.
LEMMA FlowStarts == ASSUME IsochInit PROVE FlowInv
<1>1. NoDatagram \in DatagramType
  BY IsochBounds DEF NoDatagram, DatagramType, Ids
<1>2. NetTypeOK
  BY <1>1 DEF IsochInit, NetTypeOK
<1>3. ServerTypeOK /\ HistogramTypeOK
  BY IsochBounds DEF IsochInit, ServerTypeOK, HistogramTypeOK, StatsType, ZeroStats,
                     HistogramInit, HistogramType
<1>4. SentUpTo /\ ReadRight
  BY DEF IsochInit, SentUpTo, ReadRight, NoFrame, ZeroStats, NoDatagram
<1>5. DatagramsRight
  BY <1>1 DEF IsochInit, DatagramsRight, DatagramRight, NoDatagram
<1> QED BY <1>2, <1>3, <1>4, <1>5 DEF FlowInv

\* A step of the network, or one that takes a datagram out of it.
LEMMA FlowStays ==
  ASSUME FlowInv, net' \in Seq(DatagramType),
         \A k \in 1 .. Len(net') : \E m \in 1 .. Len(net) : net'[k] = net[m],
         histogram' \in HistogramType,
         UNCHANGED <<cpc, frame, sent, lone, lastpacket, ready, packet, serverStats,
                     matchframeID, seen, begun, inserted>>
  PROVE  FlowInv'
<1>1. NetTypeOK' /\ ServerTypeOK' /\ HistogramTypeOK' /\ SentUpTo' /\ ReadRight'
  BY DEF FlowInv, NetTypeOK, ServerTypeOK, HistogramTypeOK, SentUpTo, ReadRight
<1>2. \A d : DatagramRight(d) => DatagramRight(d)'
  BY DEF DatagramRight
<1>3. DatagramRight(packet)'
  BY DEF FlowInv, DatagramsRight, DatagramRight
<1>4. ASSUME NEW k \in 1 .. Len(net') PROVE DatagramRight(net[k])'
  <2>1. PICK m \in 1 .. Len(net) : net'[k] = net[m]
    OBVIOUS
  <2>2. DatagramRight(net[m])
    BY <2>1 DEF FlowInv, DatagramsRight
  <2> QED BY <2>1, <2>2 DEF DatagramRight
<1> QED BY <1>1, <1>3, <1>4 DEF FlowInv, DatagramsRight

\* The datagrams have their types.
LEMMA InFlight ==
  ASSUME FlowInv
  PROVE  /\ packet \in DatagramType /\ \A k \in 1 .. Len(net) : net[k] \in DatagramType
         /\ \A d \in DatagramType : d.id \in Nat /\ d.prev \in Nat /\ d.id <= MaxClock + 2
<1>1. packet \in DatagramType /\ \A k \in 1 .. Len(net) : net[k] \in DatagramType
  BY DEF FlowInv, NetTypeOK
<1>2. \A d \in DatagramType : d.id \in Nat /\ d.prev \in Nat /\ d.id <= MaxClock + 2
  BY IsochBounds DEF DatagramType, Ids
<1> QED BY <1>1, <1>2

\* wait_tick.
LEMMA FlowWaitTick == ASSUME FlowInv, WaitTick PROVE FlowInv'
<1>1. /\ cpc = "tick" /\ cpc' = "sleep"
      /\ UNCHANGED <<frame, sent, lone, net, lastpacket, ready, packet, serverStats,
                     matchframeID, histogram, seen, begun, inserted>>
  BY DEF WaitTick, serverVars
<1>2. NetTypeOK' /\ ServerTypeOK' /\ HistogramTypeOK'
  BY <1>1 DEF FlowInv, NetTypeOK, ServerTypeOK, HistogramTypeOK
<1>3. SentUpTo'
  BY <1>1 DEF FlowInv, SentUpTo
<1>4. ReadRight'
  BY <1>1 DEF FlowInv, ReadRight
<1>5. DatagramsRight'
  BY <1>1 DEF FlowInv, DatagramsRight, DatagramRight
<1> QED BY <1>2, <1>3, <1>4, <1>5 DEF FlowInv

\* As long as the client sends, nothing of a frame after the present one is known.
LEMMA SentSoFar ==
  ASSUME FlowInv, ClientInv, cpc # "ended"
  PROVE  /\ ~lastpacket
         /\ \A f \in sent : f \in Nat /\ f > 0 /\ f <= frame.id
         /\ \A k \in 1 .. Len(net) : ~net[k].fin /\ net[k].id <= frame.id
         /\ packet.id <= frame.id /\ ~packet.fin
         /\ serverStats.frameID <= frame.id
         /\ frame.id \in Nat /\ counter.slot \in Nat /\ frame.prev \in Nat
<1>1. frame.id \in Nat /\ frame.prev \in Nat /\ counter.slot \in Nat
  BY DEF ClientInv, ClientTypeOK, FrameType, CounterType
<1>2. \A f \in sent : f \in Nat /\ f > 0 /\ f <= frame.id
  BY <1>1 DEF FlowInv, SentUpTo, ClientInv, ClientTypeOK
<1>3. ~lastpacket
  BY DEF FlowInv, ReadRight
<1>4. \A d \in DatagramType : DatagramRight(d) => ~d.fin /\ d.id <= frame.id
  BY <1>1, <1>2 DEF DatagramRight, DatagramType, Ids
<1>5. packet \in DatagramType /\ \A k \in 1 .. Len(net) : net[k] \in DatagramType
  BY DEF FlowInv, NetTypeOK
<1>6. serverStats.frameID <= frame.id
  BY <1>1, <1>2, <1>3 DEF FlowInv, ReadRight
<1> QED BY <1>1, <1>2, <1>3, <1>4, <1>5, <1>6 DEF FlowInv, DatagramsRight

\* A frame begins of which nothing was sent.
LEMMA FlowBeginFrame == ASSUME FlowInv, ClientInv, BeginFrame PROVE FlowInv'
<1>1. /\ cpc = "sleep" /\ cpc' = "burst" /\ frame \in FrameType
      /\ UNCHANGED <<sent, lone, net, lastpacket, ready, packet, serverStats,
                     matchframeID, histogram, seen, begun, inserted>>
  BY DEF BeginFrame, serverVars, ClientInv, ClientTypeOK
<1>2. frame'.id = counter.slot /\ frame'.prev = frame.id
  BY <1>1 DEF BeginFrame, FrameType
<1>3. frame.id < counter.slot /\ counter.slot - 1 <= MaxClock + 1
  BY <1>1, IsochBounds DEF ClientInv, Sleep, SlotsRight, ClientTypeOK, CounterType
<1>4. NetTypeOK' /\ ServerTypeOK' /\ HistogramTypeOK'
  BY <1>1 DEF FlowInv, NetTypeOK, ServerTypeOK, HistogramTypeOK
<1>5. SentUpTo'
  BY <1>1, <1>2, <1>3, SentSoFar DEF FlowInv, SentUpTo
<1>6. ReadRight'
  <2>1. counter.slot \notin sent /\ counter.slot \in 1 .. MaxClock + 2
    BY <1>1, <1>3, IsochBounds, SentSoFar
  <2>2. inserted[counter.slot] \in Nat /\ ~(inserted[counter.slot] > 0)
    BY <1>1, <2>1, SentSoFar DEF FlowInv, ReadRight, HistogramTypeOK
  <2>3. inserted[counter.slot] = 0
    BY <2>2
  <2> QED BY <1>1, <1>2, <2>3 DEF FlowInv, ReadRight
<1>7. DatagramsRight'
  <2>1. packet.id # counter.slot /\ \A k \in 1 .. Len(net) : net[k].id # counter.slot
    <3>1. packet.id \in Nat /\ \A k \in 1 .. Len(net) : net[k].id \in Nat
      BY InFlight
    <3> QED BY <1>1, <1>3, <3>1, SentSoFar
  <2> QED BY <1>1, <1>2, <2>1 DEF FlowInv, DatagramsRight, DatagramRight
<1> QED BY <1>4, <1>5, <1>6, <1>7 DEF FlowInv

\* A datagram of the present frame is sent.
LEMMA FlowSend == ASSUME FlowInv, ClientInv, SendDatagram PROVE FlowInv'
<1> DEFINE last == frame.left = 1
           head == frame.left = frame.size \/ (last /\ frame.padded)
<1>1. /\ cpc = "burst" /\ cpc' = (IF last THEN "tick" ELSE "burst") /\ frame \in FrameType
      /\ net' = Append(net, [id |-> frame.id, prev |-> frame.prev,
                              head |-> head, last |-> last, fin |-> FALSE])
      /\ sent' = sent \cup {frame.id}
      /\ lone' = IF head /\ last THEN lone \cup {frame.id} ELSE lone
      /\ frame' = [frame EXCEPT !.left = @ - 1, !.head = head, !.last = last]
      /\ UNCHANGED <<lastpacket, ready, packet, serverStats,
                     matchframeID, histogram, seen, begun, inserted>>
  BY DEF SendDatagram, serverVars, ClientInv, ClientTypeOK
<1>2. /\ frame'.id = frame.id /\ frame'.prev = frame.prev /\ frame'.left = frame.left - 1
      /\ frame'.size = frame.size /\ frame'.head = head
      /\ frame.id \in Nat /\ frame.prev \in Nat /\ frame.left \in Nat /\ frame.size \in Nat
  BY <1>1 DEF FrameType
<1>3. Burst /\ SlotsRight /\ counter \in CounterType /\ clock \in 0..MaxClock
  BY <1>1 DEF ClientInv, ClientTypeOK
<1>4. /\ frame.id > 0 /\ frame.id \in Ids /\ frame.prev < frame.id /\ frame.left - 1 # frame.size
  BY <1>2, <1>3, IsochBounds DEF Burst, SlotsRight, CounterType, Ids
<1>5. PICK e \in DatagramType :
         /\ net' = Append(net, e) /\ e.id = frame.id /\ e.prev = frame.prev /\ ~e.fin
         /\ e.head = head /\ e.last = last
  <2> DEFINE x == [id |-> frame.id, prev |-> frame.prev,
                   head |-> head, last |-> last, fin |-> FALSE]
  <2>1. x \in DatagramType
    BY <1>1, <1>2, <1>4 DEF DatagramType, FrameType
  <2>2. x.id = frame.id /\ x.prev = frame.prev /\ ~x.fin /\ x.head = head /\ x.last = last
    OBVIOUS
  <2> QED BY <1>1, <2>1, <2>2
<1> HIDE DEF head, last
<1>6. NetTypeOK' /\ ServerTypeOK' /\ HistogramTypeOK'
  BY <1>1, <1>5 DEF FlowInv, NetTypeOK, ServerTypeOK, HistogramTypeOK
<1>7. SentUpTo'
  BY <1>1, <1>2, <1>4 DEF FlowInv, SentUpTo
<1>8. ReadRight'
  BY <1>1, <1>2 DEF FlowInv, ReadRight
<1>9. \A d \in DatagramType : d.id <= frame.id /\ DatagramRight(d) => DatagramRight(d)'
  <2> SUFFICES ASSUME NEW d \in DatagramType, d.id <= frame.id, DatagramRight(d)
               PROVE  DatagramRight(d)'
    OBVIOUS
  <2>1. d.id \in Nat /\ d.prev \in Nat
    BY InFlight
  <2>2. d.id # 0 => \A f \in sent' : f < d.id => f <= d.prev
    BY <1>1, <1>2, <2>1 DEF DatagramRight
  <2> QED BY <1>1, <1>2, <2>1, <2>2 DEF DatagramRight
<1>10. DatagramRight(e)'
  <2>1. \A f \in sent' : f < e.id => f <= e.prev
    BY <1>1, <1>2, <1>5 DEF FlowInv, SentUpTo
  <2>2. e.id \in sent' /\ (e.head /\ e.last => e.id \in lone')
    BY <1>1, <1>5
  <2>3. cpc' = "burst" => ~e.last
    BY <1>1, <1>5
  <2> QED BY <1>4, <1>5, <2>1, <2>2, <2>3 DEF DatagramRight
<1>11. DatagramsRight'
  <2>1. DatagramRight(packet)'
    <3>1. packet \in DatagramType /\ packet.id <= frame.id /\ DatagramRight(packet)
      BY <1>1, InFlight, SentSoFar DEF FlowInv, DatagramsRight
    <3> QED BY <1>1, <1>9, <3>1 DEF DatagramRight
  <2>2. ASSUME NEW k \in 1 .. Len(net') PROVE DatagramRight(net[k])'
    <3>1. CASE k \in 1 .. Len(net)
      <4>1. net'[k] = net[k] /\ net[k] \in DatagramType /\ net[k].id <= frame.id
        BY <1>1, <1>5, <3>1, InFlight, SentSoFar DEF FlowInv, NetTypeOK
      <4>2. DatagramRight(net[k])
        BY <3>1 DEF FlowInv, DatagramsRight
      <4> QED BY <1>9, <4>1, <4>2 DEF DatagramRight
    <3>2. CASE k = Len(net) + 1
      <4>1. net'[k] = e
        BY <1>5, <3>2 DEF FlowInv, NetTypeOK
      <4> QED BY <1>10, <4>1 DEF DatagramRight
    <3> QED BY <1>5, <3>1, <3>2 DEF FlowInv, NetTypeOK
  <2> QED BY <2>1, <2>2 DEF DatagramsRight
<1> QED BY <1>6, <1>7, <1>8, <1>11 DEF FlowInv

\* The final datagram.
LEMMA FlowStop == ASSUME FlowInv, ClientInv, Stop PROVE FlowInv'
<1>1. /\ cpc # "ended" /\ cpc' = "ended" /\ counter.slot > 0
      /\ UNCHANGED <<frame, sent, lone, lastpacket, ready, packet, serverStats,
                     matchframeID, histogram, seen, begun, inserted>>
  BY DEF Stop, serverVars
<1>2. PICK head \in BOOLEAN, last \in BOOLEAN :
         net' = Append(net, [id |-> IF cpc = "sleep" THEN counter.slot ELSE frame.id,
                             prev |-> IF cpc = "sleep" THEN frame.id ELSE frame.prev,
                             head |-> head, last |-> last, fin |-> TRUE])
  BY DEF Stop
<1>3. /\ frame.id \in Nat /\ frame.prev \in Nat /\ counter.slot \in Ids
      /\ cpc \in {"tick", "burst"} => frame.id = counter.slot
      /\ cpc = "sleep" => frame.id < counter.slot
      /\ cpc \in {"tick", "sleep", "burst"}
  <2>1. frame \in FrameType /\ counter \in CounterType /\ clock \in 0..MaxClock /\ SlotsRight
    BY DEF ClientInv, ClientTypeOK
  <2>2. counter.slot \in Ids
    BY <1>1, <2>1, IsochBounds DEF SlotsRight, CounterType, Ids
  <2>3. /\ cpc \in {"tick", "burst"} => frame.id = counter.slot
        /\ cpc = "sleep" => frame.id < counter.slot
        /\ cpc \in {"tick", "sleep", "burst"}
    BY <1>1 DEF ClientInv, ClientTypeOK, Tick, Burst, Sleep
  <2> QED BY <2>1, <2>2, <2>3 DEF FrameType
<1>4. PICK e \in DatagramType :
         /\ net' = Append(net, e) /\ e.id = counter.slot /\ e.fin
         /\ e.prev = IF cpc = "sleep" THEN frame.id ELSE frame.prev
  <2> DEFINE x == [id |-> IF cpc = "sleep" THEN counter.slot ELSE frame.id,
                   prev |-> IF cpc = "sleep" THEN frame.id ELSE frame.prev,
                   head |-> head, last |-> last, fin |-> TRUE]
  <2>1. x.id = counter.slot /\ x.fin /\ x.prev = IF cpc = "sleep" THEN frame.id ELSE frame.prev
    BY <1>3
  <2>2. x \in DatagramType
    BY <1>3 DEF DatagramType
  <2> QED BY <1>2, <2>1, <2>2
<1>5. NetTypeOK' /\ ServerTypeOK' /\ HistogramTypeOK'
  BY <1>1, <1>4 DEF FlowInv, NetTypeOK, ServerTypeOK, HistogramTypeOK
<1>6. SentUpTo' /\ ReadRight'
  BY <1>1 DEF FlowInv, SentUpTo, ReadRight
<1>7. \A d : DatagramRight(d) => DatagramRight(d)'
  BY <1>1 DEF DatagramRight
<1>8. DatagramRight(e)'
  <2>1. e.prev < e.id /\ \A f \in sent : f < e.id => f <= e.prev
    BY <1>1, <1>3, <1>4, SentSoFar DEF FlowInv, SentUpTo
  <2> QED BY <1>1, <1>4, <2>1 DEF DatagramRight
<1>9. DatagramsRight'
  <2>1. DatagramRight(packet)'
    BY <1>1 DEF FlowInv, DatagramsRight, DatagramRight
  <2>2. ASSUME NEW k \in 1 .. Len(net') PROVE DatagramRight(net[k])'
    <3>1. CASE k \in 1 .. Len(net)
      <4>1. net'[k] = net[k]
        BY <1>4, <3>1 DEF FlowInv, NetTypeOK
      <4>2. DatagramRight(net[k])
        BY <3>1 DEF FlowInv, DatagramsRight
      <4> QED BY <1>7, <4>1, <4>2 DEF DatagramRight
    <3>2. CASE k = Len(net) + 1
      <4>1. net'[k] = e
        BY <1>4, <3>2 DEF FlowInv, NetTypeOK
      <4> QED BY <1>8, <4>1 DEF DatagramRight
    <3> QED BY <1>4, <3>1, <3>2 DEF FlowInv, NetTypeOK
  <2> QED BY <2>1, <2>2 DEF DatagramsRight
<1> QED BY <1>5, <1>6, <1>9 DEF FlowInv

\* What HandleIsochronous does with a datagram d: nothing, or it is counted.
Skipped(d) ==
    /\ d.id = 0 \/ ~ready'
    /\ UNCHANGED <<serverStats, matchframeID, histogram, inserted, seen, begun>>
Counted(d, arrived) ==
    /\ d.id # 0 /\ ready'
    /\ serverStats' = HandleFrame(serverStats, d.id, d.prev, TRUE)
    /\ matchframeID' = MatchNext(matchframeID, d, arrived)
    /\ IF arrived /\ LatencyDue(matchframeID, d)
       THEN /\ \E bin \in Latencies : histogram' = HistogramInsert(histogram, bin)
            /\ inserted' = [inserted EXCEPT ![d.id] = @ + 1]
       ELSE UNCHANGED <<histogram, inserted>>
    /\ seen' = seen \cup {d.id}
    /\ begun' = IF begun = 0 THEN d.id ELSE begun

\* A value inserted is counted once, wherever it falls.
LEMMA HistogramInserted ==
  ASSUME NEW h \in HistogramType, NEW bin \in Int
  PROVE  /\ HistogramInsert(h, bin) \in HistogramType
         /\ HistogramInsert(h, bin).populationcnt = h.populationcnt + 1
         /\ HistogramSum(HistogramInsert(h, bin)) = HistogramSum(h) + 1
<1> DEFINE c == [h EXCEPT !.populationcnt = @ + 1]
           S == 0..Bins - 1
<1>1. /\ h.mybins \in [S -> Nat] /\ h.beyond \in Nat /\ h.populationcnt \in Nat
      /\ h.cntloweroutofbounds \in Nat /\ h.cntupperoutofbounds \in Nat
  BY DEF HistogramType
<1>2. /\ c \in HistogramType /\ c.mybins = h.mybins /\ c.beyond = h.beyond
      /\ c.populationcnt = h.populationcnt + 1
      /\ c.cntloweroutofbounds = h.cntloweroutofbounds
      /\ c.cntupperoutofbounds = h.cntupperoutofbounds
  BY <1>1 DEF HistogramType
<1>3. /\ IsFiniteSet(S) /\ \A b \in S : h.mybins[b] \in Nat
      /\ SumFunctionOnSet(h.mybins, S) \in Nat
  <2>1. Bins - 1 \in Int /\ 0 \in Int
    BY IsochBounds
  <2>2. IsFiniteSet(S)
    BY <2>1, FS_Interval
  <2> HIDE DEF S
  <2>3. \A b \in S : h.mybins[b] \in Nat
    BY <1>1
  <2> QED BY <2>2, <2>3, SumSplit
<1>8. /\ bin \in S <=> bin >= 0 /\ bin < Bins
      /\ \A q : HistogramSum(q) = SumFunctionOnSet(q.mybins, S) + q.beyond
                                 + (q.cntloweroutofbounds + q.cntupperoutofbounds)
  BY IsochBounds DEF HistogramSum
<1>9. 0..Bins - 1 = S
  OBVIOUS
<1> HIDE DEF c, S
<1>4. CASE bin < 0
  <2> DEFINE r == [c EXCEPT !.cntloweroutofbounds = @ + 1]
  <2>1. HistogramInsert(h, bin) = r
    BY <1>4 DEF HistogramInsert, c
  <2>2. /\ r \in HistogramType /\ r.mybins = c.mybins /\ r.beyond = c.beyond
        /\ r.populationcnt = c.populationcnt
        /\ r.cntloweroutofbounds = c.cntloweroutofbounds + 1
        /\ r.cntupperoutofbounds = c.cntupperoutofbounds
    BY <1>1, <1>2 DEF HistogramType
  <2> HIDE DEF r
  <2> QED BY <1>1, <1>2, <1>3, <1>8, <2>1, <2>2
<1>5. CASE bin > Bins
  <2> DEFINE r == [c EXCEPT !.cntupperoutofbounds = @ + 1]
  <2>1. HistogramInsert(h, bin) = r
    BY <1>5, IsochBounds DEF HistogramInsert, c
  <2>2. /\ r \in HistogramType /\ r.mybins = c.mybins /\ r.beyond = c.beyond
        /\ r.populationcnt = c.populationcnt
        /\ r.cntupperoutofbounds = c.cntupperoutofbounds + 1
        /\ r.cntloweroutofbounds = c.cntloweroutofbounds
    BY <1>1, <1>2 DEF HistogramType
  <2> HIDE DEF r
  <2> QED BY <1>1, <1>2, <1>3, <1>8, <2>1, <2>2
<1>6. CASE bin = Bins
  <2> DEFINE r == [c EXCEPT !.beyond = @ + 1]
  <2>1. HistogramInsert(h, bin) = r
    BY <1>6, IsochBounds DEF HistogramInsert, c
  <2>2. /\ r \in HistogramType /\ r.mybins = c.mybins /\ r.beyond = c.beyond + 1
        /\ r.populationcnt = c.populationcnt
        /\ r.cntupperoutofbounds = c.cntupperoutofbounds
        /\ r.cntloweroutofbounds = c.cntloweroutofbounds
    BY <1>1, <1>2 DEF HistogramType
  <2> HIDE DEF r
  <2> QED BY <1>1, <1>2, <1>3, <1>8, <2>1, <2>2
<1>7. CASE bin \in S
  <2> DEFINE r == [c EXCEPT !.mybins[bin] = @ + 1]
             g == [h.mybins EXCEPT ![bin] = @ + 1]
  <2>1. HistogramInsert(h, bin) = r
    BY <1>7, <1>8, IsochBounds DEF HistogramInsert, c
  <2>2. /\ g \in [S -> Nat] /\ g[bin] = h.mybins[bin] + 1
        /\ \A b \in S \ {bin} : g[b] = h.mybins[b]
    BY <1>1, <1>7
  <2>3. r = [c EXCEPT !.mybins = g]
    BY <1>2
  <2>4. /\ r \in HistogramType /\ r.mybins = g /\ r.beyond = c.beyond
        /\ r.populationcnt = c.populationcnt
        /\ r.cntupperoutofbounds = c.cntupperoutofbounds
        /\ r.cntloweroutofbounds = c.cntloweroutofbounds
    <3> HIDE DEF g, r
    <3> QED BY <1>1, <1>2, <1>9, <2>2, <2>3 DEF HistogramType
  <2>6. SumFunctionOnSet(g, S) = SumFunctionOnSet(h.mybins, S) + 1
    BY <1>1, <1>3, <1>7, SumCount
  <2> HIDE DEF r, g
  <2> QED BY <1>1, <1>2, <1>3, <1>8, <2>1, <2>4, <2>6
<1> QED BY <1>4, <1>5, <1>6, <1>7, <1>8, IsochBounds

\* The slot of a frame is within the time of the test.
LEMMA OpenFrame == ASSUME ClientInv, cpc = "burst" PROVE frame.id \in 1 .. MaxClock + 2
<1>1. Burst /\ SlotsRight /\ counter \in CounterType /\ clock \in 0..MaxClock
      /\ frame \in FrameType
  BY DEF ClientInv, ClientTypeOK
<1> QED BY <1>1, IsochBounds DEF Burst, SlotsRight, CounterType, FrameType

\* A datagram read, or the report without one.
LEMMA FlowHandled ==
  ASSUME FlowInv, ClientInv, NEW d \in DatagramType, DatagramRight(d), NEW arrived,
         ~lastpacket, lastpacket' <=> d.fin, packet' = d, net' \in Seq(DatagramType),
         \A k \in 1 .. Len(net') : \E m \in 1 .. Len(net) : net'[k] = net[m],
         UNCHANGED <<cpc, frame, sent, lone>>, Skipped(d) \/ Counted(d, arrived)
  PROVE  FlowInv'
<1>1. d.id \in Nat /\ d.prev \in Nat /\ (d.id # 0 => d.id \in 1 .. MaxClock + 2)
  BY IsochBounds, InFlight
<1>2. SentUpTo'
  BY DEF FlowInv, SentUpTo
<1>3. NetTypeOK'
  BY DEF FlowInv, NetTypeOK
<1>4. DatagramsRight'
  <2>1. DatagramRight(packet)'
    BY DEF DatagramRight
  <2>2. ASSUME NEW k \in 1 .. Len(net') PROVE DatagramRight(net[k])'
    <3>1. PICK m \in 1 .. Len(net) : net'[k] = net[m]
      OBVIOUS
    <3>2. DatagramRight(net[m])
      BY <3>1 DEF FlowInv, DatagramsRight
    <3> QED BY <3>1, <3>2 DEF DatagramRight
  <2> QED BY <2>1, <2>2 DEF DatagramsRight
<1>5. CASE Skipped(d)
  <2>1. ServerTypeOK' /\ HistogramTypeOK'
    BY <1>5 DEF Skipped, FlowInv, ServerTypeOK, HistogramTypeOK
  <2>2. ReadRight'
    BY <1>5 DEF Skipped, FlowInv, ReadRight, DatagramRight
  <2> QED BY <1>2, <1>3, <1>4, <2>1, <2>2 DEF FlowInv
<1>6. CASE Counted(d, arrived)
  <2>1. /\ serverStats' \in StatsType /\ serverStats'.frameID = d.id /\ d.id # 0
        /\ matchframeID \in Nat /\ seen \subseteq Nat /\ begun \in Nat
    <3>1. serverStats \in StatsType /\ matchframeID \in Nat /\ seen \subseteq Nat /\ begun \in Nat
      BY DEF FlowInv, ServerTypeOK
    <3>2. /\ HandleFrame(serverStats, d.id, d.prev, TRUE) \in StatsType
          /\ HandleFrame(serverStats, d.id, d.prev, TRUE).frameID = d.id
      <4>1. d.id \in Nat /\ d.prev \in Nat
        BY <1>1
      <4> QED BY <3>1, <4>1, ServerCounted, Zenon
    <3> QED BY <1>6, <3>1, <3>2 DEF Counted
  <2>2. ServerTypeOK'
    BY <1>1, <1>6, <2>1 DEF Counted, ServerTypeOK, MatchNext
  <2>3. HistogramTypeOK'
    <3>1. CASE UNCHANGED <<histogram, inserted>>
      BY <3>1 DEF FlowInv, HistogramTypeOK
    <3>2. CASE /\ \E bin \in Latencies : histogram' = HistogramInsert(histogram, bin)
               /\ inserted' = [inserted EXCEPT ![d.id] = @ + 1]
      <4>1. histogram' \in HistogramType
        BY <3>2, IsochBounds, HistogramInserted DEF FlowInv, HistogramTypeOK
      <4>2. inserted' \in [1 .. MaxClock + 2 -> Nat]
        BY <1>1, <2>1, <3>2 DEF FlowInv, HistogramTypeOK
      <4> QED BY <4>1, <4>2 DEF HistogramTypeOK
    <3> QED BY <1>6, <3>1, <3>2 DEF Counted
  <2>4. \A f \in 1 .. MaxClock + 2 : inserted'[f] = inserted[f] \/ (f = d.id /\ d.last)
    <3>1. inserted \in [1 .. MaxClock + 2 -> Nat]
      BY DEF FlowInv, HistogramTypeOK
    <3> QED BY <1>6, <3>1 DEF Counted, LatencyDue
  <2>5. ReadRight'
    <3>1. lastpacket' => cpc' = "ended"
      BY DEF DatagramRight
    <3>2. ~lastpacket' => /\ serverStats'.frameID \in sent' \cup {0}
                          /\ \A f \in 1 .. MaxClock + 2 : inserted'[f] > 0 => f \in sent'
      BY <2>1, <2>4 DEF DatagramRight, FlowInv, ReadRight
    <3>3. cpc' = "burst" => inserted'[frame'.id] = 0
      BY <2>4, OpenFrame DEF FlowInv, ReadRight, DatagramRight
    <3>4. begun' # 0
      BY <1>6, <2>1 DEF Counted
    <3> QED BY <2>1, <3>1, <3>2, <3>3, <3>4 DEF ReadRight
  <2> QED BY <1>2, <1>3, <1>4, <2>2, <2>3, <2>5 DEF FlowInv
<1> QED BY <1>5, <1>6

\* What is in the network after a datagram was taken out, repeated or overtaken.
LEMMA NetTail ==
  ASSUME NetTypeOK, net # <<>>, net' = Tail(net)
  PROVE  /\ net' \in Seq(DatagramType) /\ Len(net') = Len(net) - 1 /\ Len(net) \in Nat
         /\ \A k \in 1 .. Len(net') : k + 1 \in 1 .. Len(net) /\ net'[k] = net[k + 1]
         /\ 1 \in 1 .. Len(net) /\ Head(net) = net[1] /\ net[1] \in DatagramType
  BY DEF NetTypeOK

\* The next datagram is in flight twice.
LEMMA NetDuplicate ==
  ASSUME NetTypeOK, net # <<>>, net' = <<Head(net)>> \o net
  PROVE  /\ net' \in Seq(DatagramType) /\ Len(net') = Len(net) + 1 /\ Len(net) \in Nat
         /\ net'[1] = net[1] /\ 1 \in 1 .. Len(net)
         /\ \A k \in 1 .. Len(net') : k > 1 => k - 1 \in 1 .. Len(net) /\ net'[k] = net[k - 1]
  BY DEF NetTypeOK

\* One sequence after another.
LEMMA Joined ==
  ASSUME NEW S, NEW a \in Seq(S), NEW b \in Seq(S)
  PROVE  /\ a \o b \in Seq(S) /\ Len(a \o b) = Len(a) + Len(b)
         /\ \A k \in 1 .. Len(a \o b) : (a \o b)[k] = IF k <= Len(a) THEN a[k] ELSE b[k - Len(a)]
<1>1. a \o b \in Seq(S)
  OBVIOUS
<1>2. Len(a) \in Nat /\ Len(b) \in Nat /\ Len(a \o b) = Len(a) + Len(b)
  OBVIOUS
<1> QED BY <1>1, <1>2

\* The second datagram passes the first.
LEMMA NetOvertake ==
  ASSUME NetTypeOK, Len(net) > 1, net' = <<net[2], net[1]>> \o SubSeq(net, 3, Len(net))
  PROVE  /\ net' \in Seq(DatagramType) /\ Len(net') = Len(net)
         /\ \A k \in 1 .. Len(net') : \E m \in 1 .. Len(net) : net'[k] = net[m]
<1>1. /\ net \in Seq(DatagramType) /\ Len(net) \in Nat
      /\ net[1] \in DatagramType /\ net[2] \in DatagramType
  BY DEF NetTypeOK
<1> DEFINE a == <<net[2], net[1]>>
           b == SubSeq(net, 3, Len(net))
<1>2. /\ a \in Seq(DatagramType) /\ Len(a) = 2 /\ a[1] = net[2] /\ a[2] = net[1]
  BY <1>1
<1>3. /\ b \in Seq(DatagramType) /\ Len(b) = Len(net) - 2
      /\ \A k \in 1 .. Len(b) : b[k] = net[k + 2]
  BY <1>1
<1>4. net' = a \o b
  OBVIOUS
<1> HIDE DEF a, b
<1>5. /\ net' \in Seq(DatagramType) /\ Len(net') = Len(net)
      /\ \A k \in 1 .. Len(net') : net'[k] = IF k <= 2 THEN a[k] ELSE b[k - 2]
  <2>1. /\ a \o b \in Seq(DatagramType) /\ Len(a \o b) = Len(a) + Len(b)
        /\ \A k \in 1 .. Len(a \o b) : (a \o b)[k] = IF k <= Len(a) THEN a[k] ELSE b[k - Len(a)]
    <3>1. a \in Seq(DatagramType) /\ b \in Seq(DatagramType)
      BY <1>2, <1>3
    <3> QED BY <3>1, Joined, Zenon
  <2> DEFINE c == a \o b
  <2>2. net' = c
    BY <1>4
  <2> HIDE DEF c
  <2>3. c \in Seq(DatagramType) /\ Len(c) = Len(net)
    <3>1. Len(c) = 2 + (Len(net) - 2)
      BY <1>2, <1>3, <2>1 DEF c
    <3> QED BY <1>1, <2>1, <3>1 DEF c
  <2>4. \A k \in 1 .. Len(c) : c[k] = IF k <= 2 THEN a[k] ELSE b[k - 2]
    <3>1. Len(a) = 2
      BY <1>2
    <3> QED BY <2>1, <3>1, Zenon DEF c
  <2>5. net' \in Seq(DatagramType) /\ Len(net') = Len(net)
    BY <2>2, <2>3
  <2>6. \A k \in 1 .. Len(net') : net'[k] = IF k <= 2 THEN a[k] ELSE b[k - 2]
    BY <2>2, <2>4
  <2> QED BY <2>5, <2>6
<1>6. ASSUME NEW k \in 1 .. Len(net') PROVE \E m \in 1 .. Len(net) : net'[k] = net[m]
  <2>1. CASE k = 1
    <3>1. net'[k] = net[2] /\ 2 \in 1 .. Len(net)
      BY <1>1, <1>2, <1>5, <2>1
    <3> QED BY <3>1
  <2>2. CASE k = 2
    <3>1. net'[k] = net[1] /\ 1 \in 1 .. Len(net)
      BY <1>1, <1>2, <1>5, <2>2
    <3> QED BY <3>1
  <2>3. CASE k > 2
    <3>1. net'[k] = b[k - 2] /\ k - 2 \in 1 .. Len(b)
      BY <1>1, <1>3, <1>5, <2>3
    <3>2. net'[k] = net[k] /\ k \in 1 .. Len(net)
      BY <1>1, <1>3, <1>5, <2>3, <3>1
    <3> QED BY <3>2
  <2> QED BY <1>1, <1>5, <2>1, <2>2, <2>3
<1> QED BY <1>5, <1>6

\* The server reads the first datagram of the network.
LEMMA Received ==
  ASSUME FlowInv, ReceiveDatagram
  PROVE  \E d \in DatagramType :
            /\ net # <<>> /\ d = net[1] /\ DatagramRight(d) /\ net' = Tail(net)
            /\ ~lastpacket /\ (lastpacket' <=> d.fin) /\ packet' = d
            /\ UNCHANGED <<cpc, frame, sent, lone, disorder, printed>>
            /\ Skipped(d) \/ Counted(d, TRUE)
<1>1. net # <<>> /\ NetTypeOK /\ net' = Tail(net)
  BY DEF ReceiveDatagram, FlowInv
<1>2. PICK d \in DatagramType : d = net[1] /\ d = Head(net) /\ 1 \in 1 .. Len(net)
  BY <1>1, NetTail
<1>3. DatagramRight(d)
  BY <1>2 DEF FlowInv, DatagramsRight, DatagramRight
<1>4. /\ ~lastpacket /\ (lastpacket' <=> d.fin) /\ packet' = d
      /\ UNCHANGED <<cpc, frame, sent, lone, disorder, printed>>
  BY <1>2 DEF ReceiveDatagram, clientVars
<1>5. Skipped(d) \/ Counted(d, TRUE)
  <2>1. ready' = (ready \/ (d.last /\ d.id - d.prev = 1))
    BY <1>2 DEF ReceiveDatagram
  <2>2. HandleIsochronous(d, ready', TRUE)
    BY <1>2 DEF ReceiveDatagram
  <2> QED BY <2>2 DEF HandleIsochronous, Skipped, Counted
<1> QED BY <1>1, <1>2, <1>3, <1>4, <1>5

\* A report without a datagram handles the one before again.
LEMMA Emptied ==
  ASSUME FlowInv, EmptyReport
  PROVE  \E d \in DatagramType :
            /\ d = packet /\ DatagramRight(d) /\ UNCHANGED net /\ UNCHANGED ready
            /\ ~lastpacket /\ (lastpacket' <=> d.fin) /\ packet' = d
            /\ UNCHANGED <<cpc, frame, sent, lone, disorder, printed>>
            /\ Skipped(d) \/ Counted(d, FALSE)
<1>1. PICK d \in DatagramType : d = packet
  BY DEF FlowInv, NetTypeOK
<1>2. DatagramRight(d)
  BY <1>1 DEF FlowInv, DatagramsRight, DatagramRight
<1>3. /\ ~lastpacket /\ (lastpacket' <=> d.fin) /\ packet' = d /\ UNCHANGED net /\ UNCHANGED ready
      /\ UNCHANGED <<cpc, frame, sent, lone, disorder, printed>>
  BY <1>1 DEF EmptyReport, clientVars, FlowInv, ReadRight
<1>4. Skipped(d) \/ Counted(d, FALSE)
  <2>1. HandleIsochronous(d, ready, FALSE)
    BY <1>1 DEF EmptyReport
  <2> QED BY <1>3, <2>1 DEF HandleIsochronous, Skipped, Counted
<1> QED BY <1>1, <1>2, <1>3, <1>4

\* Every step keeps what is true of the datagrams.
LEMMA FlowStep == ASSUME FlowInv, ClientInv, [IsochNext]_isochVars PROVE FlowInv'
<1>0. net \in Seq(DatagramType) /\ NetTypeOK /\ histogram \in HistogramType
  BY DEF FlowInv, NetTypeOK, HistogramTypeOK
<1>1. CASE Pass \/ Report \/ UNCHANGED isochVars
  <2>1. UNCHANGED <<net, histogram, cpc, frame, sent, lone, lastpacket, ready, packet,
                    serverStats, matchframeID, seen, begun, inserted>>
    BY <1>1 DEF Pass, Report, isochVars, clientVars, serverVars
  <2> QED BY <1>0, <2>1, FlowStays
<1>2. CASE Lose \/ Duplicate \/ Overtake \/ ReceiveFirst
  <2>1. UNCHANGED <<histogram, cpc, frame, sent, lone, lastpacket, ready, packet,
                    serverStats, matchframeID, seen, begun, inserted>>
    BY <1>2 DEF Lose, Duplicate, Overtake, ReceiveFirst, clientVars, serverVars
  <2>2. /\ net' \in Seq(DatagramType)
        /\ \A k \in 1 .. Len(net') : \E m \in 1 .. Len(net) : net'[k] = net[m]
    <3>1. CASE Lose \/ ReceiveFirst
      <4>1. net # <<>> /\ net' = Tail(net)
        BY <3>1 DEF Lose, ReceiveFirst
      <4> QED BY <1>0, <4>1, NetTail
    <3>2. CASE Duplicate
      <4>1. net # <<>> /\ net' = <<Head(net)>> \o net
        BY <3>2 DEF Duplicate
      <4>2. \A k \in 1 .. Len(net') : k = 1 \/ k > 1
        BY <1>0, <4>1, NetDuplicate
      <4> QED BY <1>0, <4>1, <4>2, NetDuplicate
    <3>3. CASE Overtake
      <4>1. Len(net) > 1 /\ net' = <<net[2], net[1]>> \o SubSeq(net, 3, Len(net))
        BY <3>3 DEF Overtake
      <4> QED BY <1>0, <4>1, NetOvertake
    <3> QED BY <1>2, <3>1, <3>2, <3>3
  <2> QED BY <1>0, <2>1, <2>2, FlowStays
<1>3. CASE ReceiveDatagram
  <2>1. PICK d \in DatagramType :
            /\ net # <<>> /\ d = net[1] /\ DatagramRight(d) /\ net' = Tail(net)
            /\ ~lastpacket /\ (lastpacket' <=> d.fin) /\ packet' = d
            /\ UNCHANGED <<cpc, frame, sent, lone>>
            /\ Skipped(d) \/ Counted(d, TRUE)
    BY <1>3, Received
  <2>2. /\ net' \in Seq(DatagramType)
        /\ \A k \in 1 .. Len(net') : \E m \in 1 .. Len(net) : net'[k] = net[m]
    BY <1>0, <2>1, NetTail
  <2> QED BY <2>1, <2>2, FlowHandled
<1>4. CASE EmptyReport
  <2>1. PICK d \in DatagramType :
            /\ DatagramRight(d) /\ UNCHANGED net
            /\ ~lastpacket /\ (lastpacket' <=> d.fin) /\ packet' = d
            /\ UNCHANGED <<cpc, frame, sent, lone>>
            /\ Skipped(d) \/ Counted(d, FALSE)
    BY <1>4, Emptied
  <2> QED BY <1>0, <2>1, FlowHandled
<1> QED BY <1>1, <1>2, <1>3, <1>4, FlowWaitTick, FlowBeginFrame, FlowSend, FlowStop
        DEF IsochNext

-----------------------------------------------------------------------------
\* The histogram.

\* A set of naturals has a least element, which Min finds.
LEMMA LeastNat ==
  ASSUME NEW S, S \subseteq Nat, S # {}
  PROVE  Min(S) \in S /\ \A y \in S : Min(S) <= y
<1> DEFINE R == OpToRel(<, Nat)
<1>1. IsWellFoundedOn(R, Nat)
  BY NatLessThanWellFounded, Zenon
<1>2. \A x, y \in Nat : <<x, y>> \in R <=> x < y
  BY DEF OpToRel
<1> HIDE DEF R
<1>3. PICK m \in S : \A y \in S : ~(<<y, m>> \in R)
  BY <1>1, WFMin
<1>4. ASSUME NEW y \in S PROVE m <= y
  <2>1. m \in Nat /\ y \in Nat /\ ~(<<y, m>> \in R)
    BY <1>3
  <2>2. ~(y < m)
    BY <1>2, <2>1
  <2> QED BY <2>1, <2>2
<1> QED BY <1>4 DEF Min

\* The bins below one of a confidence interval: a higher limit is not passed
\* before a lower one.
LEMMA FirstBinMonotone ==
  ASSUME NEW delta \in [0..Bins - 1 -> Nat], NEW n \in Nat, CiLower <= CiUpper
  PROVE  FirstBin(delta, n, CiLower) <=
            (IF FirstBin(delta, n, CiUpper) = 0 THEN Bins ELSE FirstBin(delta, n, CiUpper))
<1> DEFINE Over(c) == {b \in 0..Bins - 1 : delta[b] > 0 /\ Below(delta, b) * 100 > c * n}
           L == Over(CiLower)
           U == Over(CiUpper)
<1>1. /\ FirstBin(delta, n, CiLower) = IF L = {} THEN 0 ELSE Min(L) + 1
      /\ FirstBin(delta, n, CiUpper) = IF U = {} THEN 0 ELSE Min(U) + 1
  BY DEF FirstBin
<1>2. \A b \in 0..Bins - 1 : Below(delta, b) \in Nat
  <2> SUFFICES ASSUME NEW b \in 0..Bins - 1 PROVE SumFunctionOnSet(delta, 0..b) \in Nat
    BY DEF Below
  <2>1. IsFiniteSet(0..b)
    BY FS_Interval
  <2>2. \A y \in 0..b : delta[y] \in Nat
    BY IsochBounds
  <2> QED BY <2>1, <2>2, SumSplit
<1>3. CiLower * n <= CiUpper * n
  <2>1. \A i, j, k \in Nat : i <= j => i * k <= j * k
    OBVIOUS
  <2> QED BY <2>1, IsochBounds
<1>4. U \subseteq L
  <2>1. CiLower * n \in Int /\ CiUpper * n \in Int
    BY IsochBounds
  <2> QED BY <1>2, <1>3, <2>1
<1>5. L \subseteq 0..Bins - 1 /\ U \subseteq 0..Bins - 1 /\ 0..Bins - 1 \subseteq Nat
  BY IsochBounds
<1> HIDE DEF L, U
<1>6. CASE L = {}
  <2>1. U = {}
    BY <1>4, <1>6
  <2> QED BY <1>1, <1>6, <2>1, IsochBounds
<1>7. CASE L # {} /\ U = {}
  <2>1. Min(L) \in 0..Bins - 1
    BY <1>5, <1>7, LeastNat
  <2> QED BY <1>1, <1>7, <2>1, IsochBounds
<1>8. CASE L # {} /\ U # {}
  <2>1. /\ Min(L) \in L /\ \A y \in L : Min(L) <= y
        /\ Min(U) \in U
    BY <1>5, <1>8, LeastNat
  <2>2. Min(L) <= Min(U) /\ Min(L) \in Nat /\ Min(U) \in Nat
    BY <1>4, <1>5, <2>1
  <2> QED BY <1>1, <1>8, <2>2
<1> QED BY <1>6, <1>7, <1>8

\* An empty histogram.
LEMMA HistogramStarts == ASSUME IsochInit PROVE HistogramInv
<1> DEFINE S == 1 .. MaxClock + 2
           z == [f \in S |-> 0]
           B == 0..Bins - 1
           y == [b \in B |-> 0]
<1>0. \A T, g : IsFiniteSet(T) /\ (\A x \in T : g[x] = 0) => SumFunctionOnSet(g, T) = 0
  <2> SUFFICES ASSUME NEW T, NEW g, IsFiniteSet(T), \A x \in T : g[x] = 0
               PROVE  SumFunctionOnSet(g, T) = 0
    OBVIOUS
  <2>1. Units(g, T) = {}
    BY DEF Units
  <2>2. SumFunctionOnSet(g, T) = Cardinality(Units(g, T))
    BY SumIsUnits
  <2> QED BY <2>1, <2>2, FS_EmptySet
<1>1. IsFiniteSet(S) /\ IsFiniteSet(B)
  BY IsochBounds, FS_Interval
<1>2. SumFunctionOnSet(z, S) = 0 /\ SumFunctionOnSet(y, B) = 0
  <2>1. (\A x \in S : z[x] = 0) /\ (\A x \in B : y[x] = 0)
    OBVIOUS
  <2> HIDE DEF S, B, z, y
  <2> QED BY <1>0, <1>1, <2>1
<1>3. /\ inserted = z /\ histogram = HistogramInit /\ prev = HistogramInit
      /\ HistogramInit.mybins = y /\ HistogramInit.beyond = 0 /\ HistogramInit.populationcnt = 0
      /\ HistogramInit.cntloweroutofbounds = 0 /\ HistogramInit.cntupperoutofbounds = 0
      /\ HistogramInit \in HistogramType
  BY DEF IsochInit, HistogramInit, HistogramType
<1>4. HistogramTypeOK /\ prev \in HistogramType
  BY <1>3 DEF HistogramTypeOK
<1>5. PrintedWhole
  BY DEF IsochInit, PrintedWhole
<1> QED BY <1>2, <1>3, <1>4, <1>5 DEF HistogramInv, HistogramSum

\* A latency is taken.
LEMMA HistogramTaken ==
  ASSUME HistogramInv, NEW bin \in Latencies, histogram' = HistogramInsert(histogram, bin),
         NEW f \in 1 .. MaxClock + 2, inserted' = [inserted EXCEPT ![f] = @ + 1],
         UNCHANGED <<prev, printed>>
  PROVE  HistogramInv'
<1> DEFINE S == 1 .. MaxClock + 2
<1>1. /\ histogram \in HistogramType /\ inserted \in [S -> Nat] /\ bin \in Int
      /\ IsFiniteSet(S) /\ f \in S
  <2>1. IsFiniteSet(S)
    BY IsochBounds, FS_Interval
  <2>2. bin \in Int
    BY IsochBounds
  <2> QED BY <2>1, <2>2 DEF HistogramInv, HistogramTypeOK
<1>2. /\ histogram' \in HistogramType
      /\ histogram'.populationcnt = histogram.populationcnt + 1
      /\ HistogramSum(histogram)' = HistogramSum(histogram) + 1
  <2>1. /\ HistogramInsert(histogram, bin) \in HistogramType
        /\ HistogramInsert(histogram, bin).populationcnt = histogram.populationcnt + 1
        /\ HistogramSum(HistogramInsert(histogram, bin)) = HistogramSum(histogram) + 1
    BY <1>1, HistogramInserted
  <2> QED BY <2>1 DEF HistogramSum
<1>3. /\ inserted' \in [S -> Nat]
      /\ SumFunctionOnSet(inserted', S) = SumFunctionOnSet(inserted, S) + 1
  <2> HIDE DEF S
  <2>1. SumFunctionOnSet([inserted EXCEPT ![f] = @ + 1], S) = SumFunctionOnSet(inserted, S) + 1
    BY <1>1, SumCount
  <2> QED BY <1>1, <2>1
<1>4. PrintedWhole'
  BY DEF HistogramInv, PrintedWhole
<1>5. histogram.populationcnt = SumFunctionOnSet(inserted, S)
      /\ histogram.populationcnt = HistogramSum(histogram) /\ prev \in HistogramType
  BY DEF HistogramInv
<1> QED BY <1>2, <1>3, <1>4, <1>5 DEF HistogramInv, HistogramTypeOK

\* A report prints the whole histogram: what it printed before was cleared.
LEMMA HistogramReported == ASSUME HistogramInv, Report PROVE HistogramInv'
<1> DEFINE B == 0..Bins - 1
           p == HistogramClear(prev)
           delta == [b \in B |-> histogram.mybins[b] - p.mybins[b]]
           cnt == histogram.populationcnt - p.populationcnt
           upperci == FirstBin(delta, cnt, CiUpper)
           listed == [b \in B |-> IF delta[b] > 0 THEN delta[b] ELSE 0]
<1>1. /\ UNCHANGED <<histogram, inserted>>
      /\ printed' =
            [cnt |-> cnt, listed |-> Below(listed, Bins - 1),
             oob |-> (histogram.cntloweroutofbounds - p.cntloweroutofbounds)
                     + (histogram.cntupperoutofbounds - p.cntupperoutofbounds),
             lowerci |-> FirstBin(delta, cnt, CiLower),
             upperci |-> IF upperci = 0 THEN Bins ELSE upperci,
             of |-> SumFunctionOnSet(inserted, DOMAIN inserted),
             beyond |-> histogram.beyond]
      /\ prev' = [histogram EXCEPT
                    !.beyond = 0,
                    !.mybins = [b \in B |-> IF delta[b] > 0 THEN histogram.mybins[b]
                                            ELSE p.mybins[b]]]
  BY DEF Report, HistogramPrint
<1>2. /\ histogram \in HistogramType /\ prev \in HistogramType
      /\ inserted \in [1 .. MaxClock + 2 -> Nat]
      /\ histogram.populationcnt = SumFunctionOnSet(inserted, 1 .. MaxClock + 2)
      /\ histogram.populationcnt = HistogramSum(histogram)
  BY DEF HistogramInv, HistogramTypeOK
<1>3. /\ histogram.mybins \in [B -> Nat] /\ histogram.beyond \in Nat
      /\ histogram.populationcnt \in Nat /\ histogram.cntloweroutofbounds \in Nat
      /\ histogram.cntupperoutofbounds \in Nat
  BY <1>2 DEF HistogramType
<1>4. /\ p.mybins = [b \in B |-> 0] /\ p.populationcnt = 0
      /\ p.cntloweroutofbounds = 0 /\ p.cntupperoutofbounds = 0
  BY <1>2 DEF HistogramClear, HistogramType
<1> HIDE DEF p, B
<1>5. /\ \A b \in B : delta[b] = histogram.mybins[b] /\ delta[b] \in Nat
      /\ delta \in [B -> Nat] /\ cnt = histogram.populationcnt /\ cnt \in Nat
  BY <1>3, <1>4
<1>6. \A b \in B : listed[b] = histogram.mybins[b] /\ histogram.mybins[b] \in Nat
  BY <1>3, <1>5
<1>7. prev' \in HistogramType
  <2> DEFINE g == [b \in B |-> IF delta[b] > 0 THEN histogram.mybins[b] ELSE p.mybins[b]]
             c == [histogram EXCEPT !.beyond = 0]
  <2>1. g \in [B -> Nat]
    BY <1>3, <1>4, <1>5
  <2>2. c \in HistogramType
    BY <1>2 DEF HistogramType
  <2>3. prev' = [c EXCEPT !.mybins = g]
    BY <1>1
  <2> HIDE DEF c, g
  <2> QED BY <2>1, <2>2, <2>3 DEF HistogramType, B
<1>8. Below(listed, Bins - 1) = SumFunctionOnSet(histogram.mybins, B)
  <2>1. IsFiniteSet(B)
    BY IsochBounds, FS_Interval DEF B
  <2> HIDE DEF listed
  <2>2. SumFunctionOnSet(listed, B) = SumFunctionOnSet(histogram.mybins, B)
    BY <1>6, <2>1, SumSame
  <2> QED BY <2>2 DEF Below, B
<1> HIDE DEF delta, listed, cnt
<1>9. /\ printed'.cnt = cnt /\ printed'.listed = Below(listed, Bins - 1)
      /\ printed'.oob = (histogram.cntloweroutofbounds - p.cntloweroutofbounds)
                        + (histogram.cntupperoutofbounds - p.cntupperoutofbounds)
      /\ printed'.lowerci = FirstBin(delta, cnt, CiLower)
      /\ printed'.upperci = (IF upperci = 0 THEN Bins ELSE upperci)
      /\ printed'.of = SumFunctionOnSet(inserted, DOMAIN inserted)
      /\ printed'.beyond = histogram.beyond
  BY <1>1
<1>10. printed'.cnt = printed'.of
  <2>1. DOMAIN inserted = 1 .. MaxClock + 2
    BY <1>2
  <2> QED BY <1>2, <1>5, <1>9, <2>1
<1>11. printed'.listed + printed'.oob + printed'.beyond = printed'.cnt
  <2>1. SumFunctionOnSet(histogram.mybins, B) \in Nat
    <3>1. IsFiniteSet(B)
      BY IsochBounds, FS_Interval DEF B
    <3> QED BY <1>6, <3>1, SumSplit
  <2>2. printed'.oob = histogram.cntloweroutofbounds + histogram.cntupperoutofbounds
    BY <1>3, <1>4, <1>9
  <2>3. histogram.populationcnt = SumFunctionOnSet(histogram.mybins, B) + histogram.beyond
           + (histogram.cntloweroutofbounds + histogram.cntupperoutofbounds)
    BY <1>2 DEF HistogramSum, B
  <2> QED BY <1>3, <1>5, <1>8, <1>9, <2>1, <2>2, <2>3
<1>12. CiLower <= CiUpper => printed'.lowerci <= printed'.upperci
  BY <1>5, <1>9, FirstBinMonotone DEF B
<1> QED BY <1>1, <1>2, <1>7, <1>10, <1>11, <1>12
        DEF HistogramInv, HistogramTypeOK, PrintedWhole, HistogramSum

\* Every step keeps the histogram whole.
LEMMA HistogramStep ==
  ASSUME HistogramInv, FlowInv, [IsochNext]_isochVars
  PROVE  HistogramInv'
<1>1. CASE UNCHANGED <<histogram, inserted, prev, printed>>
  BY <1>1 DEF HistogramInv, HistogramTypeOK, PrintedWhole, HistogramSum
<1>2. CASE ReceiveDatagram \/ EmptyReport
  <2>1. UNCHANGED <<prev, printed>>
    BY <1>2 DEF ReceiveDatagram, EmptyReport
  <2>2. PICK d \in DatagramType, a \in BOOLEAN : Skipped(d) \/ Counted(d, a)
    BY <1>2, Received, Emptied
  <2>3. CASE UNCHANGED <<histogram, inserted>>
    BY <1>1, <2>1, <2>3
  <2>4. CASE /\ \E bin \in Latencies : histogram' = HistogramInsert(histogram, bin)
             /\ inserted' = [inserted EXCEPT ![d.id] = @ + 1]
             /\ d.id # 0
    <3>1. d.id \in 1 .. MaxClock + 2
      BY <2>4, InFlight, IsochBounds
    <3> QED BY <2>1, <2>4, <3>1, HistogramTaken
  <2> QED BY <2>2, <2>3, <2>4 DEF Skipped, Counted
<1>3. CASE Report
  BY <1>3, HistogramReported
<1>4. CASE Pass \/ WaitTick \/ BeginFrame \/ SendDatagram \/ Stop \/ Lose \/ Duplicate
           \/ Overtake \/ ReceiveFirst \/ UNCHANGED isochVars
  <2>1. UNCHANGED <<histogram, inserted, prev, printed>>
    BY <1>4 DEF Pass, WaitTick, BeginFrame, SendDatagram, Stop, Lose, Duplicate, Overtake,
                ReceiveFirst, isochVars, serverVars
  <2> QED BY <1>1, <2>1
<1> QED BY <1>2, <1>3, <1>4 DEF IsochNext

\* Whatever the network does and however often the histogram is printed, each
\* time it lists every latency: PrintedWhole.
THEOREM PrintedWholeAlways == IsochSpec => []PrintedWhole
<1> DEFINE I == ClientInv /\ FlowInv /\ HistogramInv
<1>1. IsochInit => I
  BY ClientStarts, FlowStarts, HistogramStarts
<1>2. I /\ [IsochNext]_isochVars => I'
  BY ClientStep, FlowStep, HistogramStep
<1>3. I => PrintedWhole
  BY DEF HistogramInv
<1> QED BY <1>1, <1>2, <1>3, PTL DEF IsochSpec

-----------------------------------------------------------------------------
\* Datagrams that keep their order.

\* A step that takes datagrams out of the network or repeats one.
LEMMA OrderStays ==
  ASSUME FlowInv, OrderInv, LatencyOnce, ServerFrames, ~disorder,
         \A k \in 1 .. Len(net') : \E i \in 1 .. Len(net) : net'[k] = net[i],
         \A k, m \in 1 .. Len(net') : k < m =>
            \E i, j \in 1 .. Len(net) : i <= j /\ net'[k] = net[i] /\ net'[m] = net[j],
         UNCHANGED <<disorder, lone, sent, lastpacket, packet, serverStats, matchframeID,
                     seen, begun, inserted>>
  PROVE  OrderInv' /\ LatencyOnce' /\ ServerFrames'
<1>1. ASSUME NEW k \in 1 .. Len(net'), NEW m \in 1 .. Len(net'), k < m
      PROVE  After(net[k], net[m])'
  <2>1. PICK i \in 1 .. Len(net), j \in 1 .. Len(net) :
           i <= j /\ net'[k] = net[i] /\ net'[m] = net[j]
    BY <1>1
  <2>2. After(net[i], net[j])
    <3>1. CASE i < j
      BY <3>1 DEF OrderInv
    <3>2. CASE i = j
      <4>1. DatagramRight(net[i])
        BY DEF FlowInv, DatagramsRight
      <4>2. net[i].id \in Nat
        BY InFlight
      <4> QED BY <3>2, <4>1, <4>2 DEF After, DatagramRight
    <3>3. i \in Int /\ j \in Int
      BY DEF FlowInv, NetTypeOK
    <3> QED BY <2>1, <3>1, <3>2, <3>3
  <2> QED BY <2>1, <2>2 DEF After
<1>2. \A k \in 1 .. Len(net') : serverStats'.frameID <= net'[k].id \/ lastpacket'
  BY DEF OrderInv
<1>3. \A f \in (1 .. MaxClock + 2) \ lone' : inserted'[f] > 0 /\ ~lastpacket' => Taken(f)'
  BY DEF OrderInv, Taken
<1>4. OrderInv'
  BY <1>1, <1>2, <1>3 DEF OrderInv
<1>5. LatencyOnce' /\ ServerFrames'
  BY DEF LatencyOnce, ServerFrames
<1> QED BY <1>4, <1>5

\* A datagram e is appended, of the present frame or the final one: no first
\* datagram of a frame that is complete, or whose latency was taken.
LEMMA OrderAppend ==
  ASSUME FlowInv, OrderInv, LatencyOnce, ServerFrames, ~disorder,
         NEW e \in DatagramType, net' = Append(net, e),
         \A k \in 1 .. Len(net) : net[k].id <= e.id,
         \A k \in 1 .. Len(net) :
            net[k].last /\ ~net[k].fin /\ net[k].id = e.id /\ e.id \notin lone' => ~e.head,
         e.id \in 1 .. MaxClock + 2 /\ inserted[e.id] > 0 /\ e.id \notin lone' => ~e.head,
         serverStats.frameID <= e.id, lone \subseteq lone',
         \A f \in sent' : f < serverStats.frameID => f \in sent, sent \subseteq sent',
         UNCHANGED <<disorder, lastpacket, packet, serverStats, matchframeID,
                     seen, begun, inserted>>
  PROVE  OrderInv' /\ LatencyOnce' /\ ServerFrames'
<1>1. /\ Len(net) \in Nat /\ Len(net') = Len(net) + 1 /\ net'[Len(net) + 1] = e
      /\ \A k \in 1 .. Len(net) : net'[k] = net[k]
  BY DEF FlowInv, NetTypeOK
<1>2. \A k \in 1 .. Len(net') : k \in 1 .. Len(net) \/ (k = Len(net) + 1 /\ net'[k] = e)
  BY <1>1
<1>3. ASSUME NEW k \in 1 .. Len(net'), NEW m \in 1 .. Len(net'), k < m
      PROVE  After(net[k], net[m])'
  <2>1. k \in 1 .. Len(net)
    BY <1>1, <1>3
  <2>2. CASE m \in 1 .. Len(net)
    <3>1. After(net[k], net[m])
      BY <1>3, <2>1, <2>2 DEF OrderInv
    <3> QED BY <1>1, <2>1, <2>2, <3>1 DEF After
  <2>3. CASE m = Len(net) + 1
    <3>1. net'[m] = e /\ net'[k] = net[k]
      BY <1>1, <2>1, <2>3
    <3> QED BY <2>1, <3>1 DEF After
  <2> QED BY <1>2, <2>2, <2>3
<1>4. \A k \in 1 .. Len(net') : serverStats'.frameID <= net'[k].id \/ lastpacket'
  BY <1>1, <1>2 DEF OrderInv
<1>5. ASSUME NEW f \in (1 .. MaxClock + 2) \ lone', inserted'[f] > 0, ~lastpacket'
      PROVE  Taken(f)'
  <2>1. Taken(f)
    BY <1>5 DEF OrderInv
  <2>2. e.id = f => ~e.head
    BY <1>5
  <2> QED BY <1>1, <1>2, <2>1, <2>2 DEF Taken
<1>6. OrderInv'
  BY <1>3, <1>4, <1>5 DEF OrderInv
<1>7. LatencyOnce'
  BY DEF LatencyOnce
<1>8. ServerFrames'
  <2>1. {f \in sent' : f < serverStats.frameID} = {f \in sent : f < serverStats.frameID}
    OBVIOUS
  <2> QED BY <2>1 DEF ServerFrames
<1> QED BY <1>6, <1>7, <1>8

\* A datagram of the present frame.
LEMMA OrderSend ==
  ASSUME FlowInv, ClientInv, OrderInv, LatencyOnce, ServerFrames, ~disorder, SendDatagram
  PROVE  OrderInv' /\ LatencyOnce' /\ ServerFrames'
<1> DEFINE last == frame.left = 1
           head == frame.left = frame.size \/ (last /\ frame.padded)
<1>1. /\ cpc = "burst" /\ frame \in FrameType
      /\ net' = Append(net, [id |-> frame.id, prev |-> frame.prev,
                             head |-> head, last |-> last, fin |-> FALSE])
      /\ sent' = sent \cup {frame.id} /\ lone \subseteq lone'
      /\ UNCHANGED <<disorder, lastpacket, packet, serverStats, matchframeID,
                     seen, begun, inserted>>
  BY DEF SendDatagram, serverVars, ClientInv, ClientTypeOK
<1>2. frame.id \in 1 .. MaxClock + 2 /\ frame.id \in Ids /\ frame.prev \in Nat
  BY <1>1, OpenFrame, IsochBounds DEF Ids, FrameType
<1>3. PICK e \in DatagramType : net' = Append(net, e) /\ e.id = frame.id
  <2> DEFINE x == [id |-> frame.id, prev |-> frame.prev,
                   head |-> head, last |-> last, fin |-> FALSE]
  <2>1. x \in DatagramType
    BY <1>1, <1>2 DEF DatagramType, FrameType
  <2> QED BY <1>1, <2>1
<1>4. \A k \in 1 .. Len(net) : net[k].id <= e.id /\ (net[k].id = e.id => ~net[k].last)
  BY <1>1, <1>3, SentSoFar DEF FlowInv, DatagramsRight, DatagramRight
<1>5. ~(inserted[e.id] > 0)
  BY <1>1, <1>3 DEF FlowInv, ReadRight
<1>6. serverStats.frameID <= e.id /\ serverStats.frameID \in Nat
  BY <1>1, <1>3, SentSoFar DEF FlowInv, ServerTypeOK, StatsType
<1>7. \A f \in sent' : f < serverStats.frameID => f \in sent
  BY <1>1, <1>2, <1>3, <1>6
<1> QED BY <1>1, <1>3, <1>4, <1>5, <1>6, <1>7, OrderAppend

\* The final datagram.
LEMMA OrderStop ==
  ASSUME FlowInv, ClientInv, OrderInv, LatencyOnce, ServerFrames, ~disorder, Stop
  PROVE  OrderInv' /\ LatencyOnce' /\ ServerFrames'
<1>1. /\ cpc # "ended" /\ counter.slot > 0
      /\ UNCHANGED <<frame, sent, lone, disorder, lastpacket, packet, serverStats,
                     matchframeID, seen, begun, inserted>>
  BY DEF Stop, serverVars
<1>2. PICK head \in BOOLEAN, last \in BOOLEAN :
         /\ net' = Append(net, [id |-> IF cpc = "sleep" THEN counter.slot ELSE frame.id,
                                prev |-> IF cpc = "sleep" THEN frame.id ELSE frame.prev,
                                head |-> head, last |-> last, fin |-> TRUE])
         /\ cpc = "tick" /\ head => frame.head
  BY DEF Stop
<1>3. /\ frame.id \in Nat /\ frame.prev \in Nat /\ counter.slot \in Ids
      /\ counter.slot \in 1 .. MaxClock + 2
      /\ cpc \in {"tick", "burst"} => frame.id = counter.slot
      /\ cpc = "sleep" => frame.id < counter.slot
      /\ cpc \in {"tick", "sleep", "burst"}
  <2>1. frame \in FrameType /\ counter \in CounterType /\ clock \in 0..MaxClock /\ SlotsRight
    BY DEF ClientInv, ClientTypeOK
  <2>2. counter.slot \in Ids /\ counter.slot \in 1 .. MaxClock + 2
    BY <1>1, <2>1, IsochBounds DEF SlotsRight, CounterType, Ids
  <2>3. /\ cpc \in {"tick", "burst"} => frame.id = counter.slot
        /\ cpc = "sleep" => frame.id < counter.slot
        /\ cpc \in {"tick", "sleep", "burst"}
    BY <1>1 DEF ClientInv, ClientTypeOK, Tick, Burst, Sleep
  <2> QED BY <2>1, <2>2, <2>3 DEF FrameType
<1>4. PICK e \in DatagramType :
         /\ net' = Append(net, e) /\ e.id = counter.slot /\ e.head = head
  <2> DEFINE x == [id |-> IF cpc = "sleep" THEN counter.slot ELSE frame.id,
                   prev |-> IF cpc = "sleep" THEN frame.id ELSE frame.prev,
                   head |-> head, last |-> last, fin |-> TRUE]
  <2>1. x.id = counter.slot /\ x.head = head
    BY <1>3
  <2>2. x \in DatagramType
    BY <1>3 DEF DatagramType
  <2> QED BY <1>2, <2>1, <2>2
<1>5. cpc = "tick" => e.id \in lone \/ ~e.head
  BY <1>2, <1>3, <1>4 DEF FlowInv, SentUpTo
<1>6. ASSUME NEW k \in 1 .. Len(net)
      PROVE  /\ net[k].id <= e.id
             /\ net[k].last /\ ~net[k].fin /\ net[k].id = e.id /\ e.id \notin lone => ~e.head
  <2>1. net[k].id \in Nat /\ net[k].id <= frame.id
    BY <1>1, InFlight, SentSoFar
  <2>2. cpc = "burst" /\ net[k].id = frame.id => ~net[k].last
    BY DEF FlowInv, DatagramsRight, DatagramRight
  <2> QED BY <1>3, <1>4, <1>5, <2>1, <2>2
<1>7. inserted[e.id] > 0 /\ e.id \notin lone => ~e.head
  <2>1. inserted[e.id] > 0 => e.id \in sent
    BY <1>1, <1>3, <1>4, SentSoFar DEF FlowInv, ReadRight
  <2>2. cpc = "sleep" => e.id \notin sent
    BY <1>1, <1>3, <1>4, SentSoFar
  <2>3. cpc = "burst" => ~(inserted[e.id] > 0)
    BY <1>3, <1>4 DEF FlowInv, ReadRight
  <2> QED BY <1>3, <1>5, <2>1, <2>2, <2>3
<1>8. serverStats.frameID <= e.id
  <2>1. serverStats.frameID \in Nat /\ serverStats.frameID <= frame.id
    BY <1>1, SentSoFar DEF FlowInv, ServerTypeOK, StatsType
  <2> QED BY <1>3, <1>4, <2>1
<1> QED BY <1>1, <1>4, <1>6, <1>7, <1>8, OrderAppend

\* A frame is counted once, and as lost are counted those sent in between.
LEMMA FrameCountStep ==
  ASSUME FlowInv, OrderInv, ServerFrames, ~disorder, ~lastpacket,
         NEW d \in DatagramType, DatagramRight(d), serverStats.frameID <= d.id,
         NEW arrived, Counted(d, arrived), UNCHANGED <<sent, disorder>>, sent \subseteq Nat
  PROVE  /\ ServerFrames' /\ seen' \subseteq 1 .. serverStats'.frameID
         /\ serverStats'.frameID \in seen' /\ serverStats'.frameID = d.id
<1> DEFINE s == serverStats
           h == HandleFrame(s, d.id, d.prev, TRUE)
<1>1. /\ d.id \in Nat /\ d.prev \in Nat /\ d.id # 0 /\ d.prev < d.id
      /\ \A f \in sent : f < d.id => f <= d.prev
  BY InFlight DEF DatagramRight, Counted
<1>2. /\ serverStats' = h /\ seen' = seen \cup {d.id}
      /\ begun' = IF begun = 0 THEN d.id ELSE begun
  BY DEF Counted
<1>3. /\ s \in StatsType /\ s.frameID \in Nat /\ s.framecnt \in Nat /\ s.framelostcnt \in Int
  BY DEF FlowInv, ServerTypeOK, StatsType
<1>4. /\ h.frameID = d.id
      /\ h.framecnt = (IF s.frameID = 0 THEN d.id ELSE s.framecnt)
                      + (IF d.id # s.frameID THEN 1 ELSE 0)
      /\ h.framelostcnt = s.framelostcnt +
                      (IF d.id - s.frameID <= 1 THEN 0 ELSE d.prev - s.frameID)
  <2>1. s \in StatsType /\ d.id \in Nat /\ d.prev \in Nat
    BY <1>1, <1>3
  <2> QED BY <2>1, ServerCounted, Zenon
<1>5. /\ s.frameID = 0 <=> begun = 0
      /\ begun = 0 => seen = {} /\ s.framecnt = 0 /\ s.framelostcnt = 0
      /\ s.frameID \in sent \cup {0} /\ 0 \notin sent
      /\ seen \subseteq 1 .. s.frameID /\ (s.frameID # 0 => s.frameID \in seen)
      /\ s.frameID <= d.id
  BY DEF FlowInv, ReadRight, OrderInv, SentUpTo
<1> HIDE DEF h, s
<1>6. /\ seen' \subseteq 1 .. serverStats'.frameID
      /\ serverStats'.frameID \in seen' /\ serverStats'.frameID = d.id
  <2>1. serverStats'.frameID = d.id
    BY <1>2, <1>4
  <2>2. d.id \in seen' /\ d.id \in 1 .. d.id
    BY <1>1, <1>2
  <2>3. ASSUME NEW f \in seen PROVE f \in 1 .. d.id
    BY <1>1, <1>3, <1>5
  <2> QED BY <1>2, <2>1, <2>2, <2>3
<1>7. IsFiniteSet(seen) /\ Cardinality(seen) \in Nat
  <2>1. IsFiniteSet(1 .. s.frameID)
    BY <1>3, FS_Interval
  <2> QED BY <1>5, <2>1, FS_Subset, FS_CardinalityType
<1>8. ASSUME begun' = 1
      PROVE  LET unseen == {f \in sent : f < d.id} \ seen'
             IN  /\ h.framecnt - 1 = Cardinality(seen')
                 /\ h.framelostcnt >= Cardinality(unseen)
                 /\ h.framelostcnt + Cardinality(seen') <= d.id
  <2> DEFINE unseen == {f \in sent : f < s.frameID} \ seen
             more == {f \in sent : f < d.id} \ seen'
  <2>1. CASE begun = 0
    <3>1. d.id = 1 /\ seen' = {1} /\ s.frameID = 0 /\ s.framelostcnt = 0
      BY <1>2, <1>5, <1>8, <2>1
    <3>2. h.framecnt = 2 /\ h.framelostcnt = 0
      BY <1>4, <3>1
    <3>3. Cardinality(seen') = 1
      BY <3>1, FS_Singleton
    <3>4. more = {}
      <4>1. \A f \in sent : f \in Nat /\ f # 0
        BY <1>5
      <4>2. \A f \in sent : ~(f < 1)
        BY <4>1
      <4> QED BY <3>1, <4>2
    <3>5. Cardinality(more) = 0
      BY <3>4, FS_EmptySet
    <3> QED BY <3>1, <3>2, <3>3, <3>5
  <2>2. CASE begun # 0
    <3>1. /\ s.framecnt - 1 = Cardinality(seen)
          /\ s.framelostcnt >= Cardinality(unseen)
          /\ s.framelostcnt + Cardinality(seen) <= s.frameID
          /\ s.frameID # 0
      BY <1>2, <1>5, <1>8, <2>2 DEF ServerFrames, s
    <3>2. CASE d.id = s.frameID
      <4>1. seen' = seen /\ more = unseen
        BY <1>2, <1>5, <3>1, <3>2
      <4>2. h.framecnt = s.framecnt /\ h.framelostcnt = s.framelostcnt
        BY <1>3, <1>4, <3>1, <3>2
      <4> QED BY <3>1, <3>2, <4>1, <4>2
    <3>3. CASE d.id # s.frameID
      <4> DEFINE gap == s.frameID + 1 .. d.prev
      <4>1. s.frameID < d.id /\ d.id \notin seen /\ s.frameID <= d.prev
        BY <1>1, <1>3, <1>5, <3>1, <3>3
      <4>2. Cardinality(seen') = Cardinality(seen) + 1
        BY <1>2, <1>7, <4>1, FS_AddElement
      <4>3. /\ IsFiniteSet(gap) /\ Cardinality(gap) = d.prev - s.frameID
        <5>1. s.frameID + 1 \in Int /\ d.prev \in Int
          BY <1>1, <1>3
        <5>2. /\ IsFiniteSet(gap)
              /\ Cardinality(gap) = IF s.frameID + 1 > d.prev THEN 0
                                    ELSE d.prev - (s.frameID + 1) + 1
          BY <5>1, FS_Interval
        <5> HIDE DEF gap
        <5> QED BY <1>1, <1>3, <4>1, <5>2
      <4>4. IsFiniteSet(unseen) /\ Cardinality(unseen) \in Nat
        <5>1. IsFiniteSet(0 .. s.frameID)
          BY <1>3, FS_Interval
        <5>2. unseen \subseteq 0 .. s.frameID
          <6>1. ASSUME NEW f \in sent, f < s.frameID PROVE f \in 0 .. s.frameID
            BY <1>3, <6>1
          <6> QED BY <6>1
        <5> QED BY <5>1, <5>2, FS_Subset, FS_CardinalityType
      <4>5. more \subseteq unseen \cup gap
        <5> SUFFICES ASSUME NEW f \in sent, f < d.id, f \notin seen'
                     PROVE  f \in unseen \cup gap
          OBVIOUS
        <5>1. f \in Nat /\ f <= d.prev /\ f # s.frameID /\ f \notin seen
          BY <1>1, <1>2, <1>5, <3>1
        <5> QED BY <1>1, <1>3, <5>1
      <4> HIDE DEF gap, unseen, more
      <4>6. Cardinality(more) <= Cardinality(unseen) + (d.prev - s.frameID)
        <5>1. /\ IsFiniteSet(unseen \cup gap)
              /\ Cardinality(unseen \cup gap) =
                    Cardinality(unseen) + Cardinality(gap) - Cardinality(unseen \cap gap)
          BY <4>3, <4>4, FS_Union
        <5>2. IsFiniteSet(unseen \cap gap) /\ Cardinality(unseen \cap gap) \in Nat
          BY <4>4, FS_Subset, FS_CardinalityType
        <5>3. IsFiniteSet(more) /\ Cardinality(more) <= Cardinality(unseen \cup gap)
          BY <4>5, <5>1, FS_Subset
        <5>4. Cardinality(more) \in Nat
          BY <5>3, FS_CardinalityType
        <5>5. Cardinality(gap) = d.prev - s.frameID
          BY <4>3
        <5> QED BY <1>1, <1>3, <4>4, <5>1, <5>2, <5>3, <5>4, <5>5
      <4>7. h.framecnt = s.framecnt + 1
        BY <1>3, <1>4, <3>1, <3>3
      <4>8. h.framelostcnt = s.framelostcnt + (d.prev - s.frameID)
        BY <1>1, <1>3, <1>4, <4>1
      <4>9. Cardinality(more) \in Nat
        BY <4>3, <4>4, <4>5, FS_Union, FS_Subset, FS_CardinalityType
      <4>10. /\ h.framecnt - 1 = Cardinality(seen')
             /\ h.framelostcnt >= Cardinality(more)
             /\ h.framelostcnt + Cardinality(seen') <= d.id
        BY <1>1, <1>3, <1>7, <3>1, <4>2, <4>4, <4>6, <4>7, <4>8, <4>9
      <4> QED BY <4>10 DEF more
    <3> QED BY <3>2, <3>3
  <2> QED BY <2>1, <2>2
<1>9. ServerFrames'
  BY <1>2, <1>4, <1>8 DEF ServerFrames
<1> QED BY <1>6, <1>9

\* The server reads the next datagram.
LEMMA OrderReceive ==
  ASSUME FlowInv, ClientInv, OrderInv, LatencyOnce, ServerFrames, ~disorder, ReceiveDatagram
  PROVE  OrderInv' /\ LatencyOnce' /\ ServerFrames'
<1>1. PICK d \in DatagramType :
            /\ net # <<>> /\ d = net[1] /\ DatagramRight(d) /\ net' = Tail(net)
            /\ ~lastpacket /\ (lastpacket' <=> d.fin) /\ packet' = d
            /\ UNCHANGED <<cpc, frame, sent, lone, disorder>>
            /\ Skipped(d) \/ Counted(d, TRUE)
  BY Received
<1>2. /\ Len(net') = Len(net) - 1 /\ Len(net) \in Nat /\ 1 \in 1 .. Len(net)
      /\ \A k \in 1 .. Len(net') : k + 1 \in 1 .. Len(net) /\ net'[k] = net[k + 1]
  BY <1>1, NetTail DEF FlowInv
<1>3. ASSUME NEW k \in 1 .. Len(net'), NEW m \in 1 .. Len(net'), k < m
      PROVE  After(net[k], net[m])'
  <2>1. After(net[k + 1], net[m + 1])
    BY <1>2, <1>3 DEF OrderInv
  <2> QED BY <1>1, <1>2, <2>1 DEF After
<1>4. \A k \in 1 .. Len(net') : After(d, net'[k])
  <2> SUFFICES ASSUME NEW k \in 1 .. Len(net') PROVE After(d, net'[k])
    OBVIOUS
  <2>1. 1 < k + 1 /\ k + 1 \in 1 .. Len(net) /\ net'[k] = net[k + 1]
    BY <1>2
  <2>2. After(net[1], net[k + 1])
    BY <1>2, <2>1 DEF OrderInv
  <2> QED BY <1>1, <2>1, <2>2
<1>5. /\ d.id \in Nat /\ serverStats.frameID \in Nat /\ serverStats.frameID <= d.id
      /\ d.id # 0 => d.id \in 1 .. MaxClock + 2
      /\ inserted \in [1 .. MaxClock + 2 -> Nat]
  <2>1. d.id \in Nat /\ (d.id # 0 => d.id \in 1 .. MaxClock + 2)
    BY InFlight, IsochBounds
  <2>2. serverStats.frameID \in Nat /\ inserted \in [1 .. MaxClock + 2 -> Nat]
    BY DEF FlowInv, ServerTypeOK, StatsType, HistogramTypeOK
  <2>3. serverStats.frameID <= d.id
    BY <1>1, <1>2 DEF OrderInv
  <2> QED BY <2>1, <2>2, <2>3
<1>6. \A f \in (1 .. MaxClock + 2) \ lone : inserted[f] > 0 =>
         /\ matchframeID # f /\ (d.id = f => ~d.head)
         /\ \A k \in 1 .. Len(net') : net'[k].id = f => ~net'[k].head
  BY <1>1, <1>2 DEF OrderInv, Taken
<1>7. CASE Skipped(d)
  <2>1. UNCHANGED <<serverStats, matchframeID, inserted, seen, begun>>
    BY <1>7 DEF Skipped
  <2>2. LatencyOnce' /\ ServerFrames'
    BY <1>1, <2>1 DEF LatencyOnce, ServerFrames
  <2>3. \A k \in 1 .. Len(net') : serverStats'.frameID <= net'[k].id
    BY <1>1, <1>2, <2>1 DEF OrderInv
  <2>4. \A f \in (1 .. MaxClock + 2) \ lone' : inserted'[f] > 0 => Taken(f)'
    BY <1>1, <1>6, <2>1 DEF Taken
  <2> QED BY <1>3, <2>1, <2>2, <2>3, <2>4 DEF OrderInv
<1>8. CASE Counted(d, TRUE)
  <2>1. /\ ServerFrames' /\ seen' \subseteq 1 .. serverStats'.frameID
        /\ serverStats'.frameID \in seen' /\ serverStats'.frameID = d.id
    <3>1. sent \subseteq Nat
      BY DEF ClientInv, ClientTypeOK
    <3> QED BY <1>1, <1>5, <1>8, <3>1, FrameCountStep
  <2>2. \A k \in 1 .. Len(net') : serverStats'.frameID <= net'[k].id
    BY <1>4, <2>1 DEF After
  <2>3. /\ d.id # 0 /\ matchframeID' = MatchNext(matchframeID, d, TRUE)
        /\ LatencyDue(matchframeID, d) => inserted' = [inserted EXCEPT ![d.id] = @ + 1]
        /\ ~LatencyDue(matchframeID, d) => inserted' = inserted
    BY <1>8 DEF Counted
  <2>4. ASSUME NEW f \in (1 .. MaxClock + 2) \ lone
        PROVE  /\ inserted'[f] <= 1
               /\ inserted'[f] > 0 /\ ~d.fin =>
                     /\ matchframeID' # f /\ (d.id = f => ~d.head)
                     /\ \A k \in 1 .. Len(net') : net'[k].id = f => ~net'[k].head
    <3>0. inserted[f] \in Nat /\ inserted[f] <= 1 /\ f # 0
      BY <1>5 DEF LatencyOnce
    <3>1. CASE inserted[f] > 0
      <4>1. /\ matchframeID # f /\ (d.id = f => ~d.head)
            /\ \A k \in 1 .. Len(net') : net'[k].id = f => ~net'[k].head
        BY <1>6, <3>1
      <4>2. matchframeID' # f
        BY <2>3, <3>0, <4>1 DEF MatchNext
      <4>3. inserted'[f] = inserted[f]
        BY <1>5, <2>3, <4>1 DEF LatencyDue
      <4> QED BY <3>0, <4>1, <4>2, <4>3
    <3>2. CASE ~(inserted[f] > 0) /\ d.id = f /\ LatencyDue(matchframeID, d)
      <4>1. inserted'[f] = inserted[f] + 1
        BY <1>5, <2>3, <3>2
      <4>2. inserted'[f] <= 1
        BY <3>0, <3>2, <4>1
      <4>3. matchframeID' # f
        BY <2>3, <3>0, <3>2 DEF MatchNext, LatencyDue
      <4>4. d.last /\ (~d.fin => ~d.head)
        BY <1>1, <3>2 DEF DatagramRight, LatencyDue
      <4>5. ~d.fin => \A k \in 1 .. Len(net') : net'[k].id = f => ~net'[k].head
        BY <1>4, <3>2, <4>4 DEF After
      <4> QED BY <4>2, <4>3, <4>4, <4>5
    <3>3. CASE ~(inserted[f] > 0) /\ ~(d.id = f /\ LatencyDue(matchframeID, d))
      <4>1. inserted'[f] = inserted[f]
        BY <1>5, <2>3, <3>3
      <4> QED BY <3>0, <3>3, <4>1
    <3> QED BY <3>1, <3>2, <3>3
  <2>5. LatencyOnce'
    <3>1. DOMAIN inserted' = 1 .. MaxClock + 2
      BY <1>5, <2>3
    <3> QED BY <1>1, <2>4, <3>1 DEF LatencyOnce
  <2>6. \A f \in (1 .. MaxClock + 2) \ lone' : inserted'[f] > 0 /\ ~lastpacket' => Taken(f)'
    BY <1>1, <2>4 DEF Taken
  <2> QED BY <1>3, <2>1, <2>2, <2>5, <2>6 DEF OrderInv
<1> QED BY <1>1, <1>7, <1>8

\* A report without a datagram changes no count of frames, nor the frame to match.
LEMMA OrderEmpty ==
  ASSUME FlowInv, ClientInv, OrderInv, LatencyOnce, ServerFrames, ~disorder, EmptyReport
  PROVE  OrderInv' /\ LatencyOnce' /\ ServerFrames'
<1>1. PICK d \in DatagramType :
            /\ d = packet /\ DatagramRight(d) /\ UNCHANGED net /\ UNCHANGED ready
            /\ ~lastpacket /\ (lastpacket' <=> d.fin) /\ packet' = d
            /\ UNCHANGED <<cpc, frame, sent, lone, disorder>>
            /\ Skipped(d) \/ Counted(d, FALSE)
  BY Emptied
<1>2. CASE Skipped(d)
  BY <1>1, <1>2 DEF Skipped, OrderInv, LatencyOnce, ServerFrames, Taken, After
<1>3. CASE Counted(d, FALSE)
  <2>1. d.id = serverStats.frameID /\ d.id \in Nat
    BY <1>1, <1>3, InFlight DEF Counted, FlowInv, ReadRight
  <2>2. /\ ServerFrames' /\ seen' \subseteq 1 .. serverStats'.frameID
        /\ serverStats'.frameID \in seen' /\ serverStats'.frameID = d.id
    <3>1. sent \subseteq Nat /\ serverStats.frameID <= d.id
      BY <2>1 DEF ClientInv, ClientTypeOK
    <3> QED BY <1>1, <1>3, <3>1, FrameCountStep
  <2>3. UNCHANGED inserted /\ matchframeID' = IF d.head THEN d.id ELSE matchframeID
    BY <1>3 DEF Counted, MatchNext
  <2>4. LatencyOnce'
    BY <1>1, <2>3 DEF LatencyOnce
  <2>5. \A f \in (1 .. MaxClock + 2) \ lone' : inserted'[f] > 0 /\ ~lastpacket' => Taken(f)'
    BY <1>1, <2>3 DEF OrderInv, Taken
  <2>6. \A k \in 1 .. Len(net') : serverStats'.frameID <= net'[k].id \/ lastpacket'
    BY <1>1, <2>1, <2>2 DEF OrderInv
  <2>7. \A k, m \in 1 .. Len(net') : k < m => After(net[k], net[m])'
    BY <1>1 DEF OrderInv, After
  <2> QED BY <2>2, <2>4, <2>5, <2>6, <2>7 DEF OrderInv
<1> QED BY <1>1, <1>2, <1>3

\* Every step keeps the order, until a datagram overtakes another.
LEMMA StreamStep ==
  ASSUME ClientInv, StreamInv, [IsochNext]_isochVars
  PROVE  StreamInv'
<1>0. FlowInv /\ FlowInv' /\ NetTypeOK
  BY FlowStep DEF StreamInv, FlowInv
<1> SUFFICES ASSUME ~disorder' PROVE OrderInv' /\ LatencyOnce' /\ ServerFrames'
  BY <1>0 DEF StreamInv
<1>1. ~disorder /\ OrderInv /\ LatencyOnce /\ ServerFrames
  <2>1. ~disorder
    BY DEF IsochNext, Pass, WaitTick, BeginFrame, SendDatagram, Stop, Lose, Duplicate, Overtake,
           ReceiveFirst, ReceiveDatagram, EmptyReport, Report, isochVars
  <2> QED BY <2>1 DEF StreamInv
<1>2. CASE Pass \/ WaitTick \/ BeginFrame \/ Report \/ UNCHANGED isochVars
  <2>1. UNCHANGED <<net, disorder, lone, sent, lastpacket, packet, serverStats, matchframeID,
                    seen, begun, inserted>>
    BY <1>2 DEF Pass, WaitTick, BeginFrame, Report, isochVars, clientVars, serverVars
  <2>2. \A k, m \in 1 .. Len(net) : k < m => k <= m
    BY <1>0 DEF NetTypeOK
  <2> QED BY <1>0, <1>1, <2>1, <2>2, OrderStays
<1>3. CASE Lose \/ ReceiveFirst
  <2>1. /\ net # <<>> /\ net' = Tail(net)
        /\ UNCHANGED <<disorder, lone, sent, lastpacket, packet, serverStats, matchframeID,
                       seen, begun, inserted>>
    BY <1>3 DEF Lose, ReceiveFirst, clientVars, serverVars
  <2>2. /\ Len(net) \in Nat /\ Len(net') = Len(net) - 1
        /\ \A k \in 1 .. Len(net') : k + 1 \in 1 .. Len(net) /\ net'[k] = net[k + 1]
    BY <1>0, <2>1, NetTail
  <2>3. \A k, m \in 1 .. Len(net') : k < m =>
            k + 1 <= m + 1 /\ net'[k] = net[k + 1] /\ net'[m] = net[m + 1]
    BY <2>2
  <2>4. \A k, m \in 1 .. Len(net') : k < m =>
            \E i, j \in 1 .. Len(net) : i <= j /\ net'[k] = net[i] /\ net'[m] = net[j]
    BY <2>2, <2>3
  <2> QED BY <1>0, <1>1, <2>1, <2>2, <2>4, OrderStays
<1>4. CASE Duplicate
  <2>1. /\ net # <<>> /\ net' = <<Head(net)>> \o net
        /\ UNCHANGED <<disorder, lone, sent, lastpacket, packet, serverStats, matchframeID,
                       seen, begun, inserted>>
    BY <1>4 DEF Duplicate, clientVars, serverVars
  <2> DEFINE Source(k) == IF k = 1 THEN 1 ELSE k - 1
  <2>2. /\ Len(net) \in Nat /\ Len(net') = Len(net) + 1
        /\ \A k \in 1 .. Len(net') : Source(k) \in 1 .. Len(net) /\ net'[k] = net[Source(k)]
    BY <1>0, <2>1, NetDuplicate
  <2>3. \A k, m \in 1 .. Len(net') : k < m => Source(k) <= Source(m)
    BY <2>2
  <2> HIDE DEF Source
  <2>4. \A k, m \in 1 .. Len(net') : k < m =>
            \E i, j \in 1 .. Len(net) : i <= j /\ net'[k] = net[i] /\ net'[m] = net[j]
    BY <2>2, <2>3
  <2> QED BY <1>0, <1>1, <2>1, <2>2, <2>4, OrderStays
<1>5. CASE Overtake
  BY <1>5 DEF Overtake
<1> QED BY <1>0, <1>1, <1>2, <1>3, <1>4, <1>5, OrderSend, OrderStop, OrderReceive, OrderEmpty
        DEF IsochNext

\* What is true of the datagrams, in order or not, for any sizes of frames and
\* any number of losses, repetitions and reports.
THEOREM IsochInvariant == IsochSpec => [](ClientInv /\ StreamInv)
<1>1. ASSUME IsochInit PROVE StreamInv
  <2>1. FlowInv
    BY <1>1, FlowStarts
  <2>2. Len(net) = 1 /\ net[1].id = 0
    BY <1>1 DEF IsochInit, NoDatagram
  <2>3. OrderInv
    BY <1>1, <2>2 DEF IsochInit, OrderInv, ZeroStats
  <2>4. LatencyOnce /\ ServerFrames
    BY <1>1 DEF IsochInit, LatencyOnce, ServerFrames
  <2> QED BY <2>1, <2>3, <2>4 DEF StreamInv
<1> QED BY <1>1, ClientStarts, ClientStep, StreamStep, PTL DEF IsochSpec

\* The server counts frames right as long as datagrams keep their order.
THEOREM ServerFramesAlways == IsochSpec => []ServerFrames
<1>1. ClientInv /\ StreamInv => ServerFrames
  BY DEF StreamInv, ServerFrames
<1> QED BY <1>1, IsochInvariant, PTL

\* And takes one latency of a frame.
THEOREM LatencyOnceAlways == IsochSpec => []LatencyOnce
<1>1. ClientInv /\ StreamInv => LatencyOnce
  BY DEF StreamInv, LatencyOnce
<1> QED BY <1>1, IsochInvariant, PTL
=============================================================================
