---------------------------- MODULE BusTreeProofs -----------------------------
(***************************************************************************)
(* Proofs about the bus tree: its rows are a forest in preorder, whatever  *)
(* bytes the windows of the bridges hold and wherever the stack ends, as   *)
(* TuiApp takes for granted; the stack overflows only along a window that  *)
(* leads back; and with the bus numbers firmware assigns each device hangs *)
(* from its innermost bridge.                                              *)
(***************************************************************************)
EXTENDS BusTree, TreeRows, WellFoundedInduction, FiniteSetTheorems, FunctionTheorems,
        SequenceTheorems, TLAPS

-----------------------------------------------------------------------------
(* Least elements, and induction stated about a set of numbers: to show    *)
(* P(n) for all n, apply Induct to {n \in Nat : P(n)}.                      *)

(* A non-empty set of natural numbers has a least element.                 *)
LEMMA Least ==
  ASSUME NEW T \in SUBSET Nat, T # {}
  PROVE  \E x \in T : \A y \in T : x <= y
<1> DEFINE R == OpToRel(<, Nat)
<1>1. IsWellFoundedOn(R, Nat)
  BY NatLessThanWellFounded
<1>2. \A x, y \in Nat : x < y => <<x, y>> \in R
  BY DEF OpToRel
<1> HIDE DEF R
<1>3. PICK x \in T : \A y \in T : ~ (<<y, x>> \in R)
  BY <1>1, WFMin
<1>4. \A y \in T : ~ (y < x)
  BY <1>2, <1>3
<1>5. \A y \in T : x <= y
  BY <1>4
<1> QED
  BY <1>5, Zenon

(* A set with 0 and with the successor of each of its members is all of Nat. *)
LEMMA Induct ==
  ASSUME NEW S, 0 \in S, \A n \in Nat : n \in S => n + 1 \in S
  PROVE  \A n \in Nat : n \in S
<1> DEFINE T == {n \in Nat : n \notin S}
<1> SUFFICES ASSUME T # {} PROVE FALSE
  OBVIOUS
<1>1. PICK x \in T : \A y \in T : x <= y
  <2>1. T \in SUBSET Nat
    OBVIOUS
  <2> HIDE DEF T
  <2> QED
    BY <2>1, Least
<1>2. x # 0 /\ x \in Nat /\ x \notin S
  BY <1>1
<1>3. x - 1 \in Nat /\ x - 1 \in S
  BY <1>1, <1>2
<1> QED
  BY <1>2, <1>3

-----------------------------------------------------------------------------
(* Sorting.                                                                  *)

(* The numbers below n.                                                      *)
LEMMA NumbersBelow ==
  ASSUME NEW n \in Nat
  PROVE  IsFiniteSet(0..n - 1) /\ Cardinality(0..n - 1) = n
<1> DEFINE b == n - 1
<1>1. b \in Int /\ (0 > b => n = 0) /\ (~(0 > b) => (b - 0) + 1 = n)
  OBVIOUS
<1> HIDE DEF b
<1>2. IsFiniteSet(0..b) /\ Cardinality(0..b) = IF 0 > b THEN 0 ELSE b - 0 + 1
  BY <1>1, FS_Interval
<1>3. Cardinality(0..b) = n
  BY <1>1, <1>2
<1> QED
  BY <1>2, <1>3 DEF b

(* Where the elements below one are those below any greater one, but for the *)
(* first of the two itself, the elements number those below them from 0 on.  *)
LEMMA RanksExist ==
  ASSUME NEW S, IsFiniteSet(S), NEW below \in [S -> SUBSET S],
         \A a \in S : a \notin below[a],
         \A a, b \in S : a # b => \/ a \in below[b] /\ below[a] \subseteq below[b]
                                  \/ b \in below[a] /\ below[b] \subseteq below[a]
  PROVE  /\ Cardinality(S) \in Nat
         /\ \A i \in 1..Cardinality(S) : \E a \in S : Cardinality(below[a]) = i - 1
         /\ \A a \in S : Cardinality(below[a]) \in 0..Cardinality(S) - 1
         /\ \A a, b \in S : Cardinality(below[a]) = Cardinality(below[b]) => a = b
<1> DEFINE n == Cardinality(S)
           rank == [a \in S |-> Cardinality(below[a])]
<1>1. n \in Nat
  BY FS_CardinalityType
<1>2. ASSUME NEW a \in S
      PROVE  IsFiniteSet(below[a]) /\ Cardinality(below[a]) \in 0..n - 1
  <2>1. below[a] \in SUBSET S /\ below[a] # S
    OBVIOUS
  <2>2. /\ IsFiniteSet(below[a]) /\ Cardinality(below[a]) <= n
        /\ Cardinality(below[a]) # n
    BY <2>1, FS_Subset
  <2>3. Cardinality(below[a]) \in Nat
    BY <2>2, FS_CardinalityType
  <2> QED
    BY <1>1, <2>2, <2>3
<1>3. rank \in [S -> 0..n - 1]
  BY <1>2
<1>4. ASSUME NEW a \in S, NEW b \in S, a \in below[b], below[a] \subseteq below[b]
      PROVE  rank[a] # rank[b]
  <2>1. below[a] \in SUBSET below[b] /\ below[a] # below[b]
    BY <1>4
  <2>2. Cardinality(below[a]) # Cardinality(below[b])
    BY <2>1, <1>2, FS_Subset
  <2> QED
    BY <2>2
<1>5. \A a, b \in S : rank[a] = rank[b] => a = b
  BY <1>4
<1> HIDE DEF rank
<1>6. rank \in Injection(S, 0..n - 1)
  BY <1>3, <1>5, Fun_IsInj
<1>7. IsFiniteSet(0..n - 1) /\ Cardinality(0..n - 1) = n
  BY <1>1, NumbersBelow
<1>8. rank \in Surjection(S, 0..n - 1)
  BY <1>6, <1>7, FS_Injection
<1>9. \A k \in 0..n - 1 : \E a \in S : rank[a] = k
  BY <1>8 DEF Surjection
<1>10. \A i \in 1..n : \E a \in S : rank[a] = i - 1
  BY <1>1, <1>9
<1>11. \A a, b \in S : Cardinality(below[a]) = Cardinality(below[b]) => a = b
  BY <1>5 DEF rank
<1>12. \A i \in 1..n : \E a \in S : Cardinality(below[a]) = i - 1
  BY <1>10 DEF rank
<1> QED
  BY <1>1, <1>2, <1>11, <1>12

(* A function on 1..n is a sequence.                                         *)
LEMMA IsSequence ==
  ASSUME NEW S, NEW n \in Nat, NEW f \in [1..n -> S]
  PROVE  f \in Seq(S)
OBVIOUS

(* Those below an element are below any greater one, but for the first of    *)
(* the two itself.                                                           *)
Linear(S, below) ==
  /\ \A a \in S : a \notin below[a]
  /\ \A a, b \in S : a # b => \/ a \in below[b] /\ below[a] \subseteq below[b]
                              \/ b \in below[a] /\ below[b] \subseteq below[a]

RankedBy(f, S, below) == \A i \in 1..Cardinality(S) : Cardinality(below[f[i]]) = i - 1

Distinct(q) == \A i, j \in DOMAIN q : q[i] = q[j] => i = j

(* Where the element at i is the one of i - 1 below it, all elements of S    *)
(* are in the sequence, each once.                                           *)
LEMMA RankedOnce ==
  ASSUME NEW S, IsFiniteSet(S), NEW below \in [S -> SUBSET S], Linear(S, below),
         NEW f \in [1..Cardinality(S) -> S], RankedBy(f, S, below)
  PROVE  Range(f) = S /\ Distinct(f)
<1> USE DEF Linear, RankedBy
<1> DEFINE n == Cardinality(S)
<1>1. /\ n \in Nat
      /\ \A a \in S : Cardinality(below[a]) \in 0..n - 1
      /\ \A a, b \in S : Cardinality(below[a]) = Cardinality(below[b]) => a = b
  BY RanksExist
<1>2. DOMAIN f = 1..n /\ \A i \in 1..n : f[i] \in S
  OBVIOUS
<1> HIDE DEF n
<1>3. ASSUME NEW a \in S
      PROVE  \E i \in 1..n : f[i] = a
  <2> DEFINE r == Cardinality(below[a])
  <2>1. r \in 0..n - 1
    BY <1>1
  <2> HIDE DEF r
  <2>2. r + 1 \in 1..n /\ (r + 1) - 1 = r
    BY <1>1, <2>1
  <2>3. Cardinality(below[f[r + 1]]) = r
    BY <2>2 DEF n
  <2> QED
    BY <1>1, <1>2, <2>2, <2>3 DEF r
<1>4. ASSUME NEW i \in 1..n, NEW j \in 1..n, f[i] = f[j]
      PROVE  i = j
  <2>1. i - 1 = j - 1
    BY <1>4 DEF n
  <2> QED
    BY <1>1, <2>1
<1> QED
  BY <1>2, <1>3, <1>4 DEF Range, Distinct

-----------------------------------------------------------------------------
(* The inductive invariant.                                                  *)

RowSet == [kind : {"bus", "device"}, at : topology.devices, depth : Nat, parent : Nat,
           expandable : BOOLEAN]

BusSet == [domain : Nat, bus : Nat]

FrameSet == [bus : BusSet, todo : Seq(topology.devices), parent : Nat, depth : Nat]

BusesSeen == {BusOf(a) : a \in topology.devices}

Types ==
  /\ renderer \in DOMAIN Topologies /\ topology \in Topologies[renderer]
  /\ unread \subseteq Bridges /\ DOMAIN windows \subseteq Bridges
  /\ \A b \in DOMAIN windows : windows[b] \in Foreign \cup {topology.window[b]}
  /\ buses \in Seq(BusesSeen)
  /\ frames \in Seq(FrameSet) /\ crashed \in BOOLEAN
  /\ rows \in Seq(RowSet)

(* The row at i hangs from its parent.                                       *)
Hangs(i) ==
  IF rows[i].kind = "bus" THEN rows[i].depth = 0 /\ rows[i].parent = 0 /\ rows[i].expandable
  ELSE LET p == rows[i].parent
       IN /\ p \in 1..(i - 1)
          /\ rows[p].depth = rows[i].depth - 1 /\ rows[p].expandable
          /\ \A j \in (p + 1)..(i - 1) : rows[j].depth > rows[p].depth

Forest == \A i \in DOMAIN rows : Hangs(i)

(* The call at i pushes rows of depth i below its parent row, and since that *)
(* row was pushed every one has come below it.                               *)
Pushes(i) ==
  LET p == frames[i].parent
  IN /\ p \in DOMAIN rows /\ frames[i].depth = i
     /\ rows[p].depth = i - 1 /\ rows[p].expandable
     /\ \A j \in (p + 1)..Len(rows) : rows[j].depth >= i

Stack == \A i \in DOMAIN frames : Pushes(i)

IInv == Types /\ Forest /\ Stack

-----------------------------------------------------------------------------
(* The devices of a bus and the buses, sorted.                               *)

(* What is assumed of the topology drawn.                                    *)
LEMMA TopologyFacts ==
  ASSUME renderer \in DOMAIN Topologies, topology \in Topologies[renderer]
  PROVE  /\ renderer \in {"tui", "cli"}
         /\ topology.devices \subseteq Address /\ IsFiniteSet(topology.devices)
         /\ Bridges \subseteq topology.devices
         /\ \A b \in Bridges : topology.window[b] \in Window
BY TopologiesAssumption DEF Bridges

(* The buses of devices are buses.                                           *)
LEMMA BusOfType ==
  ASSUME NEW a \in Address
  PROVE  BusOf(a) \in BusSet
BY DEF Address, BusOf, BusSet

(* The devices of any bus are devices of the topology, and there is a first  *)
(* one on a bus a device is on.                                              *)
LEMMA DevicesOnSeq ==
  ASSUME renderer \in DOMAIN Topologies, topology \in Topologies[renderer], NEW bus
  PROVE  /\ DevicesOn(bus) \in Seq(topology.devices)
         /\ \A a \in Range(DevicesOn(bus)) : BusOf(a) = bus
         /\ bus \in BusesSeen => /\ DevicesOn(bus)[1] \in topology.devices
                                 /\ BusOf(DevicesOn(bus)[1]) = bus
         /\ Range(DevicesOn(bus)) = {a \in topology.devices : BusOf(a) = bus}
         /\ Distinct(DevicesOn(bus))
<1> DEFINE S == {a \in topology.devices : BusOf(a) = bus}
           below == [a \in S |-> {b \in S : AddressLess(b, a)}]
           n == Cardinality(S)
<1>1. S \subseteq Address /\ IsFiniteSet(S) /\ S \subseteq topology.devices
  BY TopologyFacts, FS_Subset
<1>2. \A a \in S : a.domain \in Nat /\ a.bus \in Nat /\ a.slot \in Nat
                   /\ a = [domain |-> a.domain, bus |-> a.bus, slot |-> a.slot]
  BY <1>1 DEF Address
<1>3. \A a, b \in S : a.bus = b.bus
  BY DEF BusOf
<1>4. bus \in BusesSeen => S # {}
  BY DEF BusesSeen
<1>5. DevicesOn(bus) = [i \in 1..n |-> CHOOSE a \in S :
                          Cardinality({b \in S : AddressLess(b, a)}) = i - 1]
  BY DEF DevicesOn, Sorted
<1> HIDE DEF S
<1>6. \A a \in S : a \notin below[a]
  BY <1>2 DEF AddressLess
<1>7. ASSUME NEW a \in S, NEW b \in S, a # b
      PROVE  \/ a \in below[b] /\ below[a] \subseteq below[b]
             \/ b \in below[a] /\ below[b] \subseteq below[a]
  <2>1. a.slot # b.slot \/ a.domain # b.domain
    BY <1>2, <1>3, <1>7
  <2>2. AddressLess(a, b) \/ AddressLess(b, a)
    BY <1>2, <2>1 DEF AddressLess
  <2>3. \A c, d, e \in S : AddressLess(c, d) /\ AddressLess(d, e) => AddressLess(c, e)
    BY <1>2 DEF AddressLess
  <2> QED
    BY <2>2, <2>3
<1>8. below \in [S -> SUBSET S] /\ \A a \in S : below[a] = {b \in S : AddressLess(b, a)}
  OBVIOUS
<1> HIDE DEF below
<1>9. n \in Nat /\ \A i \in 1..n : \E a \in S : Cardinality(below[a]) = i - 1
  BY <1>1, <1>6, <1>7, <1>8, RanksExist
<1>10. \A i \in 1..n : \E a \in S : Cardinality({b \in S : AddressLess(b, a)}) = i - 1
  BY <1>8, <1>9
<1>11. \A i \in 1..n : /\ DevicesOn(bus)[i] \in S
                       /\ Cardinality({b \in S : AddressLess(b, DevicesOn(bus)[i])}) = i - 1
  BY <1>5, <1>10
<1>12. DevicesOn(bus) \in Seq(S)
  <2>1. DevicesOn(bus) \in [1..n -> S]
    BY <1>5, <1>11, Zenon
  <2> HIDE DEF n
  <2> QED
    BY <1>9, <2>1, IsSequence
<1>13. S # {} => n # 0
  BY <1>1, FS_EmptySet
<1>14. \A a \in Range(DevicesOn(bus)) : BusOf(a) = bus
  <2>1. Range(DevicesOn(bus)) \subseteq S
    BY <1>5, <1>11 DEF Range
  <2> QED
    BY <2>1 DEF S
<1>15. \A a \in S : a \in topology.devices /\ BusOf(a) = bus
  BY DEF S
<1>16. /\ Range(DevicesOn(bus)) = S
       /\ Distinct(DevicesOn(bus))
  <2> DEFINE f == DevicesOn(bus)
  <2>1. f \in [1..n -> S]
    BY <1>5, <1>11, Zenon
  <2>2. RankedBy(f, S, below)
    BY <1>8, <1>11 DEF RankedBy
  <2>3. Linear(S, below)
    BY <1>6, <1>7 DEF Linear
  <2> HIDE DEF f
  <2>4. Range(f) = S /\ Distinct(f)
    BY <1>1, <1>8, <2>1, <2>2, <2>3, RankedOnce, Zenon
  <2> QED
    BY <2>4 DEF f
<1>17. Range(DevicesOn(bus)) = {a \in topology.devices : BusOf(a) = bus}
  BY <1>16 DEF S
<1>19. \A i \in 1..n : DevicesOn(bus)[i] \in S
  BY <1>11
<1>18. /\ DevicesOn(bus) \in Seq(topology.devices)
       /\ bus \in BusesSeen => /\ DevicesOn(bus)[1] \in topology.devices
                               /\ BusOf(DevicesOn(bus)[1]) = bus
  BY <1>1, <1>4, <1>9, <1>12, <1>13, <1>15, <1>19
<1> QED
  BY <1>14, <1>16, <1>17, <1>18, Zenon

(* The loop visits buses of devices only.                                    *)
LEMMA BusesSeq ==
  ASSUME renderer \in DOMAIN Topologies, topology \in Topologies[renderer]
  PROVE  /\ Sorted(BusesSeen, BusLess) \in Seq(BusesSeen)
         /\ Range(Sorted(BusesSeen, BusLess)) = BusesSeen
         /\ Distinct(Sorted(BusesSeen, BusLess))
<1> DEFINE S == BusesSeen
           below == [a \in S |-> {b \in S : BusLess(b, a)}]
           n == Cardinality(S)
           of == [a \in topology.devices |-> BusOf(a)]
<1>1. S \subseteq BusSet
  BY TopologyFacts, BusOfType DEF BusesSeen
<1>2. IsFiniteSet(S)
  <2>1. of \in Surjection(topology.devices, S)
    BY DEF Surjection, BusesSeen
  <2> QED
    BY <2>1, TopologyFacts, FS_Surjection
<1>3. \A a \in S : a.domain \in Nat /\ a.bus \in Nat
                   /\ a = [domain |-> a.domain, bus |-> a.bus]
  BY <1>1 DEF BusSet
<1>4. Sorted(BusesSeen, BusLess) =
        [i \in 1..n |-> CHOOSE a \in S : Cardinality({b \in S : BusLess(b, a)}) = i - 1]
  BY DEF Sorted
<1> HIDE DEF S
<1>5. \A a \in S : a \notin below[a]
  BY <1>3 DEF BusLess
<1>6. ASSUME NEW a \in S, NEW b \in S, a # b
      PROVE  \/ a \in below[b] /\ below[a] \subseteq below[b]
             \/ b \in below[a] /\ below[b] \subseteq below[a]
  <2>1. a.bus # b.bus \/ a.domain # b.domain
    BY <1>3, <1>6
  <2>2. BusLess(a, b) \/ BusLess(b, a)
    BY <1>3, <2>1 DEF BusLess
  <2>3. \A c, d, e \in S : BusLess(c, d) /\ BusLess(d, e) => BusLess(c, e)
    BY <1>3 DEF BusLess
  <2> QED
    BY <2>2, <2>3
<1>7. below \in [S -> SUBSET S] /\ \A a \in S : below[a] = {b \in S : BusLess(b, a)}
  OBVIOUS
<1> HIDE DEF below
<1>8. n \in Nat /\ \A i \in 1..n : \E a \in S : Cardinality(below[a]) = i - 1
  BY <1>2, <1>5, <1>6, <1>7, RanksExist
<1>9. \A i \in 1..n : \E a \in S : Cardinality({b \in S : BusLess(b, a)}) = i - 1
  BY <1>7, <1>8
<1>10. \A i \in 1..n :
         /\ Sorted(BusesSeen, BusLess)[i] \in S
         /\ Cardinality({b \in S : BusLess(b, Sorted(BusesSeen, BusLess)[i])}) = i - 1
  BY <1>4, <1>9
<1>11. Sorted(BusesSeen, BusLess) \in Seq(S)
  <2>1. Sorted(BusesSeen, BusLess) \in [1..n -> S]
    BY <1>4, <1>10, Zenon
  <2> HIDE DEF n
  <2> QED
    BY <1>8, <2>1, IsSequence
<1>12. /\ Range(Sorted(BusesSeen, BusLess)) = S
       /\ Distinct(Sorted(BusesSeen, BusLess))
  <2> DEFINE f == Sorted(BusesSeen, BusLess)
  <2>1. f \in [1..n -> S]
    BY <1>4, <1>10, Zenon
  <2>2. RankedBy(f, S, below)
    BY <1>7, <1>10 DEF RankedBy
  <2>3. Linear(S, below)
    BY <1>5, <1>6 DEF Linear
  <2> HIDE DEF f
  <2>4. Range(f) = S /\ Distinct(f)
    BY <1>2, <1>7, <2>1, <2>2, <2>3, RankedOnce, Zenon
  <2> QED
    BY <2>4 DEF f
<1> QED
  BY <1>11, <1>12 DEF S

-----------------------------------------------------------------------------
(* The inductive invariant holds.                                            *)

(* Before the first window is read there is neither a row nor a call.        *)
LEMMA InitIInv ==
  ASSUME Init
  PROVE  IInv
<1>1. /\ renderer \in DOMAIN Topologies /\ topology \in Topologies[renderer]
      /\ unread = Bridges /\ windows = << >> /\ buses = Sorted(BusesSeen, BusLess)
      /\ frames = << >> /\ crashed = FALSE /\ rows = << >>
  BY DEF Init, BusesSeen
<1>2. buses \in Seq(BusesSeen)
  BY <1>1, BusesSeq
<1>3. DOMAIN windows = {} /\ DOMAIN frames = {} /\ DOMAIN rows = {}
  BY <1>1
<1>4. frames \in Seq(FrameSet) /\ rows \in Seq(RowSet)
  BY <1>1
<1> QED
  BY <1>1, <1>2, <1>3, <1>4 DEF IInv, Types, Forest, Stack

(* The sets of the invariant do not change, nor do the devices of a bus.     *)
LEMMA SameTopology ==
  ASSUME UNCHANGED <<renderer, topology>>
  PROVE  /\ RowSet' = RowSet /\ FrameSet' = FrameSet /\ BusesSeen' = BusesSeen
         /\ Bridges' = Bridges
BY DEF RowSet, FrameSet, BusSet, BusesSeen, BusOf, Bridges

(* The rows and the stack stay well formed as long as they stay.             *)
LEMMA SameRows ==
  ASSUME IInv, UNCHANGED <<renderer, topology, frames, rows, crashed>>,
         buses' \in Seq(BusesSeen), unread' \subseteq Bridges,
         DOMAIN windows' \subseteq Bridges,
         \A b \in DOMAIN windows' : windows'[b] \in Foreign \cup {topology.window[b]}
  PROVE  IInv'
<1>1. Types'
  BY SameTopology DEF IInv, Types
<1>2. Forest'
  BY DEF IInv, Forest, Hangs
<1>3. Stack'
  BY DEF IInv, Stack, Pushes
<1> QED
  BY <1>1, <1>2, <1>3 DEF IInv

(* Whatever is read for the next bridge, or nothing, its window is kept.     *)
LEMMA WindowStep ==
  ASSUME IInv, ReadWindow \/ WindowUnreadable \/ WindowForeign
  PROVE  IInv'
<1>1. NextBridge \in unread /\ unread # {}
  BY DEF ReadWindow, WindowUnreadable, WindowForeign, NextBridge
<1>2. PICK known : /\ Visit(known)
                   /\ \/ known = windows
                      \/ \E w \in Foreign \cup {topology.window[NextBridge]} :
                           known = WithWindow(w)
  BY DEF ReadWindow, WindowUnreadable, WindowForeign
<1>3. /\ unread' = unread \ {NextBridge} /\ windows' = known
      /\ UNCHANGED <<renderer, topology, buses, crashed, frames, rows>>
  BY <1>2 DEF Visit
<1>4. /\ unread \subseteq Bridges /\ DOMAIN windows \subseteq Bridges
      /\ \A b \in DOMAIN windows : windows[b] \in Foreign \cup {topology.window[b]}
      /\ buses \in Seq(BusesSeen)
  BY DEF IInv, Types
<1>5. /\ DOMAIN known \subseteq Bridges
      /\ \A b \in DOMAIN known : known[b] \in Foreign \cup {topology.window[b]}
  <2>1. CASE known = windows
    BY <1>4, <2>1
  <2>2. ASSUME NEW w \in Foreign \cup {topology.window[NextBridge]}, known = WithWindow(w)
        PROVE  /\ DOMAIN known \subseteq Bridges
               /\ \A b \in DOMAIN known : known[b] \in Foreign \cup {topology.window[b]}
    <3>1. /\ DOMAIN known = DOMAIN windows \cup {NextBridge}
          /\ \A b \in DOMAIN known : known[b] = IF b = NextBridge THEN w ELSE windows[b]
      BY <2>2 DEF WithWindow
    <3> QED
      BY <1>1, <1>4, <3>1
  <2> QED
    BY <1>2, <2>1, <2>2
<1> QED
  BY <1>3, <1>4, <1>5, SameRows

(* A covered bus is passed over.                                             *)
LEMMA SkipStep ==
  ASSUME IInv, SkipBus
  PROVE  IInv'
<1>1. /\ buses # << >> /\ buses' = Tail(buses)
      /\ UNCHANGED <<renderer, topology, unread, windows, frames, crashed, rows>>
  BY DEF SkipBus, AtBus
<1>2. buses \in Seq(BusesSeen)
  BY DEF IInv, Types
<1>3. buses' \in Seq(BusesSeen)
  BY <1>1, <1>2
<1> QED
  BY <1>1, <1>3, SameRows DEF IInv, Types

(* A row is added at the end: the ones before stay where they hang.          *)
LEMMA AppendKeepsForest ==
  ASSUME IInv, UNCHANGED <<renderer, topology>>, NEW row \in RowSet,
         rows' = Append(rows, row),
         \A i \in Nat : i = Len(rows) + 1 => Hangs(i)'
  PROVE  /\ rows' \in Seq(RowSet') /\ Forest'
         /\ Len(rows') = Len(rows) + 1 /\ rows'[Len(rows')] = row
         /\ DOMAIN rows' = 1..Len(rows')
         /\ \A i \in DOMAIN rows : i \in DOMAIN rows' /\ rows'[i] = rows[i]
<1>1. rows \in Seq(RowSet)
  BY DEF IInv, Types
<1>2. /\ rows' \in Seq(RowSet) /\ Len(rows') = Len(rows) + 1 /\ Len(rows) \in Nat
      /\ rows'[Len(rows) + 1] = row
      /\ DOMAIN rows = 1..Len(rows) /\ DOMAIN rows' = 1..(Len(rows) + 1)
      /\ \A i \in DOMAIN rows : rows'[i] = rows[i]
  BY <1>1
<1>3. ASSUME NEW i \in DOMAIN rows
      PROVE  Hangs(i)'
  <2>1. Hangs(i) /\ rows'[i] = rows[i]
    BY <1>2 DEF IInv, Forest
  <2>2. \A j \in 1..(i - 1) : rows'[j] = rows[j]
    BY <1>2
  <2>3. CASE rows[i].kind = "bus"
    BY <2>1, <2>3 DEF Hangs
  <2>4. CASE rows[i].kind # "bus"
    <3> DEFINE p == rows[i].parent
    <3>1. /\ p \in 1..(i - 1)
          /\ rows[p].depth = rows[i].depth - 1 /\ rows[p].expandable
          /\ \A j \in (p + 1)..(i - 1) : rows[j].depth > rows[p].depth
      BY <2>1, <2>4 DEF Hangs
    <3>2. rows'[i].kind # "bus" /\ rows'[i].parent = p /\ rows'[i].depth = rows[i].depth
      BY <2>1, <2>4
    <3> HIDE DEF p
    <3>3. rows'[p] = rows[p]
      BY <2>2, <3>1
    <3>4. \A j \in (p + 1)..(i - 1) : rows'[j].depth > rows'[p].depth
      BY <1>2, <2>2, <3>1, <3>3
    <3> QED
      BY <3>1, <3>2, <3>3, <3>4 DEF Hangs
  <2> QED
    BY <2>3, <2>4
<1>4. Forest'
  <2>1. \A i \in 1..(Len(rows) + 1) : Hangs(i)'
    <3>1. \A i \in 1..(Len(rows) + 1) : i \in Nat /\ (i \in DOMAIN rows \/ i = Len(rows) + 1)
      BY <1>2
    <3> QED
      BY <1>3, <3>1
  <2> QED
    BY <1>2, <2>1 DEF Forest
<1> QED
  BY <1>2, <1>4, SameTopology

(* A bus no window covers becomes a row, and its call the only one.          *)
LEMMA PushBusStep ==
  ASSUME IInv, PushBus
  PROVE  IInv'
<1> DEFINE bus == Head(buses)
           row == Row("bus", DevicesOn(bus)[1], 0, 0, TRUE)
           n == Len(rows) + 1
<1>1. /\ buses # << >> /\ frames = << >>
      /\ buses' = Tail(buses) /\ rows' = Append(rows, row)
      /\ frames' = <<Frame(bus, Len(rows'), 1)>>
      /\ UNCHANGED <<renderer, topology, unread, windows, crashed>>
  BY DEF PushBus, AtBus
<1>2. /\ renderer \in DOMAIN Topologies /\ topology \in Topologies[renderer]
      /\ buses \in Seq(BusesSeen) /\ rows \in Seq(RowSet) /\ Len(rows) \in Nat
  BY DEF IInv, Types
<1>3. bus \in BusesSeen /\ buses' \in Seq(BusesSeen)
  BY <1>1, <1>2
<1>4. bus \in BusSet
  BY <1>2, <1>3, TopologyFacts, BusOfType DEF BusesSeen
<1>5. DevicesOn(bus) \in Seq(topology.devices) /\ DevicesOn(bus)[1] \in topology.devices
  BY <1>2, <1>3, DevicesOnSeq
<1>6. /\ row \in RowSet
      /\ row.kind = "bus" /\ row.depth = 0 /\ row.parent = 0 /\ row.expandable
  BY <1>5 DEF Row, RowSet
<1> HIDE DEF bus, row
<1>7. rows'[n] = row /\ Len(rows') = n /\ n \in Nat
  BY <1>1, <1>2, <1>6
<1>8. \A i \in Nat : i = n => Hangs(i)'
  <2> SUFFICES ASSUME NEW i \in Nat, i = n
               PROVE  Hangs(i)'
    OBVIOUS
  <2>1. rows'[i] = row
    BY <1>7
  <2> QED
    BY <1>6, <2>1 DEF Hangs
<1>9. /\ rows' \in Seq(RowSet') /\ Forest' /\ DOMAIN rows' = 1..Len(rows')
  BY <1>1, <1>6, <1>8, AppendKeepsForest
<1>10. Frame(bus, Len(rows'), 1) \in FrameSet
       /\ Frame(bus, Len(rows'), 1).parent = n /\ Frame(bus, Len(rows'), 1).depth = 1
  BY <1>4, <1>5, <1>7 DEF Frame, FrameSet
<1>11. /\ frames' \in Seq(FrameSet) /\ DOMAIN frames' = {1}
       /\ frames'[1].parent = n /\ frames'[1].depth = 1
  BY <1>1, <1>10
<1>12. Stack'
  <2> SUFFICES ASSUME NEW i \in DOMAIN frames'
               PROVE  Pushes(i)'
    BY DEF Stack
  <2>1. i = 1
    BY <1>11
  <2>2. frames'[i].parent = n /\ frames'[i].depth = 1
    BY <1>11, <2>1
  <2>3. /\ n \in DOMAIN rows' /\ rows'[n].depth = 0 /\ rows'[n].expandable
        /\ (n + 1)..Len(rows') = {}
    BY <1>6, <1>7, <1>9
  <2> QED
    BY <2>1, <2>2, <2>3 DEF Pushes
<1>13. Types'
  BY <1>1, <1>2, <1>3, <1>9, <1>11, SameTopology DEF IInv, Types
<1> QED
  BY <1>9, <1>12, <1>13 DEF IInv

(* A call returns: the ones that wait for it stay as they are.               *)
LEMMA PopStep ==
  ASSUME IInv, PopFrame
  PROVE  IInv'
<1>1. /\ frames # << >> /\ frames' = SubSeq(frames, 1, Len(frames) - 1)
      /\ UNCHANGED <<renderer, topology, unread, windows, buses, crashed, rows>>
  BY DEF PopFrame, Front
<1>2. frames \in Seq(FrameSet) /\ Len(frames) \in Nat \ {0}
  BY <1>1 DEF IInv, Types
<1>3. /\ frames' \in Seq(FrameSet) /\ DOMAIN frames' = 1..(Len(frames) - 1)
      /\ \A i \in 1..(Len(frames) - 1) : frames'[i] = frames[i]
  BY <1>1, <1>2
<1>4. ASSUME NEW i \in DOMAIN frames'
      PROVE  Pushes(i)'
  <2>1. i \in DOMAIN frames /\ frames'[i] = frames[i]
    BY <1>2, <1>3
  <2>2. Pushes(i)
    BY <2>1 DEF IInv, Stack
  <2> QED
    BY <1>1, <2>1, <2>2 DEF Pushes
<1>5. Stack'
  BY <1>4 DEF Stack
<1>6. Forest'
  BY <1>1 DEF IInv, Forest, Hangs
<1>7. Types'
  BY <1>1, <1>3, SameTopology DEF IInv, Types
<1> QED
  BY <1>5, <1>6, <1>7 DEF IInv

(* The calls that are left of a call's devices.                              *)
LEMMA ExceptTodo ==
  ASSUME NEW B, NEW S, NEW v \in S,
         NEW t \in [bus : B, todo : S, parent : Nat, depth : Nat]
  PROVE  /\ [t EXCEPT !.todo = v] \in [bus : B, todo : S, parent : Nat, depth : Nat]
         /\ [t EXCEPT !.todo = v].bus = t.bus
         /\ [t EXCEPT !.todo = v].todo = v
         /\ [t EXCEPT !.todo = v].parent = t.parent
         /\ [t EXCEPT !.todo = v].depth = t.depth
OBVIOUS

(* What a turn may leave of a call g.                                        *)
SameCall(f, g) ==
  /\ f.parent = g.parent /\ f.depth = g.depth /\ f.bus = g.bus
  /\ Range(f.todo) \subseteq Range(g.todo)

(* The stack after a turn: the calls on it push below the same rows, and     *)
(* above them there may be the new one.                                      *)
MoreCalls(more, calls) ==
  /\ more \in Seq(FrameSet) /\ Len(more) \in {Len(frames), Len(frames) + 1}
  /\ \A i \in DOMAIN frames : /\ i \in DOMAIN more
                              /\ SameCall(more[i], frames[i])
  /\ Len(more) = Len(frames) + 1 => Len(calls) = 1 /\ more[Len(more)] = calls[1]

(* A turn leaves such a stack; a crash leaves it as it was, and full.        *)
LEMMA TurnCalls ==
  ASSUME frames \in Seq(FrameSet), frames # << >>, Last(frames).todo # << >>,
         NEW calls \in Seq(FrameSet), Len(calls) \in {0, 1}, Turn(calls)
  PROVE  /\ MoreCalls(frames', calls)
         /\ \/ crashed' = crashed /\ Len(frames') <= StackSize
            \/ crashed' = TRUE /\ frames' = frames /\ ~(Len(frames) + Len(calls) <= StackSize)
<1> DEFINE n == Len(frames)
           t == frames[n]
           f == [t EXCEPT !.todo = Tail(t.todo)]
           shorter == [frames EXCEPT ![n] = f]
<1>1. n \in Nat \ {0}
  OBVIOUS
<1>2. t \in FrameSet /\ t.todo # << >>
  BY <1>1 DEF Last
<1>3. \/ /\ frames' = shorter \o calls /\ crashed' = crashed
         /\ Len(frames) + Len(calls) <= StackSize
      \/ frames' = frames /\ crashed' = TRUE /\ ~(Len(frames) + Len(calls) <= StackSize)
  BY DEF Turn
<1> HIDE DEF t
<1>4. f \in FrameSet /\ SameCall(f, t)
  <2> DEFINE q == t.todo
  <2>1. q \in Seq(topology.devices) /\ q # << >>
    BY <1>2 DEF FrameSet
  <2> HIDE DEF q
  <2>2. Tail(q) \in Seq(topology.devices)
    BY <2>1
  <2>3. Range(Tail(q)) \subseteq Range(q)
    BY <2>1 DEF Range
  <2> QED
    BY <1>2, <2>2, <2>3, ExceptTodo DEF FrameSet, SameCall, q
<1> HIDE DEF f
<1>5. /\ shorter \in Seq(FrameSet) /\ Len(shorter) = n
      /\ \A i \in 1..n : shorter[i] = IF i = n THEN f ELSE frames[i]
  BY <1>1, <1>4
<1>6. \A i \in 1..n : SameCall(shorter[i], frames[i])
  BY <1>4, <1>5 DEF SameCall, t
<1> HIDE DEF shorter
<1>7. /\ shorter \o calls \in Seq(FrameSet)
      /\ Len(shorter \o calls) = Len(shorter) + Len(calls)
      /\ \A i \in 1..(Len(shorter) + Len(calls)) :
           (shorter \o calls)[i] = IF i <= Len(shorter) THEN shorter[i]
                                   ELSE calls[i - Len(shorter)]
  <2>1. shorter \in Seq(FrameSet)
    BY <1>5
  <2> QED
    BY <2>1, ConcatProperties
<1> DEFINE more == shorter \o calls
<1>8. MoreCalls(more, calls)
  <2>1. more \in Seq(FrameSet) /\ Len(more) = n + Len(calls) /\ DOMAIN more = 1..(n + Len(calls))
    BY <1>1, <1>5, <1>7
  <2>2. \A i \in 1..n : i \in DOMAIN more /\ more[i] = shorter[i]
    BY <1>1, <1>5, <1>7, <2>1
  <2>3. Len(more) = n + 1 => Len(calls) = 1 /\ more[Len(more)] = calls[1]
    <3>1. ASSUME Len(calls) = 1
          PROVE  n + 1 \in 1..(Len(shorter) + Len(calls)) /\ ~(n + 1 <= Len(shorter))
                 /\ (n + 1) - Len(shorter) = 1
      BY <1>1, <1>5, <3>1
    <3> QED
      BY <1>1, <1>7, <2>1, <3>1
  <2>4. ASSUME NEW i \in DOMAIN frames
        PROVE  i \in DOMAIN more /\ SameCall(more[i], frames[i])
    <3>1. i \in 1..n
      OBVIOUS
    <3> QED
      BY <1>6, <2>2, <3>1
  <2>5. Len(more) \in {n, n + 1}
    <3>1. Len(more) = n + Len(calls)
      BY <2>1
    <3> HIDE DEF n, more
    <3>2. CASE Len(calls) = 0
      BY <1>1, <3>1, <3>2
    <3>3. CASE Len(calls) = 1
      BY <1>1, <3>1, <3>3
    <3> QED
      BY <3>2, <3>3
  <2> HIDE DEF more
  <2> QED
    BY <2>1, <2>3, <2>4, <2>5, Zenon DEF MoreCalls
<1>9. MoreCalls(frames, calls)
  <2>1. n # n + 1
    BY <1>1
  <2> QED
    BY <2>1, Zenon DEF MoreCalls, SameCall
<1>10. Len(shorter \o calls) = Len(frames) + Len(calls)
  BY <1>5, <1>7
<1> QED
  BY <1>3, <1>8, <1>9, <1>10

(* A device is pushed below the parent of its call, and the secondary bus of *)
(* a bridge, if the stack holds the call, below its row.                     *)
LEMMA PushDeviceStep ==
  ASSUME IInv, PushDevice
  PROVE  IInv'
<1> DEFINE top == Last(frames)
           a == Head(top.todo)
           k == Len(frames)
           p == top.parent
           row == Row("device", a, top.depth, p, a \in DOMAIN windows)
           n == Len(rows) + 1
           last == Frame(Secondary(a), Len(rows'), top.depth + 1)
           calls == IF a \in DOMAIN windows THEN <<last>> ELSE << >>
<1>1. /\ frames # << >> /\ top.todo # << >> /\ rows' = Append(rows, row)
      /\ Turn(calls)
      /\ UNCHANGED <<renderer, topology, unread, windows, buses>>
  BY DEF PushDevice, AtDevice, Below
<1>2. /\ renderer \in DOMAIN Topologies /\ topology \in Topologies[renderer]
      /\ buses \in Seq(BusesSeen) /\ rows \in Seq(RowSet) /\ Len(rows) \in Nat
      /\ frames \in Seq(FrameSet) /\ crashed \in BOOLEAN
      /\ DOMAIN windows \subseteq Bridges
      /\ \A b \in DOMAIN windows : windows[b] \in Foreign \cup {topology.window[b]}
  BY DEF IInv, Types
<1>3. /\ k \in DOMAIN frames /\ k \in Nat \ {0} /\ DOMAIN frames = 1..k
      /\ top = frames[k] /\ top \in FrameSet
  BY <1>1, <1>2 DEF Last
<1>4. a \in topology.devices
  BY <1>1, <1>3 DEF FrameSet
<1>5. /\ p \in DOMAIN rows /\ top.depth = k /\ rows[p].depth = k - 1 /\ rows[p].expandable
      /\ \A j \in (p + 1)..Len(rows) : rows[j].depth >= k
  BY <1>3 DEF IInv, Stack, Pushes
<1>6. p \in 1..Len(rows)
  BY <1>2, <1>5
<1>7. a \in DOMAIN windows =>
        last \in FrameSet /\ last.parent = Len(rows') /\ last.depth = k + 1
  <2> SUFFICES ASSUME a \in DOMAIN windows
               PROVE  last \in FrameSet /\ last.parent = Len(rows') /\ last.depth = k + 1
    OBVIOUS
  <2>1. windows[a] \in Window
    BY <1>2, TopologyFacts, ForeignAssumption
  <2>2. BusOf(a) \in BusSet
    BY <1>2, <1>4, TopologyFacts, BusOfType
  <2>3. Secondary(a) \in BusSet
    BY <2>1, <2>2 DEF Secondary, Window, BusSet
  <2>4. DevicesOn(Secondary(a)) \in Seq(topology.devices)
    BY <1>2, DevicesOnSeq
  <2>5. Len(rows') \in Nat
    BY <1>1, <1>2
  <2> QED
    BY <1>3, <1>5, <2>3, <2>4, <2>5 DEF Frame, FrameSet
<1> HIDE DEF last
<1>8. /\ calls \in Seq(FrameSet) /\ Len(calls) \in {0, 1}
      /\ Len(calls) = 1 => calls[1] = last /\ a \in DOMAIN windows
  BY <1>7
<1> HIDE DEF calls
<1>16. MoreCalls(frames', calls) /\ crashed' \in {crashed, TRUE}
  BY <1>1, <1>2, <1>8, TurnCalls
<1>9. /\ row \in RowSet /\ row.kind = "device" /\ row.depth = k /\ row.parent = p
      /\ row.expandable = (a \in DOMAIN windows)
  BY <1>2, <1>3, <1>4, <1>5 DEF Row, RowSet, FrameSet
<1> HIDE DEF row, p
<1>10. /\ rows'[n] = row /\ Len(rows') = n /\ n \in Nat
       /\ \A i \in 1..Len(rows) : rows'[i] = rows[i]
  BY <1>1, <1>2, <1>9
<1>11. \A i \in Nat : i = n => Hangs(i)'
  <2> SUFFICES ASSUME NEW i \in Nat, i = n
               PROVE  Hangs(i)'
    OBVIOUS
  <2>1. rows'[i] = row /\ rows'[p] = rows[p] /\ p \in 1..(i - 1)
    BY <1>2, <1>6, <1>10
  <2>2. \A j \in (p + 1)..(i - 1) : rows'[j].depth > rows'[p].depth
    <3>1. \A j \in (p + 1)..(i - 1) :
            j \in 1..Len(rows) /\ j \in (p + 1)..Len(rows) /\ rows[j].depth \in Nat
      <4>1. \A j \in 1..Len(rows) : rows[j].depth \in Nat
        <5>1. \A j \in 1..Len(rows) : rows[j] \in RowSet
          BY <1>2
        <5> QED
          BY <5>1 DEF RowSet
      <4>2. \A j \in (p + 1)..(i - 1) : j \in 1..Len(rows) /\ j \in (p + 1)..Len(rows)
        BY <1>2, <1>6
      <4> QED
        BY <4>1, <4>2
    <3>2. rows'[p].depth = k - 1
      BY <1>5, <2>1
    <3> QED
      BY <1>3, <1>5, <1>10, <3>1, <3>2
  <2> QED
    BY <1>3, <1>5, <1>9, <2>1, <2>2 DEF Hangs
<1>12. /\ rows' \in Seq(RowSet') /\ Forest' /\ DOMAIN rows' = 1..Len(rows')
       /\ \A i \in DOMAIN rows : i \in DOMAIN rows' /\ rows'[i] = rows[i]
  BY <1>1, <1>9, <1>11, AppendKeepsForest
<1>13. Stack'
  <2> SUFFICES ASSUME NEW i \in DOMAIN frames'
               PROVE  Pushes(i)'
    BY DEF Stack
  <2>1. CASE i \in DOMAIN frames
    <3> DEFINE q == frames[i].parent
    <3>1. /\ q \in DOMAIN rows /\ frames[i].depth = i
          /\ rows[q].depth = i - 1 /\ rows[q].expandable
          /\ \A j \in (q + 1)..Len(rows) : rows[j].depth >= i
      BY <2>1 DEF IInv, Stack, Pushes
    <3>2. frames'[i].parent = q /\ frames'[i].depth = i
      BY <1>16, <2>1, <3>1 DEF MoreCalls, SameCall
    <3> HIDE DEF q
    <3>3. q \in DOMAIN rows' /\ rows'[q] = rows[q]
      BY <1>12, <3>1
    <3>4. \A j \in (q + 1)..Len(rows') : rows'[j].depth >= i
      <4> SUFFICES ASSUME NEW j \in (q + 1)..Len(rows')
                   PROVE  rows'[j].depth >= i
        OBVIOUS
      <4>1. q \in 1..Len(rows) /\ i \in 1..k
        BY <1>2, <1>3, <2>1, <3>1
      <4>2. CASE j = n
        BY <1>3, <1>9, <1>10, <4>1, <4>2
      <4>3. CASE j # n
        <5>1. j \in (q + 1)..Len(rows) /\ j \in 1..Len(rows)
          BY <1>2, <1>10, <4>1, <4>3
        <5> QED
          BY <1>10, <3>1, <5>1
      <4> QED
        BY <4>2, <4>3
    <3> QED
      BY <3>1, <3>2, <3>3, <3>4 DEF Pushes
  <2>2. CASE i \notin DOMAIN frames
    <3>1. i = k + 1 /\ Len(frames') = k + 1
      BY <1>3, <1>16, <2>2 DEF MoreCalls
    <3>2. a \in DOMAIN windows /\ frames'[i] = last
      BY <1>3, <1>8, <1>16, <3>1 DEF MoreCalls
    <3>3. frames'[i].parent = n /\ frames'[i].depth = k + 1
      BY <1>7, <1>10, <3>2
    <3>4. n \in DOMAIN rows' /\ (n + 1)..Len(rows') = {}
      BY <1>2, <1>10, <1>12
    <3>5. rows'[n].depth = k /\ rows'[n].expandable
      BY <1>9, <1>10, <3>2
    <3> QED
      BY <1>3, <3>1, <3>3, <3>4, <3>5 DEF Pushes
  <2> QED
    BY <2>1, <2>2
<1>14. frames' \in Seq(FrameSet') /\ crashed' \in BOOLEAN
  BY <1>1, <1>2, <1>16, SameTopology DEF MoreCalls
<1>15. Types'
  BY <1>1, <1>12, <1>14, SameTopology DEF IInv, Types
<1> QED
  BY <1>12, <1>13, <1>15 DEF IInv

(* The types, a forest in preorder, and calls that push below rows nothing   *)
(* has come after but below them: what every step of the program keeps.      *)
THEOREM Invariant == Spec => []IInv
<1>1. IInv /\ [Next]_vars => IInv'
  <2> SUFFICES ASSUME IInv, [Next]_vars
               PROVE  IInv'
    OBVIOUS
  <2>1. CASE ReadWindow \/ WindowUnreadable \/ WindowForeign
    BY <2>1, WindowStep
  <2>2. CASE SkipBus
    BY <2>2, SkipStep
  <2>3. CASE PushBus
    BY <2>3, PushBusStep
  <2>4. CASE PushDevice
    BY <2>4, PushDeviceStep
  <2>5. CASE PopFrame
    BY <2>5, PopStep
  <2>6. CASE UNCHANGED vars
    BY <2>6, SameRows DEF vars, IInv, Types
  <2> QED
    BY <2>1, <2>2, <2>3, <2>4, <2>5, <2>6 DEF Next
<1> QED
  BY InitIInv, <1>1, PTL DEF Spec

(* The rows are a forest in preorder, whatever bus numbers the windows hold: *)
(* of bridges nobody configured, of devices plugged in for a bridge, or of   *)
(* windows that lead back to a bus whose devices are being pushed.           *)
THEOREM TreeAlwaysShaped == Spec => []TreeShape
<1>1. IInv => TreeShape
  <2> SUFFICES ASSUME IInv
               PROVE  TreeShape
    OBVIOUS
  <2>1. Types /\ Forest /\ Stack
    BY DEF IInv
  <2>2. /\ renderer \in {"tui", "cli"} /\ topology \in Topologies[renderer]
        /\ frames \in Seq(FrameSet) /\ rows \in Seq(RowSet) /\ buses \in Seq(BusesSeen)
    BY <2>1, TopologyFacts DEF Types
  <2>3. ASSUME NEW i \in DOMAIN frames
        PROVE  /\ Range(frames[i].todo) \subseteq topology.devices
               /\ frames[i].parent \in DOMAIN rows /\ frames[i].depth = i
    <3>1. frames[i] \in FrameSet
      BY <2>2
    <3>2. frames[i].todo \in Seq(topology.devices)
      BY <3>1 DEF FrameSet
    <3> DEFINE q == frames[i].todo
    <3>3. \A j \in DOMAIN q : q[j] \in topology.devices
      BY <3>2
    <3>4. Range(q) \subseteq topology.devices
      BY <3>3 DEF Range
    <3> QED
      BY <2>1, <3>4 DEF Stack, Pushes
  <2>4. \A i \in DOMAIN rows : rows[i] \in RowSet
    BY <2>2
  <2>5. \A i \in DOMAIN buses : buses[i] \in BusesSeen
    BY <2>2
  <2>6. TypeOK
    BY <2>1, <2>2, <2>3, <2>4, <2>5 DEF TypeOK, Types, RowSet, BusesSeen
  <2>7. ASSUME NEW i \in DOMAIN rows
        PROVE  IF rows[i].kind = "bus" THEN rows[i].depth = 0
               ELSE LET p == rows[i].parent
                    IN /\ p \in 1..(i - 1)
                       /\ rows[p].depth = rows[i].depth - 1 /\ rows[p].expandable
                       /\ \A j \in (p + 1)..(i - 1) : rows[j].depth > rows[p].depth
    BY <2>1 DEF Forest, Hangs
  <2> QED
    BY <2>6, <2>7 DEF TreeShape
<1> QED
  BY <1>1, Invariant, PTL

(* So they are rows as TuiApp assumes them: next_sibling_index, the search   *)
(* for a match below a row and the jump to the parent may rely on that.      *)
THEOREM RowsAlwaysPreorder == Spec => [](rows \in Seq(Range(rows)) /\ Preorder(rows))
<1>1. IInv => rows \in Seq(Range(rows)) /\ Preorder(rows)
  <2> SUFFICES ASSUME IInv
               PROVE  rows \in Seq(Range(rows)) /\ Preorder(rows)
    OBVIOUS
  <2>1. rows \in Seq(RowSet) /\ Forest
    BY DEF IInv, Types
  <2>2. rows \in Seq(Range(rows))
    <3>1. Len(rows) \in Nat /\ rows = [i \in 1..Len(rows) |-> rows[i]]
      BY <2>1
    <3>2. \A i \in 1..Len(rows) : rows[i] \in Range(rows)
      BY <2>1 DEF Range
    <3>3. rows \in [1..Len(rows) -> Range(rows)]
      BY <3>1, <3>2, Zenon
    <3> QED
      BY <3>1, <3>3, IsSequence
  <2>3. ASSUME NEW i \in DOMAIN rows
        PROVE  /\ rows[i].depth \in Nat
               /\ IF rows[i].depth = 0 THEN rows[i].parent = 0 /\ rows[i].expandable
                  ELSE LET p == rows[i].parent
                       IN /\ p \in 1..(i - 1)
                          /\ rows[p].depth = rows[i].depth - 1 /\ rows[p].expandable
                          /\ \A j \in (p + 1)..(i - 1) : rows[j].depth > rows[p].depth
    <3>1. /\ Hangs(i) /\ i \in 1..Len(rows) /\ Len(rows) \in Nat
          /\ \A j \in 1..Len(rows) : rows[j].depth \in Nat
      <4>1. \A j \in 1..Len(rows) : rows[j] \in RowSet
        BY <2>1
      <4> QED
        BY <2>1, <4>1 DEF Forest, RowSet
    <3>2. CASE rows[i].kind = "bus"
      BY <3>1, <3>2 DEF Hangs
    <3>3. CASE rows[i].kind # "bus"
      <4> DEFINE p == rows[i].parent
      <4>1. /\ p \in 1..(i - 1)
            /\ rows[p].depth = rows[i].depth - 1 /\ rows[p].expandable
            /\ \A j \in (p + 1)..(i - 1) : rows[j].depth > rows[p].depth
        BY <3>1, <3>3 DEF Hangs
      <4>2. p \in 1..Len(rows)
        BY <3>1, <4>1
      <4>3. rows[p].depth \in Nat /\ rows[i].depth \in Nat
        BY <3>1, <4>2
      <4>4. rows[i].depth # 0
        BY <4>1, <4>3
      <4> QED
        BY <4>1, <4>3, <4>4
    <3> QED
      BY <3>2, <3>3
  <2> QED
    BY <2>2, <2>3 DEF Preorder
<1> QED
  BY <1>1, Invariant, PTL

-----------------------------------------------------------------------------
(* The calls on the stack follow the windows of bridges, one to the next,    *)
(* and after a crash the next one would have done so too.                    *)

Leads(b, c) == \E a \in DOMAIN windows : BusOf(a) = b /\ c = Secondary(a)

Follows(i) ==
  /\ \A a \in Range(frames[i].todo) : BusOf(a) = frames[i].bus
  /\ IF i = 1 THEN frames[i].bus \in BusesSeen ELSE Leads(frames[i - 1].bus, frames[i].bus)

Crash ==
  /\ frames # << >> /\ Last(frames).todo # << >>
  /\ Head(Last(frames).todo) \in DOMAIN windows
  /\ ~(Len(frames) + 1 <= StackSize)

StackInv ==
  /\ Len(frames) <= StackSize
  /\ frames # << >> => unread = {}
  /\ \A i \in DOMAIN frames : Follows(i)
  /\ crashed => Crash

(* While no call is active the windows may still change.                     *)
LEMMA NoCallStep ==
  ASSUME frames' = << >>, crashed' = FALSE
  PROVE  StackInv'
BY StackAssumption DEF StackInv

(* The windows stay, and so does what the calls follow.                      *)
LEMMA SameCalls ==
  ASSUME StackInv, UNCHANGED <<renderer, topology, unread, windows, frames, crashed>>
  PROVE  StackInv'
<1>1. \A i : Follows(i)' <=> Follows(i)
  BY DEF Follows, Leads, Secondary, BusOf, BusesSeen
<1>2. Crash' <=> Crash
  BY DEF Crash, Last
<1> QED
  BY <1>1, <1>2 DEF StackInv

(* A bus no window covers is one a device is on.                             *)
LEMMA PushBusCalls ==
  ASSUME IInv, StackInv, PushBus
  PROVE  StackInv'
<1> DEFINE bus == Head(buses)
<1>1. /\ buses # << >> /\ frames = << >> /\ unread = {}
      /\ frames' = <<Frame(bus, Len(rows'), 1)>>
      /\ UNCHANGED <<renderer, topology, unread, windows, crashed>>
  BY DEF PushBus, AtBus
<1>2. /\ renderer \in DOMAIN Topologies /\ topology \in Topologies[renderer]
      /\ buses \in Seq(BusesSeen)
  BY DEF IInv, Types
<1>3. bus \in BusesSeen
  BY <1>1, <1>2
<1> HIDE DEF bus
<1>4. \A a \in Range(DevicesOn(bus)) : BusOf(a) = bus
  BY <1>2, DevicesOnSeq
<1>5. /\ DOMAIN frames' = {1} /\ Len(frames') = 1 /\ frames'[1].bus = bus
      /\ frames'[1].todo = DevicesOn(bus)
  BY <1>1 DEF Frame
<1>6. \A i \in DOMAIN frames' : Follows(i)'
  <2>1. frames'[1].bus \in BusesSeen'
    BY <1>1, <1>3, <1>5, SameTopology
  <2>2. \A a \in Range(frames'[1].todo) : BusOf(a)' = frames'[1].bus
    BY <1>1, <1>4, <1>5 DEF BusOf
  <2> QED
    BY <1>5, <2>1, <2>2 DEF Follows
<1>7. ~crashed
  BY <1>1 DEF StackInv, Crash
<1> QED
  BY <1>1, <1>5, <1>6, <1>7, StackAssumption DEF StackInv

(* A call that returns leaves the ones below it.                             *)
LEMMA PopCalls ==
  ASSUME IInv, StackInv, PopFrame
  PROVE  StackInv'
<1>1. /\ frames # << >> /\ frames' = SubSeq(frames, 1, Len(frames) - 1) /\ ~crashed
      /\ UNCHANGED <<renderer, topology, unread, windows, buses, crashed, rows>>
  BY DEF PopFrame, Front
<1>2. frames \in Seq(FrameSet) /\ Len(frames) \in Nat \ {0}
  BY <1>1 DEF IInv, Types
<1>3. /\ DOMAIN frames' = 1..(Len(frames) - 1) /\ Len(frames') = Len(frames) - 1
      /\ \A i \in 1..(Len(frames) - 1) : frames'[i] = frames[i]
  <2>1. /\ DOMAIN frames' = 1..(Len(frames) - 1)
        /\ \A i \in 1..(Len(frames) - 1) : frames'[i] = frames[i]
    BY <1>1, <1>2
  <2>2. Len(frames') = Len(frames) - 1
    <3>1. frames' \in Seq(FrameSet)
      BY <1>1, <1>2
    <3> QED
      BY <1>2, <2>1, <3>1
  <2> QED
    BY <2>1, <2>2
<1>4. ASSUME NEW i \in DOMAIN frames'
      PROVE  Follows(i)'
  <2>1. i \in DOMAIN frames /\ frames'[i] = frames[i] /\ (i # 1 => frames'[i - 1] = frames[i - 1])
    BY <1>2, <1>3
  <2>2. Follows(i)
    BY <2>1 DEF StackInv
  <2>3. \A a \in Range(frames'[i].todo) : BusOf(a)' = frames'[i].bus
    BY <1>1, <2>1, <2>2 DEF Follows, BusOf
  <2>4. CASE i = 1
    <3>1. frames'[i].bus \in BusesSeen'
      BY <1>1, <2>1, <2>2, <2>4, SameTopology DEF Follows
    <3> QED
      BY <2>3, <2>4, <3>1 DEF Follows
  <2>5. CASE i # 1
    <3>1. Leads(frames'[i - 1].bus, frames'[i].bus)
      BY <2>1, <2>2, <2>5 DEF Follows
    <3>2. \E d \in DOMAIN windows' :
            BusOf(d)' = frames'[i - 1].bus /\ frames'[i].bus = Secondary(d)'
      BY <1>1, <3>1 DEF Leads, Secondary, BusOf
    <3> QED
      BY <2>3, <2>5, <3>2 DEF Follows, Leads
  <2> QED
    BY <2>4, <2>5
<1>5. Len(frames') <= StackSize
  BY <1>2, <1>3, StackAssumption DEF StackInv
<1> QED
  BY <1>1, <1>4, <1>5 DEF StackInv

(* A device that is no bridge, or a bridge whose window leads on.            *)
LEMMA PushDeviceCalls ==
  ASSUME IInv, StackInv, PushDevice
  PROVE  StackInv'
<1> DEFINE top == Last(frames)
           a == Head(top.todo)
           k == Len(frames)
           last == Frame(Secondary(a), Len(rows'), top.depth + 1)
           calls == IF a \in DOMAIN windows THEN <<last>> ELSE << >>
<1>1. /\ frames # << >> /\ top.todo # << >> /\ ~crashed /\ Turn(calls)
      /\ UNCHANGED <<renderer, topology, unread, windows, buses>>
      /\ rows' = Append(rows, Row("device", a, top.depth, top.parent, a \in DOMAIN windows))
  BY DEF PushDevice, AtDevice, Below
<1>2. /\ renderer \in DOMAIN Topologies /\ topology \in Topologies[renderer]
      /\ frames \in Seq(FrameSet) /\ DOMAIN windows \subseteq Bridges /\ rows \in Seq(RowSet)
      /\ \A b \in DOMAIN windows : windows[b] \in Foreign \cup {topology.window[b]}
  BY DEF IInv, Types
<1>3. k \in Nat \ {0} /\ k \in DOMAIN frames /\ top = frames[k] /\ top \in FrameSet
  BY <1>1, <1>2 DEF Last
<1>4. a \in Range(top.todo)
  <2> DEFINE q == top.todo
  <2>1. q \in Seq(topology.devices) /\ q # << >>
    BY <1>1, <1>3 DEF FrameSet
  <2> HIDE DEF q
  <2>2. Head(q) \in Range(q)
    BY <2>1 DEF Range
  <2> QED
    BY <2>2 DEF q
<1>5. BusOf(a) = frames[k].bus
  BY <1>3, <1>4 DEF StackInv, Follows
<1>6. a \in DOMAIN windows => /\ last \in FrameSet /\ last.bus = Secondary(a)
                              /\ last.todo = DevicesOn(Secondary(a))
  <2> SUFFICES ASSUME a \in DOMAIN windows
               PROVE  /\ last \in FrameSet /\ last.bus = Secondary(a)
                      /\ last.todo = DevicesOn(Secondary(a))
    OBVIOUS
  <2>1. windows[a] \in Window
    BY <1>2, TopologyFacts, ForeignAssumption
  <2>2. BusOf(a) \in BusSet
    BY <1>2, TopologyFacts, BusOfType
  <2>3. Secondary(a) \in BusSet
    BY <2>1, <2>2 DEF Secondary, Window, BusSet
  <2>4. DevicesOn(Secondary(a)) \in Seq(topology.devices)
    BY <1>2, DevicesOnSeq
  <2>5. Len(rows') \in Nat /\ top.depth \in Nat
    <3>1. top.depth \in Nat
      BY <1>3 DEF FrameSet
    <3>2. Len(rows') = Len(rows) + 1 /\ Len(rows) \in Nat
      BY <1>1, <1>2
    <3> QED
      BY <3>1, <3>2
  <2> QED
    BY <2>3, <2>4, <2>5 DEF Frame, FrameSet
<1> HIDE DEF last
<1>7. /\ calls \in Seq(FrameSet) /\ Len(calls) \in {0, 1}
      /\ Len(calls) = 1 => calls[1] = last /\ a \in DOMAIN windows
  BY <1>6
<1> HIDE DEF calls
<1>8. /\ MoreCalls(frames', calls)
      /\ \/ crashed' = crashed /\ Len(frames') <= StackSize
         \/ crashed' = TRUE /\ frames' = frames /\ ~(k + Len(calls) <= StackSize)
  BY <1>1, <1>2, <1>7, TurnCalls
<1>9. unread' = {}
  BY <1>1 DEF StackInv
<1>10. ASSUME NEW b, NEW c
       PROVE  Leads(b, c)' <=> Leads(b, c)
  BY <1>1 DEF Leads, Secondary, BusOf
<1>11. \A i \in DOMAIN frames' : Follows(i)'
  <2> SUFFICES ASSUME NEW i \in DOMAIN frames'
               PROVE  Follows(i)'
    OBVIOUS
  <2>1. CASE i \in DOMAIN frames
    <3>1. /\ SameCall(frames'[i], frames[i])
          /\ i # 1 => i - 1 \in DOMAIN frames /\ SameCall(frames'[i - 1], frames[i - 1])
      <4>1. i # 1 => i - 1 \in DOMAIN frames
        BY <1>2, <2>1
      <4> QED
        BY <1>8, <2>1, <4>1 DEF MoreCalls
    <3>2. Follows(i)
      BY <2>1 DEF StackInv
    <3>3. \A b \in Range(frames'[i].todo) : BusOf(b)' = frames'[i].bus
      BY <1>1, <3>1, <3>2 DEF SameCall, Follows, BusOf
    <3>4. CASE i = 1
      <4>1. frames'[i].bus \in BusesSeen'
        BY <1>1, <3>1, <3>2, <3>4, SameTopology DEF SameCall, Follows
      <4> QED
        BY <3>3, <3>4, <4>1 DEF Follows
    <3>5. CASE i # 1
      <4>1. Leads(frames[i - 1].bus, frames[i].bus)
        BY <3>2, <3>5 DEF Follows
      <4>2. frames'[i].bus = frames[i].bus /\ frames'[i - 1].bus = frames[i - 1].bus
        BY <3>1, <3>5 DEF SameCall
      <4>3. \E d \in DOMAIN windows' :
              BusOf(d)' = frames'[i - 1].bus /\ frames'[i].bus = Secondary(d)'
        BY <1>1, <4>1, <4>2 DEF Leads, Secondary, BusOf
      <4> QED
        BY <3>3, <3>5, <4>3 DEF Follows, Leads
    <3> QED
      BY <3>4, <3>5
  <2>2. CASE i \notin DOMAIN frames
    <3>1. i = k + 1 /\ Len(frames') = k + 1
      BY <1>2, <1>3, <1>8, <2>2 DEF MoreCalls
    <3>2. a \in DOMAIN windows /\ frames'[i] = last
      BY <1>3, <1>7, <1>8, <3>1 DEF MoreCalls
    <3>3. frames'[i].bus = Secondary(a) /\ frames'[i].todo = DevicesOn(Secondary(a))
      BY <1>6, <3>2
    <3>4. \A b \in Range(DevicesOn(Secondary(a))) : BusOf(b) = Secondary(a)
      BY <1>2, DevicesOnSeq
    <3>5. \A b \in Range(frames'[i].todo) : BusOf(b)' = frames'[i].bus
      BY <1>1, <3>3, <3>4 DEF BusOf
    <3>6. frames'[i - 1].bus = BusOf(a)
      <4>1. i - 1 = k
        BY <1>3, <3>1
      <4>2. SameCall(frames'[k], frames[k])
        BY <1>3, <1>8 DEF MoreCalls
      <4> QED
        BY <1>5, <4>1, <4>2 DEF SameCall
    <3>7. \E d \in DOMAIN windows' :
            BusOf(d)' = frames'[i - 1].bus /\ frames'[i].bus = Secondary(d)'
      BY <1>1, <3>2, <3>3, <3>6 DEF Secondary, BusOf
    <3>8. i # 1
      BY <1>3, <3>1
    <3> QED
      BY <3>5, <3>7, <3>8 DEF Follows, Leads
  <2> QED
    BY <2>1, <2>2
<1>12. crashed' => Crash'
  <2> SUFFICES ASSUME crashed'
               PROVE  Crash'
    OBVIOUS
  <2>1. frames' = frames /\ ~(k + Len(calls) <= StackSize)
    BY <1>1, <1>8
  <2>2. Len(calls) # 0
    BY <1>3, <2>1, StackAssumption DEF StackInv
  <2>3. ASSUME Len(calls) = 1
        PROVE  Crash'
    BY <1>1, <1>7, <2>1, <2>3 DEF Crash, Last
  <2> QED
    BY <1>7, <2>2, <2>3
<1>13. Len(frames') <= StackSize
  BY <1>8 DEF StackInv
<1> QED
  BY <1>9, <1>11, <1>12, <1>13 DEF StackInv

(* The stack holds calls that follow the windows in every reachable state.   *)
THEOREM CallsFollowWindows == Spec => [](IInv /\ StackInv)
<1>1. Init => StackInv
  BY StackAssumption DEF Init, StackInv
<1>2. IInv /\ StackInv /\ [Next]_vars => StackInv'
  <2> SUFFICES ASSUME IInv, StackInv, [Next]_vars
               PROVE  StackInv'
    OBVIOUS
  <2>1. ASSUME frames = << >>, UNCHANGED <<frames, crashed>>
        PROVE  StackInv'
    <3>1. ~crashed /\ crashed \in BOOLEAN
      BY <2>1 DEF StackInv, Crash, IInv, Types
    <3> QED
      BY <2>1, <3>1, NoCallStep
  <2>2. CASE ReadWindow \/ WindowUnreadable \/ WindowForeign
    <3>1. unread # {} /\ UNCHANGED <<frames, crashed>>
      BY <2>2 DEF ReadWindow, WindowUnreadable, WindowForeign, Visit
    <3> QED
      BY <2>1, <3>1 DEF StackInv
  <2>3. CASE SkipBus
    BY <2>1, <2>3 DEF SkipBus, AtBus
  <2>4. CASE PushBus
    BY <2>4, PushBusCalls
  <2>5. CASE PushDevice
    BY <2>5, PushDeviceCalls
  <2>6. CASE PopFrame
    BY <2>6, PopCalls
  <2>7. CASE UNCHANGED vars
    BY <2>7, SameCalls DEF vars
  <2> QED
    BY <2>2, <2>3, <2>4, <2>5, <2>6, <2>7 DEF Next
<1>3. Spec => []IInv
  BY Invariant
<1> QED
  BY <1>1, <1>2, <1>3, PTL DEF Spec

(* Of more buses of a domain than there are numbers two are the same.        *)
LEMMA BusRepeats ==
  ASSUME NEW n \in Nat, NEW m \in Nat, n < m, NEW c \in [1..m -> BusSet],
         \A i \in 1..m : c[i].bus < n,
         \A i \in 1..m : i + 1 \in 1..m => c[i + 1].domain = c[i].domain
  PROVE  \E i, j \in 1..m : i # j /\ c[i] = c[j]
<1> DEFINE f == [i \in 1..m |-> c[i].bus]
           D == {k \in Nat : k + 1 \in 1..m => c[k + 1].domain = c[1].domain}
<1>1. \A i \in 1..m : /\ c[i].bus \in Nat
                      /\ c[i] = [domain |-> c[i].domain, bus |-> c[i].bus]
  BY DEF BusSet
<1>2. f \in [1..m -> 0..n - 1]
  BY <1>1
<1>3. /\ IsFiniteSet(1..m) /\ IsFiniteSet(0..n - 1)
      /\ Cardinality(0..n - 1) < Cardinality(1..m)
  <2>1. IsFiniteSet(1..m) /\ Cardinality(1..m) = m
    BY FS_Interval
  <2>2. IsFiniteSet(0..n - 1) /\ Cardinality(0..n - 1) = n
    BY NumbersBelow
  <2> QED
    BY <2>1, <2>2
<1>4. PICK i, j \in 1..m : i # j /\ f[i] = f[j]
  <2> DEFINE S == 1..m
             T == 0..n - 1
  <2>1. f \in [S -> T] /\ IsFiniteSet(S) /\ IsFiniteSet(T) /\ Cardinality(T) < Cardinality(S)
    BY <1>2, <1>3
  <2> HIDE DEF f, S, T
  <2>2. \E i, j \in S : i # j /\ f[i] = f[j]
    BY <2>1, FS_PigeonHole
  <2> QED
    BY <2>2 DEF S
<1>5. 0 \in D
  OBVIOUS
<1>6. ASSUME NEW k \in Nat, k \in D
      PROVE  k + 1 \in D
  <2>1. ASSUME (k + 1) + 1 \in 1..m
        PROVE  c[(k + 1) + 1].domain = c[1].domain
    <3>1. k + 1 \in 1..m
      BY <2>1
    <3> QED
      BY <1>6, <2>1, <3>1
  <2> QED
    BY <2>1
<1>7. \A k \in Nat : k \in D
  <2> HIDE DEF D
  <2> QED
    BY <1>5, <1>6, Induct
<1>8. \A k \in 1..m : c[k].domain = c[1].domain
  <2> SUFFICES ASSUME NEW k \in 1..m
               PROVE  c[k].domain = c[1].domain
    OBVIOUS
  <2>1. k - 1 \in Nat /\ (k - 1) + 1 = k
    OBVIOUS
  <2>2. k - 1 \in D
    BY <1>7, <2>1
  <2> QED
    BY <2>1, <2>2
<1> QED
  BY <1>1, <1>4, <1>8

(* Nor can that many of them rise one after the other.                       *)
LEMMA BusesCannotRise ==
  ASSUME NEW n \in Nat, NEW m \in Nat, n < m, NEW c \in [1..m -> BusSet],
         \A i \in 1..m : c[i].bus < n,
         \A i \in 1..m : i + 1 \in 1..m => c[i].bus < c[i + 1].bus
  PROVE  FALSE
<1> DEFINE D == {k \in Nat : k + 1 \in 1..m => k <= c[k + 1].bus}
<1>1. \A i \in 1..m : c[i].bus \in Nat
  BY DEF BusSet
<1>2. 0 \in D
  BY <1>1
<1>3. ASSUME NEW k \in Nat, k \in D
      PROVE  k + 1 \in D
  <2>1. ASSUME (k + 1) + 1 \in 1..m
        PROVE  k + 1 <= c[(k + 1) + 1].bus
    <3>1. k + 1 \in 1..m
      BY <2>1
    <3>2. k <= c[k + 1].bus /\ c[k + 1].bus < c[(k + 1) + 1].bus
      BY <1>3, <2>1, <3>1
    <3>3. c[k + 1].bus \in Nat /\ c[(k + 1) + 1].bus \in Nat
      BY <1>1, <2>1, <3>1
    <3> QED
      BY <3>2, <3>3
  <2> QED
    BY <2>1
<1>4. \A k \in Nat : k \in D
  <2> HIDE DEF D
  <2> QED
    BY <1>2, <1>3, Induct
<1>5. m - 1 \in D /\ (m - 1) + 1 = m /\ m - 1 \in Nat
  BY <1>4
<1>6. m \in 1..m
  OBVIOUS
<1>7. m - 1 <= c[m].bus /\ c[m].bus < n /\ c[m].bus \in Nat
  BY <1>1, <1>5, <1>6
<1> QED
  BY <1>7

(* The calls of a crash, the one that did not fit included.                  *)
CrashCalls ==
  [i \in DOMAIN frames |-> frames[i].bus] \o <<Secondary(Head(Last(frames).todo))>>

(* Every window leads to a higher bus.                                       *)
Rising == \A b \in DOMAIN windows : b.bus < windows[b].secondary

(* Where a call leads.                                                       *)
LEMMA LeadsUp ==
  ASSUME BusNumbersFit(Topologies), IInv, NEW b, NEW c, Leads(b, c)
  PROVE  /\ b \in BusSet /\ c \in BusSet /\ c.domain = b.domain
         /\ b.bus < StackSize /\ c.bus < StackSize
         /\ Rising => b.bus < c.bus
<1>1. PICK a \in DOMAIN windows : b = BusOf(a) /\ c = Secondary(a)
  BY DEF Leads
<1>2. /\ renderer \in DOMAIN Topologies /\ topology \in Topologies[renderer]
      /\ a \in Bridges /\ windows[a] \in Foreign \cup {topology.window[a]}
  BY DEF IInv, Types
<1>3. a \in topology.devices /\ a \in Address /\ windows[a] \in Window
  BY <1>2, TopologyFacts, ForeignAssumption
<1>4. b \in BusSet /\ b.bus = a.bus
  BY <1>1, <1>3, BusOfType DEF BusOf
<1>5. c \in BusSet /\ c.domain = b.domain /\ c.bus = windows[a].secondary
  BY <1>1, <1>3, <1>4 DEF Secondary, Window, BusSet
<1>6. /\ a.bus < StackSize /\ topology.window[a].secondary < StackSize
      /\ \A w \in Foreign : w.secondary < StackSize
  BY <1>2, <1>3 DEF BusNumbersFit, Bridges
<1>7. windows[a].secondary < StackSize
  BY <1>2, <1>6
<1>8. Rising => a.bus < windows[a].secondary
  BY <1>1 DEF Rising
<1> QED
  BY <1>4, <1>5, <1>6, <1>7, <1>8

(* The calls of a crash lead from one to the next.                           *)
LEMMA CrashCallsLead ==
  ASSUME IInv, StackInv, crashed
  PROVE  /\ Len(frames) \in Nat \ {0} /\ StackSize < Len(frames) + 1
         /\ CrashCalls \in [1..(Len(frames) + 1) -> BusSet]
         /\ CrashCalls[1] \in BusesSeen
         /\ \A i \in 1..Len(frames) : Leads(CrashCalls[i], CrashCalls[i + 1])
<1> DEFINE k == Len(frames)
           a == Head(Last(frames).todo)
           q == [i \in DOMAIN frames |-> frames[i].bus]
           next == Secondary(a)
<1>1. /\ frames # << >> /\ Last(frames).todo # << >> /\ a \in DOMAIN windows
      /\ ~(k + 1 <= StackSize) /\ \A i \in DOMAIN frames : Follows(i)
  BY DEF StackInv, Crash
<1>2. /\ renderer \in DOMAIN Topologies /\ topology \in Topologies[renderer]
      /\ frames \in Seq(FrameSet) /\ DOMAIN windows \subseteq Bridges
      /\ \A b \in DOMAIN windows : windows[b] \in Foreign \cup {topology.window[b]}
  BY DEF IInv, Types
<1>3. k \in Nat \ {0} /\ DOMAIN frames = 1..k /\ Last(frames) = frames[k]
  BY <1>1, <1>2 DEF Last
<1>4. StackSize < k + 1
  BY <1>1, <1>3, StackAssumption
<1>5. a \in Range(frames[k].todo) /\ BusOf(a) = frames[k].bus
  <2> DEFINE t == frames[k].todo
  <2>1. frames[k] \in FrameSet
    BY <1>2, <1>3
  <2>2. t \in Seq(topology.devices) /\ t # << >>
    BY <1>1, <1>3, <2>1 DEF FrameSet
  <2> HIDE DEF t
  <2>3. Head(t) \in Range(t)
    BY <2>2 DEF Range
  <2>4. Follows(k)
    BY <1>1, <1>3
  <2> QED
    BY <1>3, <2>3, <2>4 DEF Follows, t
<1>6. next \in BusSet
  <2>1. windows[a] \in Window /\ BusOf(a) \in BusSet
    BY <1>1, <1>2, TopologyFacts, ForeignAssumption, BusOfType
  <2> QED
    BY <2>1 DEF Secondary, Window, BusSet
<1>7. Leads(frames[k].bus, next)
  BY <1>1, <1>5 DEF Leads
<1> HIDE DEF next
<1>8. q \in [1..k -> BusSet] /\ \A i \in 1..k : q[i] = frames[i].bus
  <2>1. \A i \in 1..k : frames[i] \in FrameSet
    BY <1>2
  <2>2. \A i \in 1..k : frames[i].bus \in BusSet
    BY <2>1 DEF FrameSet
  <2> QED
    BY <1>3, <2>2
<1>9. CrashCalls = q \o <<next>>
  BY DEF CrashCalls, next
<1> HIDE DEF q
<1>10. q \in Seq(BusSet) /\ Len(q) = k
  BY <1>3, <1>8, IsSequence
<1>11. /\ Len(<<next>>) = 1 /\ <<next>>[1] = next /\ <<next>> \in Seq(BusSet)
  BY <1>6
<1>12. /\ CrashCalls \in Seq(BusSet) /\ Len(CrashCalls) = k + 1
       /\ \A i \in 1..(k + 1) : CrashCalls[i] = IF i <= k THEN q[i] ELSE <<next>>[i - k]
  BY <1>9, <1>10, <1>11, ConcatProperties
<1>13. /\ \A i \in 1..k : CrashCalls[i] = frames[i].bus
       /\ CrashCalls[k + 1] = next
  <2>1. \A i \in 1..k : i \in 1..(k + 1) /\ i <= k
    BY <1>3
  <2>2. k + 1 \in 1..(k + 1) /\ ~(k + 1 <= k) /\ (k + 1) - k = 1
    BY <1>3
  <2>3. CrashCalls[k + 1] = <<next>>[1]
    BY <1>12, <2>2
  <2> QED
    BY <1>8, <1>11, <1>12, <2>1, <2>3
<1>14. CrashCalls \in [1..(k + 1) -> BusSet]
  BY <1>3, <1>12
<1> HIDE DEF k
<1>15. CrashCalls[1] \in BusesSeen
  <2>1. 1 \in 1..k /\ Follows(1)
    BY <1>1, <1>3
  <2> QED
    BY <1>13, <2>1 DEF Follows
<1>16. ASSUME NEW i \in 1..k
       PROVE  Leads(CrashCalls[i], CrashCalls[i + 1])
  <2>1. CASE i = k
    BY <1>7, <1>13, <2>1
  <2>2. CASE i # k
    <3>1. i + 1 \in 1..k /\ i + 1 # 1 /\ (i + 1) - 1 = i
      BY <1>3, <2>2
    <3>2. Follows(i + 1)
      BY <1>1, <1>3, <3>1
    <3>3. Leads(frames[i].bus, frames[i + 1].bus)
      BY <3>1, <3>2 DEF Follows
    <3> QED
      BY <1>13, <3>1, <3>3
  <2> QED
    BY <2>1, <2>2
<1> QED
  BY <1>3, <1>4, <1>14, <1>15, <1>16 DEF k

(* Whatever the windows hold, a stack with a call for each bus number        *)
(* overflows only when push_bus_devices is back at a bus it is still pushing,*)
(* along a window that leads to its bridge's own bus or a lower one.         *)
THEOREM StackAlwaysSuffices ==
  ASSUME BusNumbersFit(Topologies)
  PROVE  Spec => []StackSuffices
<1>1. IInv /\ StackInv => StackSuffices
  <2> SUFFICES ASSUME IInv, StackInv, crashed
               PROVE  /\ \E i, j \in DOMAIN CrashCalls :
                           i # j /\ CrashCalls[i] = CrashCalls[j]
                      /\ \E b \in DOMAIN windows : windows[b].secondary <= b.bus
    BY DEF StackSuffices, CrashCalls
  <2> DEFINE m == Len(frames) + 1
             c == CrashCalls
  <2>1. /\ m \in Nat \ {0} /\ m - 1 = Len(frames) /\ StackSize \in Nat /\ StackSize < m
        /\ c \in [1..m -> BusSet]
        /\ \A i \in 1..(m - 1) : Leads(c[i], c[i + 1])
    BY CrashCallsLead, StackAssumption
  <2> HIDE DEF m, c
  <2>2. \A i \in 1..m : i + 1 \in 1..m => i \in 1..(m - 1)
    BY <2>1
  <2>3. \A i \in 1..m : i + 1 \in 1..m => /\ c[i + 1].domain = c[i].domain
                                          /\ c[i].bus < StackSize /\ c[i + 1].bus < StackSize
                                          /\ Rising => c[i].bus < c[i + 1].bus
    BY <2>1, <2>2, LeadsUp
  <2>4. \A i \in 1..m : c[i].bus < StackSize
    <3> SUFFICES ASSUME NEW i \in 1..m
                 PROVE  c[i].bus < StackSize
      OBVIOUS
    <3>1. CASE i + 1 \in 1..m
      BY <2>3, <3>1
    <3>2. CASE i + 1 \notin 1..m
      <4>1. i = m /\ i - 1 \in 1..m /\ (i - 1) + 1 = i
        BY <2>1, <3>2, StackAssumption
      <4> QED
        BY <2>3, <4>1
    <3> QED
      BY <3>1, <3>2
  <2>5. \E i, j \in 1..m : i # j /\ c[i] = c[j]
    BY <2>1, <2>3, <2>4, BusRepeats
  <2>6. ~Rising
    BY <2>1, <2>3, <2>4, BusesCannotRise
  <2>8. \E b \in DOMAIN windows : windows[b].secondary <= b.bus
    <3>1. PICK b \in DOMAIN windows : ~(b.bus < windows[b].secondary)
      BY <2>6 DEF Rising
    <3>2. b \in Bridges /\ windows[b] \in Foreign \cup {topology.window[b]}
          /\ renderer \in DOMAIN Topologies /\ topology \in Topologies[renderer]
      BY <3>1 DEF IInv, Types
    <3>3. b \in Address /\ windows[b] \in Window
      BY <3>2, TopologyFacts, ForeignAssumption
    <3>4. b.bus \in Nat /\ windows[b].secondary \in Nat
      BY <3>3 DEF Address, Window
    <3> QED
      BY <3>1, <3>4
  <2>7. DOMAIN c = 1..m
    BY <2>1
  <2> QED
    BY <2>5, <2>7, <2>8 DEF c
<1> QED
  BY <1>1, CallsFollowWindows, PTL

-----------------------------------------------------------------------------
(* Where firmware nests the windows, following secondary buses leads to the  *)
(* innermost window.                                                         *)

(* The bridges whose window holds a bus, as the tree tells domains apart.    *)
Over(bus) ==
  {b \in DOMAIN windows : BusOf(b).domain = bus.domain /\ InWindow(windows[b], bus.bus)}

(* What hangs from a row at a depth, if it is a device on the bus.           *)
Belongs(depth, row, bus) ==
  /\ depth = 1 + Cardinality(Over(bus))
  /\ IF Over(bus) = {} THEN row.kind = "bus" /\ row.at.bus = bus.bus
     ELSE row.at \in Over(bus) /\ \A b \in Over(bus) : Size(row.at) <= Size(b)

RowBelongs(i) ==
  rows[i].kind = "device" =>
    Belongs(rows[i].depth, rows[rows[i].parent], BusOf(rows[i].at))

CallBelongs(i) == Belongs(frames[i].depth, rows[frames[i].parent], frames[i].bus)

InnerInv ==
  /\ rows # << >> => unread = {}
  /\ AsConfigured => /\ \A i \in DOMAIN rows : RowBelongs(i)
                 /\ \A i \in DOMAIN frames : CallBelongs(i)

(* Unless domains are merged, devices the tree takes for ones of the same    *)
(* domain are.                                                               *)
LEMMA DomainsApart ==
  ASSUME IInv, ~DomainsMerged, NEW a \in topology.devices, NEW b \in topology.devices
  PROVE  BusOf(a).domain = BusOf(b).domain <=> a.domain = b.domain
<1> DEFINE D == {d.domain : d \in topology.devices}
<1>1. /\ renderer \in {"tui", "cli"} /\ IsFiniteSet(topology.devices)
  BY TopologyFacts DEF IInv, Types
<1>2. CASE renderer = "tui"
  BY <1>2 DEF BusOf
<1>3. CASE renderer = "cli"
  <2> DEFINE of == [d \in topology.devices |-> d.domain]
  <2>1. IsFiniteSet(D)
    <3>1. of \in Surjection(topology.devices, D)
      BY DEF Surjection
    <3> QED
      BY <3>1, <1>1, FS_Surjection
  <2>2. Cardinality(D) \in Nat /\ Cardinality(D) <= 1
    BY <1>3, <2>1, FS_CardinalityType DEF DomainsMerged
  <2>3. a.domain \in D /\ b.domain \in D
    OBVIOUS
  <2> HIDE DEF D
  <2>4. a.domain = b.domain
    <3> DEFINE x == a.domain
               y == b.domain
               P == {x, y}
    <3> SUFFICES ASSUME x # y
                 PROVE  FALSE
      OBVIOUS
    <3>1. P \subseteq D
      BY <2>3
    <3> HIDE DEF x, y
    <3>2. Cardinality({x}) = 1 /\ IsFiniteSet({x})
      BY FS_Singleton
    <3>3. Cardinality({x} \cup {y}) = 2
      BY <3>2, FS_AddElement
    <3>4. {x} \cup {y} \subseteq D
      BY <3>1
    <3>5. Cardinality({x} \cup {y}) <= Cardinality(D)
      BY <2>1, <3>4, FS_Subset
    <3> QED
      BY <2>2, <3>3, <3>5
  <2> QED
    BY <1>3, <2>4 DEF BusOf
<1> QED
  BY <1>1, <1>2, <1>3

(* The windows over the secondary bus of a bridge are its own and those over *)
(* the bus it sits on, none of which is smaller.                             *)
LEMMA OverSecondary ==
  ASSUME IInv, AsConfigured, NEW a \in DOMAIN windows
  PROVE  /\ IsFiniteSet(Over(BusOf(a))) /\ a \notin Over(BusOf(a))
         /\ Over(Secondary(a)) = Over(BusOf(a)) \cup {a}
         /\ \A b \in Over(BusOf(a)) : Size(a) <= Size(b)
         /\ Size(a) <= Size(a)
<1>1. /\ renderer \in DOMAIN Topologies /\ topology \in Topologies[renderer]
      /\ DOMAIN windows \subseteq Bridges
  BY DEF IInv, Types
<1>2. /\ Bridges \subseteq topology.devices /\ IsFiniteSet(topology.devices)
      /\ \A b \in Bridges : topology.window[b] \in Window
  BY <1>1, TopologyFacts
<1>3. \A b \in DOMAIN windows : windows[b] = topology.window[b]
  BY DEF AsConfigured, Replaced
<1>4. \A b \in DOMAIN windows : BusOf(b).domain = BusOf(a).domain <=> b.domain = a.domain
  BY <1>1, <1>2, DomainsApart DEF AsConfigured
<1>5. \A b \in DOMAIN windows :
        b.domain = a.domain =>
          /\ InWindow(windows[b], windows[a].secondary) <=> b = a \/ InWindow(windows[b], a.bus)
          /\ InWindow(windows[b], a.bus) => b # a /\ Size(a) <= Size(b)
  <2> SUFFICES ASSUME NEW b \in DOMAIN windows, b.domain = a.domain
               PROVE  /\ InWindow(windows[b], windows[a].secondary)
                           <=> b = a \/ InWindow(windows[b], a.bus)
                      /\ InWindow(windows[b], a.bus) => b # a /\ Size(a) <= Size(b)
    OBVIOUS
  <2>1. a \in DOMAIN topology.window /\ b \in DOMAIN topology.window
    BY <1>1 DEF Bridges
  <2>2. /\ InWindow(topology.window[b], topology.window[a].secondary)
             <=> b = a \/ InWindow(topology.window[b], a.bus)
        /\ InWindow(topology.window[b], a.bus) =>
             /\ b # a
             /\ topology.window[a].subordinate - topology.window[a].secondary
                  <= topology.window[b].subordinate - topology.window[b].secondary
    BY <2>1, Zenon DEF AsConfigured, Nested
  <2> QED
    BY <1>3, <2>2 DEF Size
<1>6. /\ BusOf(a).bus = a.bus /\ Secondary(a).bus = windows[a].secondary
      /\ Secondary(a).domain = BusOf(a).domain
  BY DEF BusOf, Secondary
<1>7. Over(BusOf(a)) = {b \in DOMAIN windows : /\ b.domain = a.domain
                                               /\ InWindow(windows[b], a.bus)}
  BY <1>4, <1>6 DEF Over
<1>8. Over(Secondary(a)) = {b \in DOMAIN windows : /\ b.domain = a.domain
                                                   /\ InWindow(windows[b], windows[a].secondary)}
  BY <1>4, <1>6 DEF Over
<1>9. Over(Secondary(a)) = Over(BusOf(a)) \cup {a}
  BY <1>5, <1>7, <1>8
<1>10. IsFiniteSet(Over(BusOf(a)))
  BY <1>1, <1>2, FS_Subset DEF Over
<1>11. Size(a) <= Size(a)
  BY <1>1, <1>2 DEF Size, Window
<1> QED
  BY <1>5, <1>7, <1>9, <1>10, <1>11

(* The windows that have been read stay, once there are rows.                *)
LEMMA SameOver ==
  ASSUME UNCHANGED <<renderer, topology, windows>>
  PROVE  /\ AsConfigured' <=> AsConfigured
         /\ \A bus : Over(bus)' = Over(bus)
         /\ \A a : BusOf(a)' = BusOf(a) /\ Size(a)' = Size(a)
BY DEF AsConfigured, Nested, Replaced, DomainsMerged, Over, BusOf, Size

(* Rows stay below the rows they hang from.                                  *)
LEMMA RowsBelong ==
  ASSUME IInv, UNCHANGED <<renderer, topology, windows>>,
         \A i \in DOMAIN rows : RowBelongs(i),
         \A i \in DOMAIN rows : i \in DOMAIN rows' /\ rows'[i] = rows[i]
  PROVE  \A i \in DOMAIN rows : RowBelongs(i)'
<1> SUFFICES ASSUME NEW i \in DOMAIN rows
             PROVE  RowBelongs(i)'
  OBVIOUS
<1> DEFINE p == rows[i].parent
<1>1. rows'[i] = rows[i] /\ RowBelongs(i)
  OBVIOUS
<1>2. ASSUME rows[i].kind = "device"
      PROVE  rows'[p] = rows[p]
  <2>1. rows \in Seq(RowSet) /\ p \in 1..(i - 1)
    BY <1>2 DEF IInv, Types, Forest, Hangs
  <2> QED
    BY <2>1
<1> QED
  BY <1>1, <1>2, SameOver DEF RowBelongs, Belongs

(* No window is over a bus that gets a row of its own.                       *)
LEMMA PushBusInner ==
  ASSUME IInv, InnerInv, PushBus
  PROVE  InnerInv'
<1> DEFINE bus == Head(buses)
           row == Row("bus", DevicesOn(bus)[1], 0, 0, TRUE)
           n == Len(rows) + 1
<1>1. /\ buses # << >> /\ unread = {} /\ rows' = Append(rows, row) /\ ~Covered(bus)
      /\ frames' = <<Frame(bus, Len(rows'), 1)>>
      /\ UNCHANGED <<renderer, topology, unread, windows>>
  BY DEF PushBus, AtBus
<1>2. /\ renderer \in DOMAIN Topologies /\ topology \in Topologies[renderer]
      /\ buses \in Seq(BusesSeen) /\ rows \in Seq(RowSet) /\ Len(rows) \in Nat
  BY DEF IInv, Types
<1>3. bus \in BusesSeen
  BY <1>1, <1>2
<1>4. row.kind = "bus" /\ row.at.bus = bus.bus
  <2> DEFINE a == DevicesOn(bus)[1]
  <2>1. BusOf(a) = bus /\ row.at = a /\ row.kind = "bus"
    BY <1>2, <1>3, DevicesOnSeq DEF Row
  <2> HIDE DEF a, bus, row
  <2> QED
    BY <2>1 DEF BusOf
<1>8. row \in RowSet
  BY <1>2, <1>3, DevicesOnSeq DEF Row, RowSet
<1>5. Over(bus) = {} /\ Cardinality({}) = 0
  BY <1>1, FS_EmptySet DEF Covered, Over
<1> HIDE DEF bus, row
<1>6. /\ Len(rows') = n /\ rows'[n] = row /\ DOMAIN rows' = 1..n /\ rows' # << >>
      /\ \A i \in DOMAIN rows : i \in DOMAIN rows' /\ rows'[i] = rows[i]
  <2>1. /\ rows' = Append(rows, row) /\ rows \in Seq(RowSet) /\ row \in RowSet
        /\ Len(rows) \in Nat
    BY <1>1, <1>2, <1>8
  <2>2. /\ Len(rows') = n /\ rows'[n] = row /\ DOMAIN rows' = 1..n
        /\ \A i \in 1..Len(rows) : rows'[i] = rows[i]
    BY <2>1
  <2>3. DOMAIN rows = 1..Len(rows) /\ rows' # << >>
    BY <2>1
  <2> QED
    BY <2>1, <2>2, <2>3
<1>7. ASSUME AsConfigured'
      PROVE  /\ \A i \in DOMAIN rows' : RowBelongs(i)'
             /\ \A i \in DOMAIN frames' : CallBelongs(i)'
  <2>1. \A i \in DOMAIN rows : RowBelongs(i)
    BY <1>1, <1>7, SameOver DEF InnerInv
  <2>2. \A i \in DOMAIN rows : RowBelongs(i)'
    BY <1>1, <1>6, <2>1, RowsBelong
  <2>3. ASSUME NEW i \in DOMAIN rows', i \notin DOMAIN rows
        PROVE  RowBelongs(i)'
    <3>1. i = n
      BY <1>2, <1>6, <2>3
    <3> QED
      BY <1>4, <1>6, <3>1 DEF RowBelongs
  <2>4. ASSUME NEW i \in DOMAIN frames'
        PROVE  CallBelongs(i)'
    <3>1. frames'[i].depth = 1 /\ frames'[i].parent = n /\ frames'[i].bus = bus
      BY <1>1, <1>6, <2>4 DEF Frame
    <3>2. \A b : b = bus => Over(b)' = {}
      BY <1>1, <1>5, SameOver
    <3>3. rows'[frames'[i].parent] = row
      BY <1>6, <3>1
    <3>4. frames'[i].depth = 1 + Cardinality({})
      BY <1>5, <3>1
    <3> QED
      BY <1>4, <3>1, <3>2, <3>3, <3>4 DEF CallBelongs, Belongs
  <2> QED
    BY <2>2, <2>3, <2>4
<1> QED
  BY <1>1, <1>7 DEF InnerInv

(* A device of a call belongs where the call pushes, and the devices of its  *)
(* secondary bus belong below it.                                            *)
LEMMA PushDeviceInner ==
  ASSUME IInv, StackInv, InnerInv, PushDevice
  PROVE  InnerInv'
<1> DEFINE top == Last(frames)
           a == Head(top.todo)
           k == Len(frames)
           p == top.parent
           row == Row("device", a, top.depth, p, a \in DOMAIN windows)
           n == Len(rows) + 1
           last == Frame(Secondary(a), Len(rows'), top.depth + 1)
           calls == IF a \in DOMAIN windows THEN <<last>> ELSE << >>
<1>1. /\ frames # << >> /\ top.todo # << >> /\ Turn(calls)
      /\ UNCHANGED <<renderer, topology, unread, windows, buses>>
      /\ rows' = Append(rows, row)
  BY DEF PushDevice, AtDevice, Below
<1>2. /\ renderer \in DOMAIN Topologies /\ topology \in Topologies[renderer]
      /\ frames \in Seq(FrameSet) /\ DOMAIN windows \subseteq Bridges
      /\ rows \in Seq(RowSet) /\ Len(rows) \in Nat
      /\ \A b \in DOMAIN windows : windows[b] \in Foreign \cup {topology.window[b]}
  BY DEF IInv, Types
<1>3. /\ k \in Nat \ {0} /\ k \in DOMAIN frames /\ DOMAIN frames = 1..k
      /\ top = frames[k] /\ top \in FrameSet
  BY <1>1, <1>2 DEF Last
<1>4. a \in Range(top.todo) /\ top.depth \in Nat
  <2> DEFINE q == top.todo
  <2>1. q \in Seq(topology.devices) /\ q # << >>
    BY <1>1, <1>3 DEF FrameSet
  <2> HIDE DEF q
  <2>2. Head(q) \in Range(q)
    BY <2>1 DEF Range
  <2> QED
    BY <1>3, <2>2 DEF q, FrameSet
<1>5. BusOf(a) = top.bus
  BY <1>3, <1>4 DEF StackInv, Follows
<1>6. p \in DOMAIN rows
  BY <1>3 DEF IInv, Stack, Pushes
<1>7. a \in DOMAIN windows => /\ last \in FrameSet /\ last.bus = Secondary(a)
                              /\ last.parent = Len(rows') /\ last.depth = top.depth + 1
  <2> SUFFICES ASSUME a \in DOMAIN windows
               PROVE  last \in FrameSet /\ last.bus = Secondary(a)
                      /\ last.parent = Len(rows') /\ last.depth = top.depth + 1
    OBVIOUS
  <2>1. windows[a] \in Window
    BY <1>2, TopologyFacts, ForeignAssumption
  <2>2. BusOf(a) \in BusSet
    BY <1>2, TopologyFacts, BusOfType
  <2>3. Secondary(a) \in BusSet
    BY <2>1, <2>2 DEF Secondary, Window, BusSet
  <2>4. DevicesOn(Secondary(a)) \in Seq(topology.devices)
    BY <1>2, DevicesOnSeq
  <2>5. Len(rows') \in Nat /\ top.depth + 1 \in Nat
    BY <1>1, <1>2, <1>4
  <2> QED
    BY <2>3, <2>4, <2>5 DEF Frame, FrameSet
<1> HIDE DEF last
<1>8. /\ calls \in Seq(FrameSet) /\ Len(calls) \in {0, 1}
      /\ Len(calls) = 1 => calls[1] = last /\ a \in DOMAIN windows
  BY <1>7
<1> HIDE DEF calls
<1>9. MoreCalls(frames', calls)
  BY <1>1, <1>2, <1>8, TurnCalls
<1>10. row.kind = "device" /\ row.at = a /\ row.depth = top.depth /\ row.parent = p
  BY DEF Row
<1> HIDE DEF row, p
<1>11. /\ Len(rows') = n /\ rows'[n] = row /\ DOMAIN rows' = 1..n /\ rows' # << >>
       /\ \A i \in DOMAIN rows : i \in DOMAIN rows' /\ rows'[i] = rows[i]
  BY <1>1, <1>2
<1>12. unread' = {}
  BY <1>1 DEF StackInv
<1>13. ASSUME AsConfigured'
       PROVE  /\ \A i \in DOMAIN rows' : RowBelongs(i)'
              /\ \A i \in DOMAIN frames' : CallBelongs(i)'
  <2>1. /\ AsConfigured /\ \A i \in DOMAIN rows : RowBelongs(i)
        /\ \A i \in DOMAIN frames : CallBelongs(i)
    BY <1>1, <1>13, SameOver DEF InnerInv
  <2>2. \A i \in DOMAIN rows : RowBelongs(i)'
    BY <1>1, <1>11, <2>1, RowsBelong
  <2>3. Belongs(top.depth, rows[p], BusOf(a))
    BY <1>3, <1>5, <2>1 DEF CallBelongs, p
  <2>4. ASSUME NEW i \in DOMAIN rows', i \notin DOMAIN rows
        PROVE  RowBelongs(i)'
    <3>1. i = n
      BY <1>2, <1>11, <2>4
    <3>2. /\ rows'[i].at = a /\ rows'[i].depth = top.depth
          /\ rows'[rows'[i].parent] = rows[p]
      BY <1>6, <1>10, <1>11, <3>1
    <3> QED
      BY <1>1, <2>3, <3>2, SameOver DEF RowBelongs, Belongs
  <2>5. ASSUME NEW i \in DOMAIN frames'
        PROVE  CallBelongs(i)'
    <3>1. CASE i \in DOMAIN frames
      <4> DEFINE q == frames[i].parent
      <4>1. /\ frames'[i].depth = frames[i].depth /\ frames'[i].parent = q
            /\ frames'[i].bus = frames[i].bus
        BY <1>9, <3>1 DEF MoreCalls, SameCall
      <4>2. q \in DOMAIN rows
        BY <3>1 DEF IInv, Stack, Pushes
      <4>3. CallBelongs(i)
        BY <2>1, <3>1
      <4> QED
        BY <1>1, <1>11, <4>1, <4>2, <4>3, SameOver DEF CallBelongs, Belongs
    <3>2. CASE i \notin DOMAIN frames
      <4>1. a \in DOMAIN windows /\ frames'[i] = last
        <5>1. i = k + 1 /\ Len(frames') = k + 1
          BY <1>3, <1>9, <2>5, <3>2 DEF MoreCalls
        <5> QED
          BY <1>3, <1>8, <1>9, <5>1 DEF MoreCalls
      <4>2. /\ frames'[i].bus = Secondary(a) /\ frames'[i].depth = top.depth + 1
            /\ rows'[frames'[i].parent].at = a
        BY <1>7, <1>10, <1>11, <4>1
      <4> DEFINE S == Over(BusOf(a))
      <4>3. /\ IsFiniteSet(S) /\ a \notin S /\ Over(Secondary(a)) = S \cup {a}
            /\ \A b \in S \cup {a} : Size(a) <= Size(b)
        BY <2>1, <4>1, OverSecondary
      <4>4. top.depth = 1 + Cardinality(S)
        BY <2>3 DEF Belongs
      <4> HIDE DEF S
      <4>5. /\ Cardinality(S) \in Nat /\ Cardinality(S \cup {a}) = Cardinality(S) + 1
        BY <4>3, FS_AddElement, FS_CardinalityType
      <4>6. top.depth + 1 = 1 + Cardinality(S \cup {a})
        BY <4>4, <4>5
      <4>7. \A b : b = Secondary(a) => Over(b)' = S \cup {a}
        BY <1>1, <4>3, SameOver
      <4>8. \A b : Size(b)' = Size(b)
        BY <1>1, SameOver
      <4>9. a \in S \cup {a} /\ S \cup {a} # {}
        OBVIOUS
      <4> DEFINE T == S \cup {a}
      <4> HIDE DEF T
      <4> QED
        BY <4>2, <4>3, <4>6, <4>7, <4>8, <4>9 DEF CallBelongs, Belongs, T
    <3> QED
      BY <3>1, <3>2
  <2> QED
    BY <2>2, <2>4, <2>5
<1> QED
  BY <1>12, <1>13 DEF InnerInv

(* A call that returns leaves the rows and the calls below it.               *)
LEMMA PopInner ==
  ASSUME IInv, InnerInv, PopFrame
  PROVE  InnerInv'
<1>1. /\ frames # << >> /\ frames' = SubSeq(frames, 1, Len(frames) - 1)
      /\ UNCHANGED <<renderer, topology, unread, windows, buses, crashed, rows>>
  BY DEF PopFrame, Front
<1>2. frames \in Seq(FrameSet) /\ Len(frames) \in Nat \ {0}
  BY <1>1 DEF IInv, Types
<1>3. \A i \in DOMAIN frames' : i \in DOMAIN frames /\ frames'[i] = frames[i]
  BY <1>1, <1>2
<1>4. ASSUME AsConfigured'
      PROVE  /\ \A i \in DOMAIN rows' : RowBelongs(i)'
             /\ \A i \in DOMAIN frames' : CallBelongs(i)'
  <2>1. /\ \A i \in DOMAIN rows : RowBelongs(i)
        /\ \A i \in DOMAIN frames : CallBelongs(i)
    BY <1>1, <1>4, SameOver DEF InnerInv
  <2>2. \A i \in DOMAIN rows' : RowBelongs(i)'
    BY <1>1, <2>1, RowsBelong
  <2>3. ASSUME NEW i \in DOMAIN frames'
        PROVE  CallBelongs(i)'
    <3>1. frames'[i] = frames[i] /\ CallBelongs(i) /\ rows' = rows
      BY <1>1, <1>3, <2>1
    <3>2. /\ \A bus : Over(bus)' = Over(bus)
          /\ \A a : Size(a)' = Size(a)
      BY <1>1, SameOver
    <3> QED
      BY <3>1, <3>2 DEF CallBelongs, Belongs
  <2> QED
    BY <2>2, <2>3
<1> QED
  BY <1>1, <1>4 DEF InnerInv

(* Where firmware nests the windows, every device hangs from the innermost   *)
(* bridge whose window holds its bus, although push_bus_devices never looks  *)
(* for it, as deep as such bridges are nested.                               *)
THEOREM ParentAlwaysInnermost == Spec => []ParentIsInnermost
<1>1. Init => InnerInv
  BY DEF Init, InnerInv
<1>2. IInv /\ StackInv /\ InnerInv /\ [Next]_vars => InnerInv'
  <2> SUFFICES ASSUME IInv, StackInv, InnerInv, [Next]_vars
               PROVE  InnerInv'
    OBVIOUS
  <2>1. ASSUME UNCHANGED <<renderer, topology, unread, windows, rows, frames>>
        PROVE  InnerInv'
    <3>1. \A i : (RowBelongs(i)' <=> RowBelongs(i)) /\ (CallBelongs(i)' <=> CallBelongs(i))
      BY <2>1, SameOver DEF RowBelongs, CallBelongs, Belongs
    <3> QED
      BY <2>1, <3>1, SameOver DEF InnerInv
  <2>2. CASE ReadWindow \/ WindowUnreadable \/ WindowForeign
    <3>1. unread # {} /\ UNCHANGED <<frames, rows>>
      BY <2>2 DEF ReadWindow, WindowUnreadable, WindowForeign, Visit
    <3>2. rows' = << >> /\ frames' = << >>
      BY <3>1 DEF InnerInv, StackInv
    <3> QED
      BY <3>2 DEF InnerInv
  <2>3. CASE SkipBus
    BY <2>1, <2>3 DEF SkipBus, AtBus
  <2>4. CASE PushBus
    BY <2>4, PushBusInner
  <2>5. CASE PushDevice
    BY <2>5, PushDeviceInner
  <2>6. CASE PopFrame
    BY <2>6, PopInner
  <2>7. CASE UNCHANGED vars
    BY <2>1, <2>7 DEF vars
  <2> QED
    BY <2>2, <2>3, <2>4, <2>5, <2>6, <2>7 DEF Next
<1>3. IInv /\ InnerInv => ParentIsInnermost
  <2> SUFFICES ASSUME IInv, InnerInv, AsConfigured,
                      NEW i \in DOMAIN rows, rows[i].kind = "device"
               PROVE  LET a == rows[i].at
                          p == rows[rows[i].parent]
                          W == Above(a) \cap DOMAIN windows
                      IN /\ rows[i].depth = 1 + Cardinality(W)
                         /\ IF W = {} THEN p.kind = "bus" /\ p.at.bus = a.bus
                            ELSE p.at \in W /\ \A b \in W : Size(p.at) <= Size(b)
    BY DEF ParentIsInnermost
  <2> DEFINE a == rows[i].at
             p == rows[rows[i].parent]
             W == Above(a) \cap DOMAIN windows
  <2>1. Belongs(rows[i].depth, p, BusOf(a))
    BY DEF InnerInv, RowBelongs
  <2>2. a \in topology.devices
    <3>1. rows[i] \in RowSet
      BY DEF IInv, Types
    <3> QED
      BY <3>1 DEF RowSet
  <2>3. W = Over(BusOf(a))
    <3>1. /\ DOMAIN windows \subseteq Bridges /\ Bridges \subseteq topology.devices
          /\ \A b \in DOMAIN windows : windows[b] = topology.window[b]
      BY TopologyFacts DEF IInv, Types, AsConfigured, Replaced
    <3>2. \A b \in DOMAIN windows : BusOf(b).domain = BusOf(a).domain <=> b.domain = a.domain
      BY <2>2, <3>1, DomainsApart DEF AsConfigured
    <3>3. BusOf(a).bus = a.bus
      BY DEF BusOf
    <3> QED
      BY <3>1, <3>2, <3>3 DEF Above, Over
  <2>4. BusOf(a).bus = a.bus
    BY DEF BusOf
  <2> HIDE DEF a, p, W
  <2> QED
    BY <2>1, <2>3, <2>4 DEF Belongs, a, p, W
<1> QED
  BY <1>1, <1>2, <1>3, CallsFollowWindows, PTL DEF Spec

-----------------------------------------------------------------------------
(* Each bus is pushed once, and no device is left behind.                    *)

(* A device an active call has still to push.                                *)
Waiting(a) == \E i \in DOMAIN frames : a \in Range(frames[i].todo)

(* A bus whose devices have been listed or are being listed.                 *)
Entered(bus) ==
  \/ \E a \in Listed : BusOf(a) = bus
  \/ \E i \in DOMAIN frames : frames[i].bus = bus

KeptInv ==
  /\ rows # << >> => unread = {}
  /\ unread # {} => BusesSeen \subseteq Range(buses)
  /\ ~crashed => \A a \in topology.devices :
       /\ Covered(BusOf(a)) \/ BusOf(a) \in Range(buses) \/ a \in Listed \/ Waiting(a)
       /\ \A b \in DOMAIN windows :
            Secondary(b) = BusOf(a) /\ b \in Listed => a \in Listed \/ Waiting(a)

ListedOnce ==
  \A i, j \in DOMAIN rows :
    rows[i].kind = "device" /\ rows[j].kind = "device" /\ rows[i].at = rows[j].at => i = j

Apart ==
  /\ \A i \in DOMAIN frames : Distinct(frames[i].todo)
  /\ \A i, j \in DOMAIN frames : frames[i].bus = frames[j].bus => i = j
  /\ \A a \in Listed : ~Waiting(a)
  /\ \A bus : Entered(bus) =>
       /\ bus \in Range(buses) => Covered(bus)
       /\ \A b \in DOMAIN windows : Secondary(b) = bus => b \in Listed

OnceInv ==
  /\ Distinct(buses)
  /\ AsConfigured => ListedOnce /\ (~crashed => Apart)

(* A row that is added lists its device, if it is one of a device.           *)
LEMMA ListedMore ==
  ASSUME rows \in Seq(RowSet), NEW row \in RowSet, rows' = Append(rows, row)
  PROVE  Listed' = Listed \cup (IF row.kind = "device" THEN {row.at} ELSE {})
<1>1. /\ Len(rows) \in Nat /\ DOMAIN rows = 1..Len(rows) /\ DOMAIN rows' = 1..(Len(rows) + 1)
      /\ rows'[Len(rows) + 1] = row /\ \A i \in 1..Len(rows) : rows'[i] = rows[i]
  OBVIOUS
<1>2. DOMAIN rows' = DOMAIN rows \cup {Len(rows) + 1}
  BY <1>1
<1>3. \A i \in DOMAIN rows : rows'[i] = rows[i]
  BY <1>1
<1>4. rows'[Len(rows) + 1] = row
  BY <1>1
<1>5. ASSUME NEW x
      PROVE  x \in Listed' <=> x \in Listed \/ (row.kind = "device" /\ x = row.at)
  <2>1. x \in Listed' <=> \E i \in DOMAIN rows' : rows'[i].kind = "device" /\ x = rows'[i].at
    BY DEF Listed
  <2>2. x \in Listed <=> \E i \in DOMAIN rows : rows[i].kind = "device" /\ x = rows[i].at
    BY DEF Listed
  <2> QED
    BY <1>2, <1>3, <1>4, <2>1, <2>2
<1> QED
  BY <1>5

(* What the windows say stays once they have been read.                      *)
LEMMA SameWindows ==
  ASSUME UNCHANGED <<renderer, topology, windows>>
  PROVE  /\ AsConfigured' <=> AsConfigured
         /\ \A bus : Covered(bus)' <=> Covered(bus)
         /\ \A a : BusOf(a)' = BusOf(a) /\ Secondary(a)' = Secondary(a)
BY DEF AsConfigured, Nested, Replaced, DomainsMerged, Covered, BusOf, Secondary

(* The secondary bus of a bridge with a window is covered, and no other      *)
(* bridge leads to it.                                                       *)
LEMMA SecondaryApart ==
  ASSUME IInv, AsConfigured,
         NEW a \in DOMAIN windows, NEW b \in DOMAIN windows
  PROVE  /\ Covered(Secondary(a))
         /\ Secondary(a) = Secondary(b) => a = b
<1>1. /\ a \notin Over(BusOf(a)) /\ Over(Secondary(a)) = Over(BusOf(a)) \cup {a}
      /\ \A c \in Over(BusOf(a)) : Size(a) <= Size(c)
  BY OverSecondary
<1>2. /\ b \notin Over(BusOf(b)) /\ Over(Secondary(b)) = Over(BusOf(b)) \cup {b}
      /\ \A c \in Over(BusOf(b)) : Size(b) <= Size(c)
  BY OverSecondary
<1>3. Covered(Secondary(a))
  BY <1>1 DEF Covered, Over
<1>4. ASSUME Secondary(a) = Secondary(b), a # b
      PROVE  FALSE
  <2>1. b \in Over(BusOf(a)) /\ a \in Over(BusOf(b))
    BY <1>1, <1>2, <1>4
  <2>2. Size(a) <= Size(b) /\ Size(b) <= Size(a)
    BY <1>1, <1>2, <2>1
  <2>3. windows[a] = topology.window[a] /\ windows[b] = topology.window[b]
    BY DEF AsConfigured, Replaced
  <2>4. windows[a] \in Window /\ windows[b] \in Window
    BY <2>3, TopologyFacts DEF IInv, Types
  <2>5. windows[a].secondary = windows[b].secondary
    <3>1. Secondary(a).bus = windows[a].secondary /\ Secondary(b).bus = windows[b].secondary
      BY DEF Secondary, BusOf
    <3> QED
      BY <1>4, <3>1
  <2>6. windows[a].subordinate = windows[b].subordinate
    <3> DEFINE s == windows[a].secondary
               x == windows[a].subordinate
               y == windows[b].subordinate
    <3>1. s \in Nat /\ x \in Nat /\ y \in Nat
      BY <2>4 DEF Window
    <3>2. x - s <= y - s /\ y - s <= x - s
      BY <2>2, <2>3, <2>5 DEF Size
    <3> HIDE DEF s, x, y
    <3>3. x = y
      BY <3>1, <3>2
    <3> QED
      BY <3>3 DEF x, y
  <2>7. InWindow(windows[b], BusOf(a).bus)
    BY <2>1 DEF Over
  <2>8. InWindow(windows[a], BusOf(a).bus)
    BY <2>5, <2>6, <2>7 DEF InWindow
  <2>9. a \in Over(BusOf(a))
    BY <2>8 DEF Over
  <2> QED
    BY <1>1, <2>9
<1> QED
  BY <1>3, <1>4

(* The elements of a sequence are its first one and those of its tail.       *)
LEMMA RangeOfTail ==
  ASSUME NEW S, NEW q \in Seq(S), q # << >>
  PROVE  \A x : x \in Range(q) <=> x = Head(q) \/ x \in Range(Tail(q))
<1>1. /\ Len(q) \in Nat \ {0} /\ DOMAIN q = 1..Len(q) /\ Head(q) = q[1]
      /\ DOMAIN Tail(q) = 1..(Len(q) - 1) /\ \A i \in 1..(Len(q) - 1) : Tail(q)[i] = q[i + 1]
  OBVIOUS
<1>2. ASSUME NEW i \in DOMAIN q
      PROVE  q[i] = Head(q) \/ \E j \in DOMAIN Tail(q) : Tail(q)[j] = q[i]
  <2>1. CASE i = 1
    BY <1>1, <2>1
  <2>2. CASE i # 1
    <3>1. i - 1 \in DOMAIN Tail(q) /\ (i - 1) + 1 = i
      BY <1>1, <2>2
    <3>2. Tail(q)[i - 1] = q[i]
      BY <1>1, <3>1
    <3> QED
      BY <3>1, <3>2
  <2> QED
    BY <2>1, <2>2
<1>3. \A j \in DOMAIN Tail(q) : j + 1 \in DOMAIN q /\ Tail(q)[j] = q[j + 1]
  BY <1>1
<1>4. 1 \in DOMAIN q
  BY <1>1
<1> DEFINE r == Tail(q)
<1> HIDE DEF r
<1>5. \A x : x \in Range(q) => x = Head(q) \/ x \in Range(r)
  BY <1>2 DEF Range, r
<1>6. \A x : x \in Range(r) => x \in Range(q)
  BY <1>3 DEF Range, r
<1>7. Head(q) \in Range(q)
  BY <1>1, <1>4 DEF Range
<1> QED
  BY <1>5, <1>6, <1>7 DEF r

(* The device the innermost call pushes next.                                *)
Pushing == Head(Last(frames).todo)

(* The calls after the turn that pushes it.                                  *)
Turned ==
  /\ \A i \in DOMAIN frames :
       /\ i \in DOMAIN frames' /\ frames'[i].bus = frames[i].bus
       /\ frames'[i].todo = IF i = Len(frames) THEN Tail(frames[i].todo) ELSE frames[i].todo
  /\ \A i \in DOMAIN frames' :
       i \notin DOMAIN frames =>
         /\ i = Len(frames) + 1 /\ Pushing \in DOMAIN windows
         /\ frames'[i].bus = Secondary(Pushing)
         /\ frames'[i].todo = DevicesOn(Secondary(Pushing))
  /\ Pushing \in DOMAIN windows => Len(frames) + 1 \in DOMAIN frames' \ DOMAIN frames

(* A turn lists a device; unless the program crashes, its call goes on.      *)
LEMMA PushDeviceFacts ==
  ASSUME IInv, StackInv, PushDevice
  PROVE  /\ UNCHANGED <<renderer, topology, unread, windows, buses>> /\ ~crashed
         /\ unread = {} /\ Len(frames) \in DOMAIN frames /\ Pushing \in topology.devices
         /\ frames[Len(frames)].todo \in Seq(topology.devices)
         /\ frames[Len(frames)].todo # << >> /\ Pushing = Head(frames[Len(frames)].todo)
         /\ BusOf(Pushing) = frames[Len(frames)].bus
         /\ Waiting(Pushing) /\ Listed' = Listed \cup {Pushing}
         /\ \E row \in RowSet : /\ row.kind = "device" /\ row.at = Pushing
                                /\ rows' = Append(rows, row)
         /\ ~crashed' => Turned
<1> DEFINE k == Len(frames)
           top == frames[k]
           a == Pushing
           q == top.todo
           row == Row("device", a, top.depth, top.parent, a \in DOMAIN windows)
           last == Frame(Secondary(a), Len(rows'), top.depth + 1)
           calls == IF a \in DOMAIN windows THEN <<last>> ELSE << >>
           f == [top EXCEPT !.todo = Tail(top.todo)]
           shorter == [frames EXCEPT ![k] = f]
<1>1. /\ frames # << >> /\ q # << >> /\ ~crashed /\ Turn(calls)
      /\ UNCHANGED <<renderer, topology, unread, windows, buses>>
      /\ rows' = Append(rows, row) /\ a = Head(q)
  BY DEF PushDevice, AtDevice, Below, Last, Pushing
<1>2. /\ renderer \in DOMAIN Topologies /\ topology \in Topologies[renderer]
      /\ frames \in Seq(FrameSet) /\ rows \in Seq(RowSet) /\ Len(rows) \in Nat
  BY DEF IInv, Types
<1>3. k \in Nat \ {0} /\ k \in DOMAIN frames /\ DOMAIN frames = 1..k /\ top \in FrameSet
  BY <1>1, <1>2
<1>4. q \in Seq(topology.devices) /\ top.depth \in Nat /\ top.parent \in Nat
  BY <1>3 DEF FrameSet
<1> HIDE DEF q, a
<1>5. a \in Range(q) /\ a \in topology.devices
  BY <1>1, <1>4 DEF Range
<1>6. BusOf(a) = top.bus /\ Waiting(a)
  BY <1>3, <1>5 DEF StackInv, Follows, Waiting, q
<1>7. row \in RowSet /\ row.kind = "device" /\ row.at = a
  BY <1>4, <1>5 DEF Row, RowSet
<1>8. Listed' = Listed \cup {a}
  BY <1>1, <1>2, <1>7, ListedMore
<1>9. unread = {}
  BY <1>1 DEF StackInv
<1>10. ASSUME ~crashed'
       PROVE  Turned
  <2>1. frames' = shorter \o calls
    BY <1>10, <1>1 DEF Turn
  <2>2. /\ f \in FrameSet /\ f.bus = top.bus /\ f.todo = Tail(top.todo)
    <3>1. Tail(q) \in Seq(topology.devices)
      BY <1>1, <1>4
    <3> QED
      BY <1>3, <3>1, ExceptTodo DEF FrameSet, q
  <2> HIDE DEF f
  <2>13. /\ shorter \in Seq(FrameSet) /\ DOMAIN shorter = 1..k
         /\ \A i \in 1..k : shorter[i] = IF i = k THEN f ELSE frames[i]
    BY <1>2, <1>3, <2>2
  <2>3. /\ Len(shorter) = k /\ shorter = [i \in 1..k |-> shorter[i]]
        /\ \A i \in 1..k : shorter[i] = IF i = k THEN f ELSE frames[i]
    <3> HIDE DEF shorter
    <3> QED
      BY <1>3, <2>13
  <2>4. last.bus = Secondary(a) /\ last.todo = DevicesOn(Secondary(a))
    BY DEF Frame
  <2> HIDE DEF shorter, last
  <2> DEFINE T == {f, last} \cup {frames[i] : i \in 1..k}
  <2>5. shorter \in Seq(T)
    <3>1. \A i \in 1..k : shorter[i] \in T
      BY <1>3, <2>3
    <3>2. shorter \in [1..k -> T]
      BY <2>3, <3>1, Zenon
    <3> QED
      BY <1>3, <3>2, IsSequence
  <2>6. /\ calls \in Seq(T) /\ Len(calls) = (IF a \in DOMAIN windows THEN 1 ELSE 0)
        /\ a \in DOMAIN windows => calls[1] = last
    <3>1. last \in T
      OBVIOUS
    <3> HIDE DEF T
    <3> QED
      BY <3>1
  <2> HIDE DEF T, calls
  <2>7. /\ Len(frames') = k + Len(calls) /\ frames' \in Seq(T)
        /\ \A i \in 1..(k + Len(calls)) :
             frames'[i] = IF i <= k THEN shorter[i] ELSE calls[i - k]
    BY <2>1, <2>3, <2>5, <2>6, ConcatProperties
  <2>8. DOMAIN frames' = 1..(k + Len(calls))
    BY <2>7
  <2>9. \A i \in 1..k : i \in DOMAIN frames' /\ frames'[i] = shorter[i]
    BY <1>3, <2>6, <2>7, <2>8
  <2>10. ASSUME NEW i \in DOMAIN frames', i \notin 1..k
         PROVE  i = k + 1 /\ a \in DOMAIN windows /\ frames'[i] = last
    <3>1. a \in DOMAIN windows /\ i = k + 1
      BY <1>3, <2>6, <2>8, <2>10
    <3>2. i \in 1..(k + Len(calls)) /\ ~(i <= k) /\ i - k = 1
      BY <1>3, <2>6, <3>1
    <3> QED
      BY <2>6, <2>7, <3>1, <3>2
  <2>11. a \in DOMAIN windows => k + 1 \in DOMAIN frames' /\ k + 1 \notin 1..k
    BY <1>3, <2>6, <2>8
  <2>12. ASSUME NEW i \in DOMAIN frames
         PROVE  /\ i \in DOMAIN frames' /\ frames'[i].bus = frames[i].bus
                /\ frames'[i].todo = IF i = k THEN Tail(frames[i].todo) ELSE frames[i].todo
    <3>1. i \in 1..k
      BY <1>3
    <3>2. i \in DOMAIN frames' /\ frames'[i] = IF i = k THEN f ELSE frames[i]
      BY <2>3, <2>9, <3>1
    <3> QED
      BY <2>2, <3>2
  <2> QED
    BY <1>3, <2>4, <2>10, <2>11, <2>12 DEF Turned, a
<1> QED
  BY <1>1, <1>3, <1>4, <1>5, <1>6, <1>7, <1>8, <1>9, <1>10 DEF a, q

(* The bus of the call that the turn makes.                                  *)
NewCall(bus) == Pushing \in DOMAIN windows /\ bus = Secondary(Pushing)

(* Which devices wait after a turn and which buses have been entered.        *)
LEMMA PushDeviceWaits ==
  ASSUME IInv, StackInv, PushDevice, ~crashed'
  PROVE  /\ \A x : Waiting(x)' => Waiting(x) \/ NewCall(BusOf(x))
         /\ \A x : Waiting(x) => x = Pushing \/ Waiting(x)'
         /\ \A x \in topology.devices : NewCall(BusOf(x)) => Waiting(x)'
         /\ \A bus : Entered(bus)' => Entered(bus) \/ NewCall(bus)
<1> DEFINE k == Len(frames)
<1>1. /\ UNCHANGED <<renderer, topology, windows>> /\ k \in DOMAIN frames
      /\ frames[k].todo \in Seq(topology.devices) /\ frames[k].todo # << >>
      /\ Pushing = Head(frames[k].todo) /\ BusOf(Pushing) = frames[k].bus
      /\ Listed' = Listed \cup {Pushing} /\ Turned
  BY PushDeviceFacts
<1>2. renderer \in DOMAIN Topologies /\ topology \in Topologies[renderer]
  BY DEF IInv, Types
<1>3. \A bus : Range(DevicesOn(bus)) = {x \in topology.devices : BusOf(x) = bus}
  BY <1>2, DevicesOnSeq
<1>4. \A x : x \in Range(frames[k].todo) <=> x = Pushing \/ x \in Range(Tail(frames[k].todo))
  <2> DEFINE q == frames[k].todo
  <2>1. q \in Seq(topology.devices) /\ q # << >> /\ Pushing = Head(q)
    BY <1>1
  <2> HIDE DEF q
  <2>2. \A x : x \in Range(q) <=> x = Head(q) \/ x \in Range(Tail(q))
    BY <2>1, RangeOfTail
  <2> QED
    BY <2>1, <2>2 DEF q
<1>5. ASSUME NEW x, Waiting(x)'
      PROVE  Waiting(x) \/ NewCall(BusOf(x))
  <2>1. PICK i \in DOMAIN frames' : x \in Range(frames'[i].todo)
    BY <1>5 DEF Waiting
  <2>2. CASE i \in DOMAIN frames
    <3>1. x \in Range(frames[i].todo)
      BY <1>1, <1>4, <2>1, <2>2 DEF Turned
    <3> QED
      BY <2>2, <3>1 DEF Waiting
  <2>3. CASE i \notin DOMAIN frames
    <3>1. Pushing \in DOMAIN windows /\ x \in Range(DevicesOn(Secondary(Pushing)))
      BY <1>1, <2>1, <2>3 DEF Turned
    <3> QED
      BY <1>3, <3>1 DEF NewCall
  <2> QED
    BY <2>2, <2>3
<1>6. ASSUME NEW x, Waiting(x), x # Pushing
      PROVE  Waiting(x)'
  <2>1. PICK i \in DOMAIN frames : x \in Range(frames[i].todo)
    BY <1>6 DEF Waiting
  <2>2. i \in DOMAIN frames' /\ x \in Range(frames'[i].todo)
    BY <1>1, <1>4, <1>6, <2>1 DEF Turned
  <2> QED
    BY <2>2 DEF Waiting
<1>7. ASSUME NEW x \in topology.devices, NewCall(BusOf(x))
      PROVE  Waiting(x)'
  <2>1. /\ k + 1 \in DOMAIN frames' /\ k + 1 \notin DOMAIN frames
        /\ Pushing \in DOMAIN windows /\ BusOf(x) = Secondary(Pushing)
    BY <1>1, <1>7 DEF NewCall, Turned
  <2>2. frames'[k + 1].todo = DevicesOn(Secondary(Pushing))
    BY <1>1, <2>1 DEF Turned
  <2>3. x \in Range(frames'[k + 1].todo)
    BY <1>3, <2>1, <2>2
  <2> QED
    BY <2>1, <2>3 DEF Waiting
<1>8. ASSUME NEW bus, Entered(bus)'
      PROVE  Entered(bus) \/ NewCall(bus)
  <2>1. CASE \E a \in Listed' : BusOf(a)' = bus
    <3>1. PICK a \in Listed' : BusOf(a)' = bus
      BY <2>1
    <3>2. BusOf(a) = bus
      BY <1>1, <3>1 DEF BusOf
    <3>3. a \in Listed \/ bus = frames[k].bus
      BY <1>1, <3>1, <3>2
    <3> QED
      BY <1>1, <3>2, <3>3 DEF Entered
  <2>2. CASE \E i \in DOMAIN frames' : frames'[i].bus = bus
    BY <1>1, <2>2 DEF Entered, NewCall, Turned
  <2> QED
    BY <1>8, <2>1, <2>2 DEF Entered
<1> QED
  BY <1>5, <1>6, <1>7, <1>8

(* No element of a sequence of distinct ones comes twice in its tail, and    *)
(* the first one does not come there at all.                                 *)
LEMMA DistinctTail ==
  ASSUME NEW S, NEW q \in Seq(S), q # << >>, Distinct(q)
  PROVE  Distinct(Tail(q)) /\ Head(q) \notin Range(Tail(q))
<1>1. /\ Len(q) \in Nat \ {0} /\ DOMAIN q = 1..Len(q) /\ Head(q) = q[1]
      /\ DOMAIN Tail(q) = 1..(Len(q) - 1) /\ \A i \in 1..(Len(q) - 1) : Tail(q)[i] = q[i + 1]
  OBVIOUS
<1>2. 1 \in DOMAIN q /\ \A i \in DOMAIN Tail(q) : i + 1 \in DOMAIN q /\ i + 1 # 1
  BY <1>1
<1>3. Head(q) \notin Range(Tail(q))
  BY <1>1, <1>2 DEF Range, Distinct
<1>4. ASSUME NEW i \in DOMAIN Tail(q), NEW j \in DOMAIN Tail(q), Tail(q)[i] = Tail(q)[j]
      PROVE  i = j
  <2>1. i + 1 = j + 1
    BY <1>1, <1>2, <1>4 DEF Distinct
  <2> QED
    BY <1>1, <2>1
<1> QED
  BY <1>3, <1>4 DEF Distinct

(* While windows are read, nothing has been pushed.                          *)
LEMMA WindowsFirst ==
  ASSUME IInv, StackInv, KeptInv, ReadWindow \/ WindowUnreadable \/ WindowForeign
  PROVE  /\ UNCHANGED <<renderer, topology, buses, crashed, frames, rows>>
         /\ unread' \subseteq unread /\ unread # {} /\ BusesSeen \subseteq Range(buses)
         /\ rows = << >> /\ frames = << >> /\ Listed' = {}
         /\ \A bus : ~Entered(bus)'
<1>1. /\ UNCHANGED <<renderer, topology, buses, crashed, frames, rows>>
      /\ unread' \subseteq unread /\ unread # {}
  BY DEF ReadWindow, WindowUnreadable, WindowForeign, Visit
<1>2. rows = << >> /\ frames = << >> /\ BusesSeen \subseteq Range(buses)
  BY <1>1 DEF KeptInv, StackInv
<1>3. Listed' = {} /\ DOMAIN frames' = {}
  BY <1>1, <1>2 DEF Listed
<1> QED
  BY <1>1, <1>2, <1>3 DEF Entered

(* A bus that is not visited again is covered or its devices are pushed.     *)
LEMMA PushBusWaits ==
  ASSUME IInv, PushBus
  PROVE  /\ UNCHANGED <<renderer, topology, unread, windows, crashed>> /\ unread = {}
         /\ frames = << >> /\ buses \in Seq(BusesSeen) /\ buses # << >>
         /\ buses' = Tail(buses) /\ ~Covered(Head(buses)) /\ Listed' = Listed
         /\ DOMAIN frames' = {1} /\ frames'[1].bus = Head(buses)
         /\ frames'[1].todo = DevicesOn(Head(buses))
         /\ \A x : Waiting(x)' <=> x \in topology.devices /\ BusOf(x) = Head(buses)
         /\ \A bus : Entered(bus)' <=> Entered(bus) \/ bus = Head(buses)
<1> DEFINE bus == Head(buses)
           row == Row("bus", DevicesOn(bus)[1], 0, 0, TRUE)
           frame == Frame(bus, Len(rows'), 1)
<1>1. /\ UNCHANGED <<renderer, topology, unread, windows, crashed>> /\ unread = {}
      /\ frames = << >> /\ buses # << >> /\ buses' = Tail(buses) /\ ~Covered(bus)
      /\ rows' = Append(rows, row) /\ frames' = <<frame>>
  BY DEF PushBus, AtBus
<1>2. /\ renderer \in DOMAIN Topologies /\ topology \in Topologies[renderer]
      /\ buses \in Seq(BusesSeen) /\ rows \in Seq(RowSet)
  BY DEF IInv, Types
<1>3. bus \in BusesSeen
  BY <1>1, <1>2
<1>4. /\ DevicesOn(bus)[1] \in topology.devices
      /\ Range(DevicesOn(bus)) = {x \in topology.devices : BusOf(x) = bus}
  BY <1>2, <1>3, DevicesOnSeq
<1>5. row \in RowSet /\ row.kind = "bus"
  BY <1>4 DEF Row, RowSet
<1>6. Listed' = Listed
  BY <1>1, <1>2, <1>5, ListedMore
<1>7. frame.bus = bus /\ frame.todo = DevicesOn(bus)
  BY DEF Frame
<1> HIDE DEF frame, bus, row
<1>8. DOMAIN frames' = {1} /\ frames'[1] = frame
  BY <1>1
<1>9. \A x : Waiting(x)' <=> x \in topology.devices /\ BusOf(x) = bus
  BY <1>4, <1>7, <1>8 DEF Waiting
<1>10. \A b : Entered(b)' <=> Entered(b) \/ b = bus
  <2>1. \A a : BusOf(a)' = BusOf(a)
    BY <1>1 DEF BusOf
  <2>2. \A b : Entered(b) <=> \E a \in Listed : BusOf(a) = b
    BY <1>1 DEF Entered
  <2>3. \A b : Entered(b)' <=> (\E a \in Listed : BusOf(a) = b) \/ frame.bus = b
    BY <1>6, <1>8, <2>1 DEF Entered
  <2> QED
    BY <1>7, <2>2, <2>3
<1> QED
  BY <1>1, <1>2, <1>6, <1>7, <1>8, <1>9, <1>10 DEF bus

(* The windows stay, and so does all that is kept.                           *)
LEMMA SameKept ==
  ASSUME KeptInv, UNCHANGED vars
  PROVE  KeptInv'
<1>1. UNCHANGED <<renderer, topology, unread, windows, buses, frames, crashed, rows>>
  BY DEF vars
<1> QED
  BY <1>1 DEF KeptInv, BusesSeen, BusOf, Covered, Secondary, Listed, Waiting

(* Neither a bus nor a device is left behind.                                *)
LEMMA KeptStep ==
  ASSUME IInv, StackInv, KeptInv, Next
  PROVE  KeptInv'
<1>1. CASE ReadWindow \/ WindowUnreadable \/ WindowForeign
  <2>1. /\ UNCHANGED <<renderer, topology, buses, crashed, frames, rows>>
        /\ unread # {} /\ BusesSeen \subseteq Range(buses) /\ rows = << >> /\ Listed' = {}
    BY <1>1, WindowsFirst
  <2>2. BusesSeen' = BusesSeen /\ \A a : BusOf(a)' = BusOf(a)
    BY <2>1 DEF BusesSeen, BusOf
  <2>3. \A a \in topology.devices : BusOf(a) \in Range(buses)
    BY <2>1 DEF BusesSeen
  <2> QED
    BY <2>1, <2>2, <2>3 DEF KeptInv
<1>2. CASE SkipBus
  <2>1. /\ unread = {} /\ buses # << >> /\ buses' = Tail(buses) /\ Covered(Head(buses))
        /\ UNCHANGED <<renderer, topology, unread, windows, frames, crashed, rows>>
    BY <1>2 DEF SkipBus, AtBus
  <2>2. buses \in Seq(BusesSeen)
    BY DEF IInv, Types
  <2>3. \A x : x \in Range(buses) => x = Head(buses) \/ x \in Range(buses')
    BY <2>1, <2>2, RangeOfTail
  <2>4. /\ \A a : BusOf(a)' = BusOf(a) /\ Secondary(a)' = Secondary(a)
        /\ \A b : Covered(b)' <=> Covered(b)
    BY <2>1, SameWindows
  <2>5. Listed' = Listed /\ \A a : Waiting(a)' <=> Waiting(a)
    BY <2>1 DEF Listed, Waiting
  <2>6. /\ crashed' = crashed /\ topology' = topology /\ windows' = windows /\ unread' = {}
    BY <2>1
  <2> QED
    BY <2>1, <2>3, <2>4, <2>5, <2>6 DEF KeptInv
<1>3. CASE PushBus
  <2>1. /\ UNCHANGED <<renderer, topology, unread, windows, crashed>> /\ unread = {}
        /\ frames = << >> /\ buses \in Seq(BusesSeen) /\ buses # << >>
        /\ buses' = Tail(buses) /\ Listed' = Listed
        /\ \A x : Waiting(x)' <=> x \in topology.devices /\ BusOf(x) = Head(buses)
    BY <1>3, PushBusWaits
  <2>2. \A x : x \in Range(buses) => x = Head(buses) \/ x \in Range(buses')
    BY <2>1, RangeOfTail
  <2>3. /\ \A a : BusOf(a)' = BusOf(a) /\ Secondary(a)' = Secondary(a)
        /\ \A b : Covered(b)' <=> Covered(b)
    BY <2>1, SameWindows
  <2>4. \A x : ~Waiting(x)
    BY <2>1 DEF Waiting
  <2>5. /\ crashed' = crashed /\ topology' = topology /\ windows' = windows /\ unread' = {}
    BY <2>1
  <2> QED
    BY <2>1, <2>2, <2>3, <2>4, <2>5 DEF KeptInv
<1>4. CASE PushDevice
  <2>1. /\ UNCHANGED <<renderer, topology, unread, windows, buses>> /\ ~crashed
        /\ unread = {} /\ Listed' = Listed \cup {Pushing}
    BY <1>4, PushDeviceFacts
  <2>2. /\ \A a : BusOf(a)' = BusOf(a) /\ Secondary(a)' = Secondary(a)
        /\ \A b : Covered(b)' <=> Covered(b)
    BY <2>1, SameWindows
  <2>3. CASE crashed'
    BY <2>1, <2>3 DEF KeptInv
  <2>4. CASE ~crashed'
    <3>1. /\ \A x : Waiting(x) => x = Pushing \/ Waiting(x)'
          /\ \A x \in topology.devices : NewCall(BusOf(x)) => Waiting(x)'
      BY <1>4, <2>4, PushDeviceWaits
    <3>2. ASSUME NEW a \in topology.devices, NEW b \in DOMAIN windows,
                 Secondary(b) = BusOf(a), b \in Listed'
          PROVE  a \in Listed' \/ Waiting(a)'
      <4>1. CASE b \in Listed
        BY <2>1, <3>1, <3>2, <4>1 DEF KeptInv
      <4>2. CASE b = Pushing
        BY <3>1, <3>2, <4>2 DEF NewCall
      <4> QED
        BY <2>1, <3>2, <4>1, <4>2
    <3>3. ASSUME NEW a \in topology.devices
          PROVE  \/ Covered(BusOf(a)) \/ BusOf(a) \in Range(buses)
                 \/ a \in Listed' \/ Waiting(a)'
      BY <2>1, <3>1 DEF KeptInv
    <3>4. topology' = topology /\ windows' = windows /\ buses' = buses /\ unread' = {}
      BY <2>1
    <3> QED
      BY <2>2, <3>2, <3>3, <3>4 DEF KeptInv
  <2> QED
    BY <2>3, <2>4
<1>5. CASE PopFrame
  <2>1. /\ frames # << >> /\ frames' = SubSeq(frames, 1, Len(frames) - 1) /\ ~crashed
        /\ frames[Len(frames)].todo = << >>
        /\ UNCHANGED <<renderer, topology, unread, windows, buses, crashed, rows>>
    BY <1>5 DEF PopFrame, Front, Last
  <2>2. frames \in Seq(FrameSet) /\ Len(frames) \in Nat \ {0}
    BY <2>1 DEF IInv, Types
  <2>3. \A i \in DOMAIN frames :
          i = Len(frames) \/ (i \in DOMAIN frames' /\ frames'[i] = frames[i])
    BY <2>1, <2>2
  <2>4. \A x : x \notin Range(frames[Len(frames)].todo)
    BY <2>1 DEF Range
  <2>5. \A x : Waiting(x) => Waiting(x)'
    BY <2>3, <2>4 DEF Waiting
  <2>6. /\ \A a : BusOf(a)' = BusOf(a) /\ Secondary(a)' = Secondary(a)
        /\ \A b : Covered(b)' <=> Covered(b)
    BY <2>1, SameWindows
  <2>7. Listed' = Listed /\ BusesSeen' = BusesSeen
    BY <2>1 DEF Listed, BusesSeen, BusOf
  <2>8. /\ topology' = topology /\ windows' = windows /\ buses' = buses
        /\ unread' = unread /\ rows' = rows /\ crashed' = crashed
    BY <2>1
  <2> QED
    BY <2>5, <2>6, <2>7, <2>8 DEF KeptInv
<1> QED
  BY <1>1, <1>2, <1>3, <1>4, <1>5 DEF Next

(* A row for a device that is not listed yet lists it once.                  *)
LEMMA ListedOnceMore ==
  ASSUME rows \in Seq(RowSet), NEW row \in RowSet, rows' = Append(rows, row), ListedOnce,
         row.kind = "device" => row.at \notin Listed
  PROVE  ListedOnce'
<1>1. /\ Len(rows) \in Nat /\ DOMAIN rows = 1..Len(rows) /\ DOMAIN rows' = 1..(Len(rows) + 1)
      /\ rows'[Len(rows) + 1] = row /\ \A i \in 1..Len(rows) : rows'[i] = rows[i]
  OBVIOUS
<1>2. \A i \in DOMAIN rows' : i = Len(rows) + 1 \/ (i \in DOMAIN rows /\ rows'[i] = rows[i])
  BY <1>1
<1>3. \A i \in DOMAIN rows : rows[i].kind = "device" => rows[i].at \in Listed
  BY DEF Listed
<1>4. ASSUME NEW i \in DOMAIN rows', NEW j \in DOMAIN rows', rows'[i].kind = "device",
             rows'[j].kind = "device", rows'[i].at = rows'[j].at
      PROVE  i = j
  <2>1. CASE i \in DOMAIN rows /\ j \in DOMAIN rows
    BY <1>1, <1>4, <2>1 DEF ListedOnce
  <2>2. CASE i \notin DOMAIN rows \/ j \notin DOMAIN rows
    BY <1>1, <1>2, <1>3, <1>4, <2>2
  <2> QED
    BY <2>1, <2>2
<1> QED
  BY <1>4 DEF ListedOnce

(* A bus is pushed only if none of its devices has been.                     *)
LEMMA PushBusOnce ==
  ASSUME IInv, OnceInv, PushBus
  PROVE  OnceInv'
<1> DEFINE bus == Head(buses)
<1>1. /\ UNCHANGED <<renderer, topology, unread, windows, crashed>> /\ unread = {}
      /\ frames = << >> /\ buses \in Seq(BusesSeen) /\ buses # << >>
      /\ buses' = Tail(buses) /\ ~Covered(bus) /\ Listed' = Listed
      /\ DOMAIN frames' = {1} /\ frames'[1].bus = bus
      /\ frames'[1].todo = DevicesOn(bus)
      /\ \A x : Waiting(x)' <=> x \in topology.devices /\ BusOf(x) = bus
      /\ \A b : Entered(b)' <=> Entered(b) \/ b = bus
  BY PushBusWaits
<1>2. /\ Distinct(buses') /\ bus \notin Range(buses') /\ bus \in Range(buses)
      /\ \A b \in Range(buses') : b \in Range(buses)
  BY <1>1, DistinctTail, RangeOfTail DEF OnceInv
<1> HIDE DEF bus
<1>5. renderer \in DOMAIN Topologies /\ topology \in Topologies[renderer] /\ rows \in Seq(RowSet)
  BY DEF IInv, Types
<1>6. Distinct(DevicesOn(bus))
  BY <1>5, DevicesOnSeq
<1>7. /\ AsConfigured' <=> AsConfigured
      /\ \A b : Covered(b)' <=> Covered(b)
      /\ \A a : BusOf(a)' = BusOf(a) /\ Secondary(a)' = Secondary(a)
  BY <1>1, SameWindows
<1>8. ASSUME AsConfigured
      PROVE  ListedOnce'
  <2> DEFINE row == Row("bus", DevicesOn(Head(buses))[1], 0, 0, TRUE)
  <2>1. rows' = Append(rows, row) /\ row.kind = "bus"
    BY DEF PushBus, Row
  <2>2. row \in RowSet
    <3>1. Head(buses) \in BusesSeen
      BY <1>1
    <3>2. DevicesOn(Head(buses))[1] \in topology.devices
      BY <1>5, <3>1, DevicesOnSeq
    <3> QED
      BY <3>2 DEF Row, RowSet
  <2>3. ListedOnce
    BY <1>8 DEF OnceInv
  <2> HIDE DEF row
  <2> QED
    BY <1>5, <2>1, <2>2, <2>3, ListedOnceMore
<1>9. ASSUME AsConfigured, ~crashed
      PROVE  Apart'
  <2>1. Apart
    BY <1>9 DEF OnceInv
  <2>2. ~Entered(bus)
    BY <1>1, <1>2, <2>1 DEF Apart
  <2>3. \A a \in Listed : ~(BusOf(a) = bus)
    BY <2>2 DEF Entered
  <2>4. \A b \in DOMAIN windows : Covered(Secondary(b))
    BY <1>9, SecondaryApart
  <2>5. ASSUME NEW b, Entered(b)'
        PROVE  /\ b \in Range(buses') => Covered(b)
               /\ \A c \in DOMAIN windows : Secondary(c) = b => c \in Listed
    BY <1>1, <1>2, <2>1, <2>4, <2>5 DEF Apart
  <2>6. windows' = windows
    BY <1>1
  <2> QED
    BY <1>1, <1>6, <1>7, <2>3, <2>5, <2>6 DEF Apart
<1> QED
  BY <1>1, <1>2, <1>7, <1>8, <1>9 DEF OnceInv

(* So is a device, and a bridge leads to a bus that has not been entered.    *)
LEMMA PushDeviceOnce ==
  ASSUME IInv, StackInv, OnceInv, PushDevice
  PROVE  OnceInv'
<1> DEFINE k == Len(frames)
           a == Pushing
<1>1. /\ UNCHANGED <<renderer, topology, unread, windows, buses>> /\ ~crashed
      /\ k \in DOMAIN frames /\ a \in topology.devices
      /\ frames[k].todo \in Seq(topology.devices) /\ frames[k].todo # << >>
      /\ a = Head(frames[k].todo) /\ BusOf(a) = frames[k].bus
      /\ Waiting(a) /\ Listed' = Listed \cup {a}
      /\ ~crashed' => Turned
  BY PushDeviceFacts
<1>2. PICK row \in RowSet : row.kind = "device" /\ row.at = a /\ rows' = Append(rows, row)
  BY PushDeviceFacts
<1>3. renderer \in DOMAIN Topologies /\ topology \in Topologies[renderer] /\ rows \in Seq(RowSet)
  BY DEF IInv, Types
<1>4. /\ AsConfigured' <=> AsConfigured
      /\ \A b : Covered(b)' <=> Covered(b)
      /\ \A x : BusOf(x)' = BusOf(x) /\ Secondary(x)' = Secondary(x)
  BY <1>1, SameWindows
<1> HIDE DEF a
<1>5. ASSUME AsConfigured
      PROVE  ListedOnce' /\ a \notin Listed
  <2>1. ListedOnce /\ a \notin Listed
    BY <1>1, <1>5 DEF OnceInv, Apart
  <2> QED
    BY <1>2, <1>3, <2>1, ListedOnceMore
<1>6. ASSUME AsConfigured, ~crashed'
      PROVE  Apart'
  <2> DEFINE new == Secondary(a)
  <2>1. Apart /\ Turned /\ a \notin Listed
    BY <1>1, <1>5, <1>6 DEF OnceInv
  <2>2. /\ \A x : Waiting(x)' => Waiting(x) \/ NewCall(BusOf(x))
        /\ \A bus : Entered(bus)' => Entered(bus) \/ NewCall(bus)
    BY <1>6, PushDeviceWaits
  <2>3. \A bus : NewCall(bus) <=> a \in DOMAIN windows /\ bus = new
    BY DEF NewCall, a
  <2>4. a \in DOMAIN windows => Covered(new) /\ ~Entered(new)
    BY <1>6, <2>1, SecondaryApart DEF Apart
  <2>5. \A b \in DOMAIN windows : a \in DOMAIN windows /\ Secondary(b) = new => b = a
    BY <1>6, SecondaryApart
  <2>6. Distinct(Tail(frames[k].todo)) /\ a \notin Range(Tail(frames[k].todo))
    <3> DEFINE q == frames[k].todo
    <3>1. q \in Seq(topology.devices) /\ q # << >> /\ a = Head(q) /\ Distinct(q)
      BY <1>1, <2>1 DEF Apart
    <3> HIDE DEF q
    <3>2. Distinct(Tail(q)) /\ Head(q) \notin Range(Tail(q))
      BY <3>1, DistinctTail
    <3> QED
      BY <3>1, <3>2 DEF q
  <2>7. /\ Distinct(DevicesOn(new)) /\ \A x \in Range(DevicesOn(new)) : BusOf(x) = new
    BY <1>3, DevicesOnSeq
  <2>8. Entered(frames[k].bus)
    BY <1>1 DEF Entered
  <2>9. \A i \in DOMAIN frames : i # k => frames[i].bus # frames[k].bus
    BY <1>1, <2>1 DEF Apart
  <2>10. /\ \A i \in DOMAIN frames :
              /\ i \in DOMAIN frames' /\ frames'[i].bus = frames[i].bus
              /\ frames'[i].todo = IF i = k THEN Tail(frames[i].todo) ELSE frames[i].todo
         /\ \A i \in DOMAIN frames' :
              i \notin DOMAIN frames =>
                /\ i = k + 1 /\ a \in DOMAIN windows
                /\ frames'[i].bus = new /\ frames'[i].todo = DevicesOn(new)
    BY <2>1 DEF Turned, a
  <2> HIDE DEF new
  <2>11. ASSUME NEW i \in DOMAIN frames'
         PROVE  Distinct(frames'[i].todo)
    BY <2>1, <2>6, <2>7, <2>10 DEF Apart
  <2>12. ASSUME NEW i \in DOMAIN frames', NEW j \in DOMAIN frames', frames'[i].bus = frames'[j].bus
         PROVE  i = j
    <3>1. \A h \in DOMAIN frames : frames'[h].bus = frames[h].bus /\ Entered(frames[h].bus)
      BY <2>10 DEF Entered
    <3>2. CASE i \in DOMAIN frames /\ j \in DOMAIN frames
      BY <2>1, <2>12, <3>1, <3>2 DEF Apart
    <3>3. CASE i \notin DOMAIN frames /\ j \notin DOMAIN frames
      BY <2>10, <3>3
    <3>4. CASE i \in DOMAIN frames /\ j \notin DOMAIN frames
      BY <2>4, <2>10, <2>12, <3>1, <3>4
    <3>5. CASE i \notin DOMAIN frames /\ j \in DOMAIN frames
      BY <2>4, <2>10, <2>12, <3>1, <3>5
    <3> QED
      BY <3>2, <3>3, <3>4, <3>5
  <2>13. ASSUME NEW x \in Listed', Waiting(x)'
         PROVE  FALSE
    <3>1. CASE x \in Listed
      <4>1. ~Waiting(x) /\ Entered(BusOf(x))
        BY <2>1, <3>1 DEF Apart, Entered
      <4> QED
        BY <2>2, <2>3, <2>4, <2>13, <4>1
    <3>2. CASE x = a
      <4>1. PICK i \in DOMAIN frames' : a \in Range(frames'[i].todo)
        BY <2>13, <3>2 DEF Waiting
      <4>2. CASE i \notin DOMAIN frames
        <5>1. a \in DOMAIN windows /\ BusOf(a) = new
          BY <2>7, <2>10, <4>1, <4>2
        <5> QED
          BY <1>1, <2>4, <2>8, <5>1
      <4>3. CASE i = k
        BY <1>1, <2>6, <2>10, <4>1, <4>3
      <4>4. CASE i \in DOMAIN frames /\ i # k
        <5>1. a \in Range(frames[i].todo)
          BY <2>10, <4>1, <4>4
        <5>2. BusOf(a) = frames[i].bus
          BY <4>4, <5>1 DEF StackInv, Follows
        <5> QED
          BY <1>1, <2>9, <4>4, <5>2
      <4> QED
        BY <4>2, <4>3, <4>4
    <3> QED
      BY <1>1, <2>13, <3>1, <3>2
  <2>14. ASSUME NEW bus, Entered(bus)'
         PROVE  /\ bus \in Range(buses) => Covered(bus)
                /\ \A b \in DOMAIN windows : Secondary(b) = bus => b \in Listed'
    <3>1. CASE Entered(bus)
      BY <1>1, <2>1, <3>1 DEF Apart
    <3>2. CASE a \in DOMAIN windows /\ bus = new
      BY <1>1, <2>4, <2>5, <3>2
    <3> QED
      BY <2>2, <2>3, <2>14, <3>1, <3>2
  <2>15. windows' = windows /\ buses' = buses
    BY <1>1
  <2> QED
    BY <1>4, <2>11, <2>12, <2>13, <2>14, <2>15 DEF Apart
<1>7. Distinct(buses')
  BY <1>1 DEF OnceInv
<1> QED
  BY <1>4, <1>5, <1>6, <1>7 DEF OnceInv

(* When a call returns, nothing is entered.                                  *)
LEMMA PopOnce ==
  ASSUME IInv, OnceInv, PopFrame
  PROVE  OnceInv'
<1>1. /\ frames # << >> /\ frames' = SubSeq(frames, 1, Len(frames) - 1) /\ ~crashed
      /\ UNCHANGED <<renderer, topology, unread, windows, buses, crashed, rows>>
  BY DEF PopFrame, Front
<1>2. frames \in Seq(FrameSet) /\ Len(frames) \in Nat \ {0}
  BY <1>1 DEF IInv, Types
<1>3. \A i \in DOMAIN frames' : i \in DOMAIN frames /\ frames'[i] = frames[i]
  BY <1>1, <1>2
<1>4. /\ AsConfigured' <=> AsConfigured
      /\ \A b : Covered(b)' <=> Covered(b)
      /\ \A x : BusOf(x)' = BusOf(x) /\ Secondary(x)' = Secondary(x)
  BY <1>1, SameWindows
<1>5. Listed' = Listed
  BY <1>1 DEF Listed
<1>6. \A x : Waiting(x)' => Waiting(x)
  BY <1>3 DEF Waiting
<1>7. \A bus : Entered(bus)' => Entered(bus)
  BY <1>3, <1>4, <1>5 DEF Entered
<1>8. windows' = windows /\ buses' = buses /\ rows' = rows /\ ~crashed'
  BY <1>1
<1>9. Apart => Apart'
  BY <1>3, <1>4, <1>5, <1>6, <1>7, <1>8 DEF Apart
<1>10. ListedOnce' <=> ListedOnce
  BY <1>8 DEF ListedOnce
<1> QED
  BY <1>1, <1>4, <1>8, <1>9, <1>10 DEF OnceInv

(* A device below a bridge without a window and, above that, one with one.   *)
BehindUnread(a) == \E b \in Above(a) \ DOMAIN windows : Above(b) \cap DOMAIN windows # {}

Nesting(a) == Cardinality(Over(BusOf(a)))

(* A device that is not listed in the end sits on a bus some window covers:  *)
(* the bridge that leads to it has no window, or is not listed either.       *)
LEMMA HiddenOrBelow ==
  ASSUME Reached(topology), IInv, StackInv, KeptInv, AsConfigured, Built,
         NEW a \in topology.devices, a \notin Listed
  PROVE  \/ BehindUnread(a)
         \/ \E b \in topology.devices :
              /\ b \notin Listed /\ (BehindUnread(b) => BehindUnread(a))
              /\ Nesting(b) \in Nat /\ Nesting(a) = Nesting(b) + 1
<1> DEFINE w == topology.window
<1>1. /\ renderer \in DOMAIN Topologies /\ topology \in Topologies[renderer]
      /\ DOMAIN windows \subseteq Bridges
  BY DEF IInv, Types
<1>2. /\ Bridges \subseteq topology.devices /\ topology.devices \subseteq Address
      /\ \A b \in Bridges : w[b] \in Window
  BY <1>1, TopologyFacts
<1>3. \A b \in DOMAIN windows : windows[b] = w[b]
  BY DEF AsConfigured, Replaced
<1>4. Covered(BusOf(a)) /\ \A b \in DOMAIN windows : Secondary(b) = BusOf(a) => b \notin Listed
  <2>1. ~crashed /\ DOMAIN buses = {} /\ DOMAIN frames = {}
    BY DEF Built, StackInv, Crash
  <2>2. Range(buses) = {} /\ ~Waiting(a)
    BY <2>1 DEF Range, Waiting
  <2> QED
    BY <2>1, <2>2 DEF KeptInv
<1>5. PICK c \in DOMAIN windows : c.domain = a.domain /\ InWindow(w[c], a.bus)
  <2>1. PICK c \in DOMAIN windows : /\ BusOf(c).domain = BusOf(a).domain
                                    /\ InWindow(windows[c], BusOf(a).bus)
    BY <1>4 DEF Covered
  <2>2. BusOf(a).bus = a.bus
    BY DEF BusOf
  <2>3. c.domain = a.domain
    BY <1>1, <1>2, <2>1, DomainsApart DEF AsConfigured
  <2> QED
    BY <1>3, <2>1, <2>2, <2>3
<1>6. PICK b \in Bridges : b.domain = a.domain /\ w[b].secondary = a.bus
  BY <1>1, <1>5 DEF Reached, Bridges
<1>7. \A d \in Bridges :
        d.domain = a.domain =>
          (InWindow(w[d], a.bus) <=> d = b \/ InWindow(w[d], b.bus))
  BY <1>1, <1>6 DEF AsConfigured, Nested, Bridges
<1> HIDE DEF w
<1>8. CASE b \notin DOMAIN windows
  <2>1. b \in Above(a)
    BY <1>6, <1>7 DEF Above, w
  <2>2. c \in Above(b)
    BY <1>1, <1>5, <1>6, <1>7, <1>8 DEF Above, w
  <2> QED
    BY <1>8, <2>1, <2>2 DEF BehindUnread
<1>9. CASE b \in DOMAIN windows
  <2>1. Secondary(b) = BusOf(a)
    <3>1. BusOf(b).domain = BusOf(a).domain
      BY <1>6 DEF BusOf
    <3>2. BusOf(b) = [domain |-> BusOf(b).domain, bus |-> b.bus]
      BY DEF BusOf
    <3>3. Secondary(b) = [domain |-> BusOf(b).domain, bus |-> windows[b].secondary]
      BY <3>2 DEF Secondary
    <3>4. BusOf(a) = [domain |-> BusOf(a).domain, bus |-> a.bus]
      BY DEF BusOf
    <3> QED
      BY <1>3, <1>6, <1>9, <3>1, <3>3, <3>4
  <2>2. b \in topology.devices /\ b \notin Listed
    BY <1>2, <1>4, <1>9, <2>1
  <2>3. BehindUnread(b) => BehindUnread(a)
    <3>1. \A d \in Above(b) : d \in Above(a)
      BY <1>6, <1>7 DEF Above, w
    <3> QED
      BY <3>1 DEF BehindUnread
  <2>4. Nesting(b) \in Nat /\ Nesting(a) = Nesting(b) + 1
    <3> DEFINE S == Over(BusOf(b))
    <3>1. IsFiniteSet(S) /\ b \notin S /\ Over(BusOf(a)) = S \cup {b}
      BY <1>9, <2>1, OverSecondary
    <3> HIDE DEF S
    <3>2. Cardinality(S) \in Nat /\ Cardinality(S \cup {b}) = Cardinality(S) + 1
      BY <3>1, FS_AddElement, FS_CardinalityType
    <3> QED
      BY <3>1, <3>2 DEF Nesting, S
  <2> QED
    BY <2>2, <2>3, <2>4
<1> QED
  BY <1>8, <1>9

(* So upwards, to a bridge whose window could not be read.                   *)
LEMMA UnlistedBehindUnread ==
  ASSUME Reached(topology), IInv, StackInv, KeptInv, AsConfigured, Built,
         NEW a \in topology.devices, a \notin Listed
  PROVE  BehindUnread(a)
<1> DEFINE N == {n \in Nat : \A x \in topology.devices :
                             x \notin Listed /\ Nesting(x) = n => BehindUnread(x)}
<1>1. \A x \in topology.devices :
        x \notin Listed =>
          \/ BehindUnread(x)
          \/ \E b \in topology.devices :
               /\ b \notin Listed /\ (BehindUnread(b) => BehindUnread(x))
               /\ Nesting(b) \in Nat /\ Nesting(x) = Nesting(b) + 1
  BY HiddenOrBelow
<1>2. 0 \in N
  <2>1. \A m \in Nat : m + 1 # 0
    OBVIOUS
  <2> QED
    BY <1>1, <2>1
<1>3. ASSUME NEW n \in Nat, n \in N
      PROVE  n + 1 \in N
  <2>1. \A m \in Nat : m + 1 = n + 1 => m = n
    OBVIOUS
  <2> QED
    BY <1>1, <1>3, <2>1
<1> HIDE DEF N
<1>4. \A n \in Nat : n \in N
  BY <1>2, <1>3, Induct
<1>5. Nesting(a) \in Nat => BehindUnread(a)
  BY <1>4 DEF N
<1>6. Nesting(a) \in Nat \/ BehindUnread(a)
  BY <1>1
<1> QED
  BY <1>5, <1>6

(* Where firmware nests the windows and gives each bus with a device a       *)
(* bridge that leads to it, push_bus_devices lists no device twice and       *)
(* leaves out none, but below a bridge whose window could not be read.       *)
THEOREM NothingElseIsLost == Spec => []NothingElseLost
<1>1. Init => KeptInv /\ OnceInv
  <2> SUFFICES ASSUME Init
               PROVE  KeptInv /\ OnceInv
    OBVIOUS
  <2>1. /\ renderer \in DOMAIN Topologies /\ topology \in Topologies[renderer]
        /\ DOMAIN windows = {} /\ DOMAIN frames = {} /\ DOMAIN rows = {} /\ rows = << >>
        /\ buses = Sorted(BusesSeen, BusLess)
    BY DEF Init, BusesSeen
  <2>2. Range(buses) = BusesSeen /\ Distinct(buses)
    BY <2>1, BusesSeq
  <2>3. \A a \in topology.devices : BusOf(a) \in BusesSeen
    BY DEF BusesSeen
  <2>4. Listed = {} /\ \A bus : ~Entered(bus)
    BY <2>1 DEF Listed, Entered
  <2> QED
    BY <2>1, <2>2, <2>3, <2>4 DEF KeptInv, OnceInv, ListedOnce, Apart
<1>2. IInv /\ StackInv /\ KeptInv /\ OnceInv /\ [Next]_vars => KeptInv' /\ OnceInv'
  <2> SUFFICES ASSUME IInv, StackInv, KeptInv, OnceInv, [Next]_vars
               PROVE  KeptInv' /\ OnceInv'
    OBVIOUS
  <2>1. KeptInv'
    BY KeptStep, SameKept
  <2>2. CASE ReadWindow \/ WindowUnreadable \/ WindowForeign
    <3>1. /\ UNCHANGED <<buses, frames, rows>> /\ rows = << >> /\ frames = << >>
          /\ Listed' = {} /\ \A bus : ~Entered(bus)'
      BY <2>2, WindowsFirst
    <3>2. DOMAIN rows' = {} /\ DOMAIN frames' = {} /\ buses' = buses
      BY <3>1
    <3> QED
      BY <2>1, <3>1, <3>2 DEF OnceInv, ListedOnce, Apart
  <2>3. CASE SkipBus
    <3>1. /\ buses # << >> /\ buses' = Tail(buses) /\ buses \in Seq(BusesSeen)
          /\ UNCHANGED <<renderer, topology, unread, windows, frames, crashed, rows>>
      BY <2>3 DEF SkipBus, AtBus, IInv, Types
    <3>2. Distinct(buses') /\ \A b \in Range(buses') : b \in Range(buses)
      BY <3>1, DistinctTail, RangeOfTail DEF OnceInv
    <3>3. /\ AsConfigured' <=> AsConfigured
          /\ \A b : Covered(b)' <=> Covered(b)
          /\ \A x : BusOf(x)' = BusOf(x) /\ Secondary(x)' = Secondary(x)
      BY <3>1, SameWindows
    <3>4. /\ Listed' = Listed /\ \A x : Waiting(x)' <=> Waiting(x)
          /\ frames' = frames /\ windows' = windows /\ crashed' = crashed /\ rows' = rows
      BY <3>1 DEF Listed, Waiting
    <3>5. \A bus : Entered(bus)' <=> Entered(bus)
      BY <3>3, <3>4 DEF Entered
    <3>6. Apart => Apart'
      BY <3>2, <3>3, <3>4, <3>5 DEF Apart
    <3>7. ListedOnce' <=> ListedOnce
      BY <3>4 DEF ListedOnce
    <3> QED
      BY <2>1, <3>2, <3>3, <3>4, <3>6, <3>7 DEF OnceInv
  <2>4. CASE PushBus
    BY <2>1, <2>4, PushBusOnce
  <2>5. CASE PushDevice
    BY <2>1, <2>5, PushDeviceOnce
  <2>6. CASE PopFrame
    BY <2>1, <2>6, PopOnce
  <2>7. CASE UNCHANGED vars
    <3>1. UNCHANGED <<renderer, topology, unread, windows, buses, frames, crashed, rows>>
      BY <2>7 DEF vars
    <3>2. /\ AsConfigured' <=> AsConfigured
          /\ \A b : Covered(b)' <=> Covered(b)
          /\ \A x : BusOf(x)' = BusOf(x) /\ Secondary(x)' = Secondary(x)
      BY <3>1, SameWindows
    <3>3. /\ Listed' = Listed /\ \A x : Waiting(x)' <=> Waiting(x)
      BY <3>1 DEF Listed, Waiting
    <3>4. \A bus : Entered(bus)' <=> Entered(bus)
      BY <3>1, <3>2, <3>3 DEF Entered
    <3>5. Apart' <=> Apart
      BY <3>1, <3>2, <3>3, <3>4 DEF Apart
    <3>6. ListedOnce' <=> ListedOnce
      BY <3>1 DEF ListedOnce
    <3>7. OnceInv'
      BY <3>1, <3>2, <3>3, <3>5, <3>6 DEF OnceInv
    <3> QED
      BY <2>1, <3>7
  <2> QED
    BY <2>2, <2>3, <2>4, <2>5, <2>6, <2>7 DEF Next
<1>3. IInv /\ StackInv /\ KeptInv /\ OnceInv => NothingElseLost
  <2> SUFFICES ASSUME IInv, StackInv, KeptInv, OnceInv, AsConfigured
               PROVE  /\ ListedOnce
                      /\ Built /\ Reached(topology) =>
                           \A a \in topology.devices \ Listed : BehindUnread(a)
    BY DEF NothingElseLost, ListedOnce, BehindUnread
  <2>1. Built /\ Reached(topology) => \A a \in topology.devices \ Listed : BehindUnread(a)
    BY UnlistedBehindUnread
  <2> QED
    BY <2>1 DEF OnceInv
<1> QED
  BY <1>1, <1>2, <1>3, CallsFollowWindows, PTL DEF Spec

=============================================================================
