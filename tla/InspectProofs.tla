---------------------------- MODULE InspectProofs ---------------------------
(***************************************************************************)
(* Proofs about Inspect: which capabilities are listed, which of them have *)
(* content in the end, and what the report's field says, for every device  *)
(* (any capabilities and pointers, circles too) and any offsets it does not *)
(* answer for.                                                             *)
(*                                                                         *)
(* The inspection reads in many small steps into one cache, so the         *)
(* invariant says what each loop has brought in by now: of the capabilities*)
(* handled, the windows and the vendor payloads the device answers for.     *)
(***************************************************************************)
EXTENDS Inspect, WellFoundedInduction, SequenceTheorems, TLAPS

-----------------------------------------------------------------------------
(* Least elements, and induction stated about a set of numbers: to show    *)
(* P(n) for all n, apply Induct to {n \in Nat : P(n)}.                      *)

(* A non-empty set of natural numbers has a least element.                 *)
LEMMA Least ==
  ASSUME NEW T \in SUBSET Nat, T # {}
  PROVE  \E x \in T : \A y \in T : x <= y
<1> DEFINE R == OpToRel(<, Nat)
<1>1. IsWellFoundedOn(R, Nat)
  BY NatLessThanWellFounded
<1>2. \A x, y \in Nat : x < y => <<x, y>> \in R
  BY DEF OpToRel
<1> HIDE DEF R
<1>3. PICK x \in T : \A y \in T : ~ (<<y, x>> \in R)
  BY <1>1, WFMin
<1>4. \A y \in T : ~ (y < x)
  BY <1>2, <1>3
<1>5. \A y \in T : x <= y
  BY <1>4
<1> QED
  BY <1>5, Zenon

(* A set with 0 and with the successor of each of its members is all of Nat. *)
LEMMA Induct ==
  ASSUME NEW S, 0 \in S, \A n \in Nat : n \in S => n + 1 \in S
  PROVE  \A n \in Nat : n \in S
<1> DEFINE T == {n \in Nat : n \notin S}
<1> SUFFICES ASSUME T # {} PROVE FALSE
  OBVIOUS
<1>1. PICK x \in T : \A y \in T : x <= y
  <2>1. T \in SUBSET Nat
    OBVIOUS
  <2> HIDE DEF T
  <2> QED
    BY <2>1, Least
<1>2. x # 0 /\ x \in Nat /\ x \notin S
  BY <1>1
<1>3. x - 1 \in Nat /\ x - 1 \in S
  BY <1>1, <1>2
<1> QED
  BY <1>2, <1>3

(* The operator Min returns the least member of a set of naturals.          *)
LEMMA MinIsLeast ==
  ASSUME NEW T \in SUBSET Nat, T # {}
  PROVE  /\ Min(T) \in T
         /\ \A y \in T : Min(T) <= y
BY Least DEF Min

(* The lesser of two numbers.                                                *)
LEMMA MinOfTwo ==
  ASSUME NEW a \in Nat, NEW b \in Nat
  PROVE  Min({a, b}) = IF a <= b THEN a ELSE b
<1>1. {a, b} \in SUBSET Nat /\ {a, b} # {}
  OBVIOUS
<1>2. Min({a, b}) \in {a, b} /\ \A y \in {a, b} : Min({a, b}) <= y
  BY <1>1, MinIsLeast
<1> QED
  BY <1>2

-----------------------------------------------------------------------------
(* The invariant.                                                          *)

Before(k) == {"header", "startStandard"}
               \cup IF k = "extended" THEN {"standard"} ELSE {}

(* How a list that is no longer walked has ended.                           *)
Ended(k, list, status) ==
  \/ status = OwnReason(k, list)
  \/ /\ status = IF list = << >> THEN "Unavailable" ELSE "Truncated"
     /\ flips = 0 => Wanted(k, list) \cap deaf # {}

(* A list follows the device's pointers.  While it is walked the next one   *)
(* leads to a place where a header may be, and the list is not too long.    *)
WalkInv(k) ==
  LET list   == report[k].list
      status == report[k].status
  IN /\ Followed(k, list)
     /\ stage \in Before(k) => list = << >> /\ status = "Pending"
     /\ stage = k =>
          /\ status = "Pending" /\ Len(list) <= MaxNodes(k)
          /\ Position(k, list) \in Slots(k) /\ (k = "standard" => device.list)
     /\ stage \notin Before(k) \cup {k} => status # "Pending" /\ Ended(k, list, status)

(* The stages after the walks.                                              *)
Late == {"fetchStandard", "fetchExtended", "fetchVendor", "decode", "report", "done"}

HeaderInv ==
  /\ stage = "header" => ~headerReadable
  /\ stage \notin Late => i = 1
  /\ stage # "done" => field = "Pending"
  /\ stage = "done" =>
       field = IF ~headerReadable THEN "Unavailable"
               ELSE IF \A k \in Kind : report[k].status = "NotPresent"
               THEN "NotApplicable" ELSE "Available"
  /\ \A k \in Kind :
       content[k] = IF headerReadable /\ stage \in {"report", "done"} THEN Decoded(k) ELSE {}

(* The stages that come after a loop, and the indices it has handled.       *)
After(s) == CASE s = "fetchStandard" -> {"fetchExtended", "fetchVendor", "decode", "report", "done"}
              [] s = "fetchExtended" -> {"fetchVendor", "decode", "report", "done"}
              [] s = "fetchVendor"   -> {"decode", "report", "done"}

Handled(s, k) == {j \in 1..Len(report[k].list) : (stage = s /\ j < i) \/ stage \in After(s)}

Window(k, c) == Reg(c.offset, WindowEnd(k, c) - c.offset)

(* What a capability's window or, of a vendor capability that ends in its   *)
(* space, payload holds is cached, if the device answers for it.            *)
WindowHeld(k, c) == Window(k, c) \cap deaf = {} => Window(k, c) \subseteq cached

TailHeld(c) ==
  /\ c.format = "VendorSpecific" /\ c.offset + 3 + c.n <= 256
  /\ (Window("standard", c) \cup Needs(c)) \cap deaf = {}
  => Needs(c) \subseteq cached

HeldInv ==
  flips = 0 /\ headerReadable =>
    /\ \A j \in Handled("fetchStandard", "standard") : WindowHeld("standard", report["standard"].list[j])
    /\ \A j \in Handled("fetchExtended", "extended") : WindowHeld("extended", report["extended"].list[j])
    /\ \A j \in Handled("fetchVendor", "standard") : TailHeld(report["standard"].list[j])

(* A device that answers for its standard space.                            *)
AnsweredInv ==
  flips = 0 /\ deaf \cap (0..(Limit("standard") - 1)) = {} /\ stage # "header" => headerReadable

Types ==
  /\ device \in Devices /\ deaf \in DeafSets /\ flips \in 0..MaxFlips
  /\ stage \in {"header", "startStandard", "standard", "extended",
                "fetchStandard", "fetchExtended", "fetchVendor", "decode",
                "report", "done"}
  /\ i \in Nat \ {0}
  /\ cached \subseteq 0..(Limit("extended") - 1)
  /\ headerReadable \in BOOLEAN
  /\ report \in [Kind -> [list : Seq(Capabilities("standard") \cup Capabilities("extended")),
                         status : Status]]
  /\ content \in [Kind -> SUBSET Nat]
  /\ field \in {"Pending", "Unavailable", "NotApplicable", "Available"}

IInv ==
  /\ Types
  /\ \A k \in Kind : WalkInv(k)
  /\ HeaderInv /\ HeldInv /\ AnsweredInv

-----------------------------------------------------------------------------
(* The reader.                                                             *)

(* One turn of ReadRange's recursion, and that a function follows it for    *)
(* ranges of up to n bytes.                                                 *)
ReadTurn(g, r) ==
  LET left == r[2] \div 2
  IN IF Reg(r[1], r[2]) \cap deaf = {} THEN Reg(r[1], r[2])
     ELSE IF r[2] <= MinReadBlock THEN {}
     ELSE g[<<r[1], left>>] \cup g[<<r[1] + left, r[2] - left>>]

Reads(g, n) == g = [r \in Nat \X (0..n) |-> ReadTurn(g, r)]

(* A range longer than the smallest block splits into shorter ones.         *)
LEMMA Halves ==
  ASSUME NEW m \in Nat, NEW r \in Nat \X (0..m), ~(r[2] <= MinReadBlock)
  PROVE  /\ <<r[1], r[2] \div 2>> \in Nat \X (0..(m - 1))
         /\ <<r[1] + (r[2] \div 2), r[2] - (r[2] \div 2)>> \in Nat \X (0..(m - 1))
<1>1. r[1] \in Nat /\ r[2] \in 0..m /\ r[2] > 16
  BY DEF MinReadBlock
<1>2. (r[2] \div 2) \in 1..(r[2] - 1)
  BY <1>1
<1> QED
  BY <1>1, <1>2

(* There is such a function.                                                *)
LEMMA ReadsExists ==
  ASSUME NEW m \in Nat
  PROVE  \E g : Reads(g, m)
<1> DEFINE S == {n \in Nat : \E g : Reads(g, n)}
<1>1. 0 \in S
  <2> DEFINE g == [r \in Nat \X (0..0) |-> ReadTurn(<< >>, r)]
  <2>1. \A r \in Nat \X (0..0) : ReadTurn(g, r) = ReadTurn(<< >>, r)
    <3> HIDE DEF g
    <3>1. \A r \in Nat \X (0..0) : r[2] <= MinReadBlock
      BY DEF MinReadBlock
    <3> QED
      BY <3>1 DEF ReadTurn
  <2>2. g = [r \in Nat \X (0..0) |-> ReadTurn(g, r)]
    <3> HIDE DEF ReadTurn
    <3> QED
      BY <2>1
  <2> HIDE DEF g
  <2> QED
    BY <2>2 DEF Reads
<1>2. ASSUME NEW n \in Nat, n \in S PROVE n + 1 \in S
  <2>1. PICK f : Reads(f, n)
    BY <1>2
  <2> DEFINE g == [r \in Nat \X (0..(n + 1)) |-> IF r[2] <= n THEN f[r] ELSE ReadTurn(f, r)]
  <2>2. \A r \in Nat \X (0..n) : r \in Nat \X (0..(n + 1)) /\ r[2] <= n
    OBVIOUS
  <2>3. \A r \in Nat \X (0..n) : f[r] = ReadTurn(f, r)
    <3> HIDE DEF ReadTurn
    <3> QED
      BY <2>1 DEF Reads
  <2>4. \A r \in Nat \X (0..n) : g[r] = f[r]
    <3> HIDE DEF ReadTurn
    <3> QED
      BY <2>2
  <2>5. \A r \in Nat \X (0..(n + 1)) : g[r] = ReadTurn(f, r)
    <3> TAKE r \in Nat \X (0..(n + 1))
    <3>1. CASE r[2] <= n
      <4>1. r \in Nat \X (0..n)
        <5>1. r[1] \in Nat /\ r[2] \in 0..(n + 1) /\ r = <<r[1], r[2]>>
          OBVIOUS
        <5>2. r[2] \in 0..n
          BY <5>1, <3>1
        <5> QED
          BY <5>1, <5>2
      <4> HIDE DEF g
      <4> QED
        BY <4>1, <2>3, <2>4
    <3>2. CASE ~(r[2] <= n)
      <4> HIDE DEF ReadTurn
      <4> QED
        BY <3>2
    <3> QED
      BY <3>1, <3>2
  <2>6. \A r \in Nat \X (0..(n + 1)) : ReadTurn(g, r) = ReadTurn(f, r)
    <3> HIDE DEF g
    <3> TAKE r \in Nat \X (0..(n + 1))
    <3>1. CASE r[2] <= MinReadBlock
      BY <3>1 DEF ReadTurn
    <3>2. CASE ~(r[2] <= MinReadBlock)
      <4>1. n + 1 \in Nat /\ (n + 1) - 1 = n
        OBVIOUS
      <4>2. <<r[1], r[2] \div 2>> \in Nat \X (0..n)
            /\ <<r[1] + (r[2] \div 2), r[2] - (r[2] \div 2)>> \in Nat \X (0..n)
        BY <3>2, <4>1, Halves
      <4> QED
        BY <4>2, <2>4 DEF ReadTurn
    <3> QED
      BY <3>1, <3>2
  <2>7. g = [r \in Nat \X (0..(n + 1)) |-> ReadTurn(g, r)]
    <3>1. \A r \in Nat \X (0..(n + 1)) : g[r] = ReadTurn(g, r)
      <4> HIDE DEF g, ReadTurn
      <4> QED
        BY <2>5, <2>6
    <3>2. g = [r \in Nat \X (0..(n + 1)) |-> g[r]]
      <4> HIDE DEF ReadTurn
      <4> QED
        OBVIOUS
    <3> HIDE DEF g, ReadTurn
    <3> QED
      BY <3>1, <3>2
  <2> HIDE DEF g
  <2>8. \E h : Reads(h, n + 1)
    BY <2>7 DEF Reads
  <2> QED
    BY <2>8
<1> HIDE DEF S
<1>3. m \in S
  BY <1>1, <1>2, Induct
<1> QED
  BY <1>3 DEF S

(* A read brings bytes of its range only, and all of them if the device    *)
(* answers for all of them.                                                 *)
LEMMA ReadRangeFacts ==
  ASSUME NEW o \in Nat, NEW n \in Nat
  PROVE  /\ ReadRange(o, n) \subseteq Reg(o, n)
         /\ Reg(o, n) \cap deaf = {} => ReadRange(o, n) = Reg(o, n)
<1> DEFINE read == CHOOSE g : Reads(g, n)
<1>1. ReadRange(o, n) = read[<<o, n>>]
  BY DEF ReadRange, Reads, ReadTurn
<1>2. Reads(read, n)
  <2>1. \E g : Reads(g, n)
    BY ReadsExists
  <2> QED
    BY <2>1
<1> HIDE DEF read
<1>3. \A r \in Nat \X (0..n) : read[r] = ReadTurn(read, r)
  BY <1>2 DEF Reads
<1> DEFINE S == {k \in Nat : k <= n => \A r \in Nat \X (0..k) : read[r] \subseteq Reg(r[1], r[2])}
<1>4. 0 \in S
  <2> SUFFICES ASSUME NEW r \in Nat \X (0..0) PROVE read[r] \subseteq Reg(r[1], r[2])
    OBVIOUS
  <2>1. r \in Nat \X (0..n) /\ r[2] <= MinReadBlock
    BY DEF MinReadBlock
  <2>2. read[r] = ReadTurn(read, r)
    BY <1>3, <2>1
  <2> QED
    BY <2>1, <2>2 DEF ReadTurn
<1>5. ASSUME NEW k \in Nat, k \in S PROVE k + 1 \in S
  <2> SUFFICES ASSUME k + 1 <= n, NEW r \in Nat \X (0..(k + 1))
               PROVE  read[r] \subseteq Reg(r[1], r[2])
    OBVIOUS
  <2>1. r \in Nat \X (0..n)
    OBVIOUS
  <2>2. read[r] = ReadTurn(read, r)
    BY <1>3, <2>1
  <2>3. CASE r[2] <= MinReadBlock
    BY <2>2, <2>3 DEF ReadTurn
  <2>4. CASE ~(r[2] <= MinReadBlock)
    <3> DEFINE a == r[1]
               l == r[2] \div 2
    <3>1. k + 1 \in Nat /\ (k + 1) - 1 = k
      OBVIOUS
    <3>2. <<a, l>> \in Nat \X (0..k) /\ <<a + l, r[2] - l>> \in Nat \X (0..k)
      BY <2>4, <3>1, Halves
    <3>3. \A q \in Nat \X (0..k) : read[q] \subseteq Reg(q[1], q[2])
      BY <1>5, <3>1
    <3>4. read[<<a, l>>] \subseteq Reg(a, l) /\ read[<<a + l, r[2] - l>>] \subseteq Reg(a + l, r[2] - l)
      BY <3>2, <3>3
    <3>5. Reg(a, l) \subseteq Reg(a, r[2]) /\ Reg(a + l, r[2] - l) \subseteq Reg(a, r[2])
      <4>1. a \in Nat /\ r[2] \in Nat /\ l \in 0..r[2]
        BY <3>2
      <4> HIDE DEF a, l
      <4> QED
        BY <4>1 DEF Reg
    <3> QED
      BY <2>2, <3>4, <3>5 DEF ReadTurn
  <2> QED
    BY <2>3, <2>4
<1> HIDE DEF S
<1>6. n \in S
  BY <1>4, <1>5, Induct
<1>7. <<o, n>> \in Nat \X (0..n) /\ <<o, n>>[1] = o /\ <<o, n>>[2] = n
  OBVIOUS
<1>8. read[<<o, n>>] \subseteq Reg(o, n)
  BY <1>6, <1>7 DEF S
<1>9. Reg(o, n) \cap deaf = {} => read[<<o, n>>] = Reg(o, n)
  BY <1>3, <1>7 DEF ReadTurn
<1> QED
  BY <1>1, <1>8, <1>9

(* The end of a gap of the range lies behind its first byte.                *)
LEMMA GapEnd ==
  ASSUME NEW o \in Nat, NEW n \in Nat, NEW span \in SUBSET Reg(o, n), NEW b \in span
  PROVE  LET e == Min({x \in (b + 1)..(o + n) : x \notin span})
         IN /\ e \in (b + 1)..(o + n) /\ e \notin span
            /\ \A x \in (b + 1)..(o + n) : x \notin span => e <= x
<1> DEFINE T == {x \in (b + 1)..(o + n) : x \notin span}
<1>1. b \in o..(o + n - 1)
  BY DEF Reg
<1>2. T \in SUBSET Nat
  BY <1>1
<1>3. o + n \in T
  BY <1>1 DEF Reg
<1> HIDE DEF T
<1>4. Min(T) \in T /\ \A x \in T : Min(T) <= x
  BY <1>2, <1>3, MinIsLeast
<1> QED
  BY <1>4 DEF T

(* A fetch keeps what is cached, adds bytes of its range only, and has the  *)
(* whole range cached afterwards if the device answers for all of it.       *)
LEMMA FetchedFacts ==
  ASSUME NEW o \in Nat, NEW n \in Nat
  PROVE  /\ cached \subseteq Fetched(o, n)
         /\ Fetched(o, n) \subseteq cached \cup Reg(o, n)
         /\ Reg(o, n) \cap deaf = {} => Reg(o, n) \subseteq Fetched(o, n)
<1> DEFINE span == Reg(o, n) \ cached
           first == {b \in span : b - 1 \notin span}
           gapEnd(b) == Min({e \in (b + 1)..(o + n) : e \notin span})
<1>1. Fetched(o, n) = cached \cup UNION {ReadRange(b, gapEnd(b) - b) : b \in first}
  BY DEF Fetched
<1>2. span \in SUBSET Reg(o, n) /\ first \subseteq span
  OBVIOUS
<1>3. \A b \in first : b - 1 \notin span
  OBVIOUS
<1>4. \A b \in span : b - 1 \notin span => b \in first
  OBVIOUS
<1>5. \A b \in span :
        /\ gapEnd(b) \in (b + 1)..(o + n) /\ gapEnd(b) \notin span
        /\ \A x \in (b + 1)..(o + n) : x \notin span => gapEnd(b) <= x
  <2> HIDE DEF span
  <2> QED
    BY <1>2, GapEnd
<1>6. \A x \in Reg(o, n) : x \in span \/ x \in cached
  OBVIOUS
<1> HIDE DEF span, first, gapEnd
<1>7. \A b \in span : b \in Nat /\ gapEnd(b) - b \in Nat /\ Reg(b, gapEnd(b) - b) = b..(gapEnd(b) - 1)
                      /\ b..(gapEnd(b) - 1) \subseteq Reg(o, n)
  BY <1>2, <1>5 DEF Reg
<1>8. \A b \in first : ReadRange(b, gapEnd(b) - b) \subseteq Reg(o, n)
  <2> TAKE b \in first
  <2>1. b \in Nat /\ gapEnd(b) - b \in Nat /\ Reg(b, gapEnd(b) - b) \subseteq Reg(o, n)
    BY <1>2, <1>7
  <2>2. ReadRange(b, gapEnd(b) - b) \subseteq Reg(b, gapEnd(b) - b)
    BY <2>1, ReadRangeFacts
  <2> QED
    BY <2>1, <2>2
<1>9. ASSUME Reg(o, n) \cap deaf = {}, NEW x \in span
      PROVE  \E b \in first : x \in ReadRange(b, gapEnd(b) - b)
  <2> DEFINE T == {m \in o..x : m..x \subseteq span}
  <2>1. x \in o..(o + n - 1)
    BY <1>2 DEF Reg
  <2>2. x \in T
    <3>1. x \in o..x /\ \A y \in x..x : y = x
      BY <2>1
    <3> QED
      BY <3>1
  <2>3. T \in SUBSET Nat
    BY <2>1
  <2>4. PICK b \in T : \A m \in T : b <= m
    <3> HIDE DEF T
    <3> QED
      BY <2>2, <2>3, Least
  <2>5. b \in o..x /\ b..x \subseteq span
    BY <2>4
  <2>6. b \in span
    <3>1. b \in b..x
      BY <2>1, <2>5
    <3> QED
      BY <2>5, <3>1
  <2>7. b - 1 \notin span
    <3> SUFFICES ASSUME b - 1 \in span PROVE FALSE
      OBVIOUS
    <3>1. b - 1 \in o..x
      BY <1>2, <2>1, <2>5 DEF Reg
    <3>2. (b - 1)..x \subseteq span
      <4>1. \A y \in (b - 1)..x : y = b - 1 \/ y \in b..x
        BY <2>1, <2>5
      <4> QED
        BY <4>1, <2>5
    <3>3. b <= b - 1
      BY <2>4, <3>1, <3>2
    <3> QED
      BY <3>3, <2>1, <2>5
  <2>8. b \in first
    BY <1>4, <2>6, <2>7
  <2>9. x < gapEnd(b)
    <3> SUFFICES ASSUME ~(x < gapEnd(b)) PROVE FALSE
      OBVIOUS
    <3>1. gapEnd(b) \in (b + 1)..(o + n) /\ gapEnd(b) \notin span
      BY <1>5, <2>6
    <3>2. gapEnd(b) \in b..x
      BY <2>1, <2>5, <3>1
    <3> QED
      BY <2>5, <3>1, <3>2
  <2>10. Reg(b, gapEnd(b) - b) \cap deaf = {}
    BY <1>7, <1>9, <2>6
  <2>11. ReadRange(b, gapEnd(b) - b) = Reg(b, gapEnd(b) - b)
    BY <1>7, <2>6, <2>10, ReadRangeFacts
  <2>12. x \in Reg(b, gapEnd(b) - b)
    <3>1. gapEnd(b) \in (b + 1)..(o + n)
      BY <1>5, <2>6
    <3>2. x \in b..(gapEnd(b) - 1)
      BY <2>1, <2>5, <2>9, <3>1
    <3> QED
      BY <1>7, <2>6, <3>2
  <2> QED
    BY <2>8, <2>11, <2>12
<1>10. cached \subseteq Fetched(o, n)
  BY <1>1
<1>11. Fetched(o, n) \subseteq cached \cup Reg(o, n)
  BY <1>1, <1>8
<1>12. Reg(o, n) \cap deaf = {} => Reg(o, n) \subseteq Fetched(o, n)
  BY <1>1, <1>6, <1>9
<1> QED
  BY <1>10, <1>11, <1>12

-----------------------------------------------------------------------------
(* The formats.                                                            *)

(* Where a capability and its window lie.                                   *)
LEMMA WindowFacts ==
  ASSUME NEW k \in Kind, NEW c \in Capabilities(k)
  PROVE  /\ c.offset \in Nat /\ c.offset + 4 <= Limit(k)
         /\ c.n \in Nat
         /\ WindowEnd(k, c) = IF c.offset + WindowLength(k) <= Limit(k)
                              THEN c.offset + WindowLength(k) ELSE Limit(k)
         /\ WindowEnd(k, c) - c.offset \in Nat
         /\ WindowEnd(k, c) \in Nat /\ WindowEnd(k, c) <= Limit(k)
         /\ Window(k, c) = c.offset..(WindowEnd(k, c) - 1)
         /\ Limit(k) \in Nat /\ WindowLength(k) \in Nat /\ Limit(k) <= 4096
         /\ k = "standard" => WindowLength(k) = 64 /\ Limit(k) = 256
         /\ k = "extended" => WindowLength(k) = 96 /\ Limit(k) = 4096
<1>1. c.offset \in First(k)..(Limit(k) - 1) /\ c.offset % 4 = 0
  BY DEF Capabilities, Slots, Aligned
<1>2. k = "standard" \/ k = "extended"
  BY DEF Kind
<1>3. /\ k = "standard" => WindowLength(k) = 64 /\ Limit(k) = 256 /\ First(k) = 64
      /\ k = "extended" => WindowLength(k) = 96 /\ Limit(k) = 4096 /\ First(k) = 256
  BY DEF WindowLength, Limit, First
<1>4. c.offset \in Nat /\ c.offset + 4 <= Limit(k)
  BY <1>1, <1>2, <1>3
<1>5. WindowEnd(k, c) = IF c.offset + WindowLength(k) <= Limit(k)
                        THEN c.offset + WindowLength(k) ELSE Limit(k)
  BY <1>2, <1>3, <1>4, MinOfTwo DEF WindowEnd
<1>6. WindowEnd(k, c) - c.offset \in Nat /\ Window(k, c) = c.offset..(WindowEnd(k, c) - 1)
  BY <1>2, <1>3, <1>4, <1>5 DEF Window, Reg
<1>7. c.n \in Nat
  BY DEF Capabilities
<1>9. WindowEnd(k, c) \in Nat /\ WindowEnd(k, c) <= Limit(k)
  BY <1>2, <1>3, <1>4, <1>5
<1>8. Limit(k) \in Nat /\ WindowLength(k) \in Nat /\ Limit(k) <= 4096
  BY <1>2, <1>3
<1> QED
  BY <1>3, <1>4, <1>5, <1>6, <1>7, <1>8, <1>9

(* The window is the range that inspect fetches.                            *)
LEMMA WindowIs ==
  ASSUME NEW k \in Kind, NEW c \in Capabilities(k)
  PROVE  Window(k, c) = c.offset..(WindowEnd(k, c) - 1)
BY WindowFacts

(* No decoder of a format of bounded size reads behind the window.          *)
LEMMA FootprintInWindow ==
  ASSUME NEW k \in Kind, NEW c \in Capabilities(k), c.format \in Bounded
  PROVE  Footprint(c) \subseteq 0..(WindowLength(k) - 1)
<1>1. CASE k = "standard"
  <2>1. c.format \in {"Pm", "Vpd", "SlotId", "Msi", "PciX", "HotPlug", "Pcie", "MsiX"}
    BY <1>1 DEF Capabilities, Bounded, StandardFormats, ExtendedFormats
  <2>2. WindowLength(k) = 64
    BY <1>1 DEF WindowLength
  <2>3. CASE c.format \in {"Pm", "Vpd", "SlotId", "HotPlug"}
    BY <2>2, <2>3 DEF Footprint, Pm, Vpd, SlotId, HotPlug, Reg
  <2>4. CASE c.format \in {"Msi", "PciX", "MsiX"}
    BY <2>2, <2>4 DEF Footprint, Msi, PciX, MsiX, Reg
  <2>5. CASE c.format = "Pcie"
    BY <2>2, <2>5 DEF Footprint, Pcie, Reg
  <2> QED
    BY <2>1, <2>3, <2>4, <2>5
<1>2. CASE k = "extended"
  <2>1. c.format \in {"Dsn", "Acs", "Ari", "Aer", "Sriov", "Dpc", "SecondaryPcie",
                      "Ats", "Pri", "Ltr", "Pasid", "Ptm"}
    BY <1>2 DEF Capabilities, Bounded, StandardFormats, ExtendedFormats
  <2>2. WindowLength(k) = 96
    BY <1>2 DEF WindowLength
  <2>3. CASE c.format \in {"Dsn", "Ari", "Ats", "Pasid", "Ltr", "Ptm"}
    BY <2>2, <2>3 DEF Footprint, Dsn, Ari, Ats, Pasid, Ltr, Ptm, Reg
  <2>4. CASE c.format \in {"Pri", "SecondaryPcie", "Dpc"}
    BY <2>2, <2>4 DEF Footprint, Pri, SecondaryPcie, Dpc, Reg
  <2>5. CASE c.format = "Aer"
    BY <2>2, <2>5 DEF Footprint, Aer, Reg
  <2>6. CASE c.format = "Sriov"
    BY <2>2, <2>6 DEF Footprint, Sriov, Reg
  <2>7. CASE c.format = "Acs"
    <3>1. c.n \in 0..255
      <4>1. c.format \in {"VendorSpecific", "Acs"} => c.n <= 255
        BY DEF Capabilities
      <4>2. c.n <= 255 /\ c.n \in Nat
        BY <2>7, <4>1, WindowFacts
      <4> QED
        BY <4>2
    <3>2. (c.n + 7) \div 8 \in 0..32
      BY <3>1
    <3>3. Reg(8, (c.n + 7) \div 8) \subseteq 0..39
      BY <3>2 DEF Reg
    <3>4. Footprint(c) = Acs(c)
      BY <2>7 DEF Footprint
    <3> QED
      BY <2>2, <3>3, <3>4 DEF Acs, Reg
  <2> QED
    BY <2>1, <2>3, <2>4, <2>5, <2>6, <2>7
<1> QED
  BY <1>1, <1>2 DEF Kind

(* So what such a decoder needs, as far as it is in the space, is in the    *)
(* window.                                                                  *)
LEMMA NeedsInWindow ==
  ASSUME NEW k \in Kind, NEW c \in Capabilities(k), c.format \in Bounded,
         Needs(c) \subseteq 0..(Limit(k) - 1)
  PROVE  Needs(c) \subseteq Window(k, c) /\ HasDecoder(c)
<1>1. Footprint(c) \subseteq 0..(WindowLength(k) - 1)
  BY FootprintInWindow
<1>2. \A x \in Needs(c) : x \in c.offset..(c.offset + WindowLength(k) - 1) /\ x <= Limit(k) - 1
  <2>1. c.offset \in Nat /\ Limit(k) \in Nat /\ WindowLength(k) \in Nat
    BY WindowFacts
  <2>2. \A x \in Needs(c) : x \in c.offset..(c.offset + WindowLength(k) - 1)
    BY <1>1, <2>1 DEF Needs
  <2> QED
    BY <2>1, <2>2
<1>3. Needs(c) \subseteq Window(k, c)
  <2>1. /\ c.offset \in Nat /\ Limit(k) \in Nat /\ WindowLength(k) \in Nat
        /\ WindowEnd(k, c) = IF c.offset + WindowLength(k) <= Limit(k)
                             THEN c.offset + WindowLength(k) ELSE Limit(k)
    BY WindowFacts
  <2>2. \A x \in Needs(c) : x \in c.offset..(WindowEnd(k, c) - 1)
    BY <1>2, <2>1
  <2> QED
    BY <2>2, WindowIs
<1>4. HasDecoder(c)
  BY DEF HasDecoder, Bounded, StandardFormats, ExtendedFormats
<1> QED
  BY <1>3, <1>4

(* What the decoder of a vendor-specific capability reads.                  *)
LEMMA VendorNeeds ==
  ASSUME NEW c \in Capabilities("standard"), c.format = "VendorSpecific"
  PROVE  /\ Needs(c) = {c.offset + 2} \cup Reg(c.offset + 3, c.n)
         /\ c.offset + 2 \in Window("standard", c)
<1>1. "standard" \in Kind
  BY DEF Kind
<1>2. c.offset \in Nat /\ c.n \in Nat /\ c.offset + 4 <= 256
  BY <1>1, WindowFacts
<1>3. Footprint(c) = Reg(2, 1) \cup Reg(3, c.n)
  BY DEF Footprint, Vendor
<1>4. Footprint(c) = {2} \cup (3..(2 + c.n))
  BY <1>2, <1>3 DEF Reg
<1>5. Needs(c) \subseteq {c.offset + 2} \cup ((c.offset + 3)..(c.offset + 2 + c.n))
  BY <1>2, <1>4 DEF Needs
<1>6. \A x \in (c.offset + 3)..(c.offset + 2 + c.n) :
        x - c.offset \in 3..(2 + c.n) /\ x = c.offset + (x - c.offset)
  BY <1>2
<1>7. {c.offset + 2} \cup ((c.offset + 3)..(c.offset + 2 + c.n)) \subseteq Needs(c)
  BY <1>4, <1>6 DEF Needs
<1>8. Reg(c.offset + 3, c.n) = (c.offset + 3)..(c.offset + 2 + c.n)
  BY <1>2 DEF Reg
<1>9. c.offset + 2 \in Window("standard", c)
  BY <1>1, <1>2, WindowFacts
<1> QED
  BY <1>5, <1>7, <1>8, <1>9

(* Which of the first n + 1 VF BAR registers decode_sriov looks at.         *)
Visits(g, bars, n) == g = [b \in 0..n |-> b = 0 \/ ~(g[b - 1] /\ TwoRegisters(bars, b - 1))]

(* There is such a function.                                                *)
LEMMA VisitsExists ==
  ASSUME NEW bars, NEW m \in Nat
  PROVE  \E g : Visits(g, bars, m)
<1> DEFINE S == {n \in Nat : \E g : Visits(g, bars, n)}
<1>1. 0 \in S
  <2> DEFINE g == [b \in 0..0 |-> TRUE]
  <2>1. g = [b \in 0..0 |-> b = 0 \/ ~(g[b - 1] /\ TwoRegisters(bars, b - 1))]
    <3>1. \A b \in 0..0 : TRUE = (b = 0 \/ ~(g[b - 1] /\ TwoRegisters(bars, b - 1)))
      OBVIOUS
    <3> QED
      BY <3>1, Zenon
  <2> HIDE DEF g
  <2> QED
    BY <2>1 DEF Visits
<1>2. ASSUME NEW n \in Nat, n \in S PROVE n + 1 \in S
  <2>1. PICK f : Visits(f, bars, n)
    BY <1>2
  <2> DEFINE g == [b \in 0..(n + 1) |-> IF b = n + 1 THEN ~(f[n] /\ TwoRegisters(bars, n)) ELSE f[b]]
  <2>2. \A b \in 0..(n + 1) : g[b] = IF b = n + 1 THEN ~(f[n] /\ TwoRegisters(bars, n)) ELSE f[b]
    OBVIOUS
  <2>3. g = [b \in 0..(n + 1) |-> g[b]]
    OBVIOUS
  <2> HIDE DEF g
  <2>4. \A b \in 0..n : b # n + 1 /\ b \in 0..(n + 1)
    OBVIOUS
  <2>5. \A b \in 0..n : g[b] = f[b]
    BY <2>2, <2>4
  <2>6. \A b \in 0..n : f[b] = (b = 0 \/ ~(f[b - 1] /\ TwoRegisters(bars, b - 1)))
    BY <2>1 DEF Visits
  <2>7. \A b \in 0..(n + 1) : g[b] = (b = 0 \/ ~(g[b - 1] /\ TwoRegisters(bars, b - 1)))
    <3> TAKE b \in 0..(n + 1)
    <3>1. CASE b = n + 1
      <4>1. b - 1 = n /\ n \in 0..n /\ b # 0 /\ b \in 0..(n + 1)
        BY <3>1
      <4> QED
        BY <2>2, <2>5, <3>1, <4>1
    <3>2. CASE b # n + 1
      <4>1. b \in 0..n /\ (b = 0 \/ b - 1 \in 0..n)
        BY <3>2
      <4> QED
        BY <2>5, <2>6, <4>1
    <3> QED
      BY <3>1, <3>2
  <2>8. Visits(g, bars, n + 1)
    BY <2>3, <2>7 DEF Visits
  <2> QED
    BY <2>8
<1> HIDE DEF S
<1>3. m \in S
  BY <1>1, <1>2, Induct
<1> QED
  BY <1>3 DEF S

(* The BARs share out the registers.                                        *)
BarsTile(bars) ==
  /\ \A r \in 0..5 : bars[r] # "zero" =>
       \E b \in DOMAIN VfBars(bars) : r \in VfBars(bars)[b].registers
  /\ \A a, b \in DOMAIN VfBars(bars) : a # b =>
       VfBars(bars)[a].registers \cap VfBars(bars)[b].registers = {}
  /\ \A b \in DOMAIN VfBars(bars) : VfBars(bars)[b].is_64_bit <=>
       VfBars(bars)[b].registers = {b, b + 1} \/ (b = 5 /\ bars[b] = "mem64")

(* They do, whatever the registers hold: a register no BAR starts at was    *)
(* taken by the one before it, and one that was taken starts none.          *)
LEMMA VfBarsShareRegisters ==
  ASSUME NEW bars
  PROVE  BarsTile(bars)
<1> DEFINE visited == CHOOSE g : Visits(g, bars, 5)
           starts  == {r \in 0..5 : visited[r] /\ bars[r] # "zero"}
           regs(b) == IF TwoRegisters(bars, b) THEN {b, b + 1} ELSE {b}
<1>1. VfBars(bars) = [b \in starts |->
        [kind |-> IF bars[b] = "io" THEN "Io" ELSE "Memory",
         is_64_bit |-> bars[b] = "mem64", registers |-> regs(b)]]
  BY DEF VfBars, Visits
<1>2. Visits(visited, bars, 5)
  BY VisitsExists
<1> HIDE DEF visited
<1>3. \A b \in 0..5 : visited[b] = (b = 0 \/ ~(visited[b - 1] /\ TwoRegisters(bars, b - 1)))
  BY <1>2 DEF Visits
<1>4. \A b \in starts : b \in 0..5 /\ visited[b] /\ bars[b] # "zero"
  OBVIOUS
<1>5. \A b \in 0..5 : visited[b] /\ bars[b] # "zero" => b \in starts
  OBVIOUS
<1>6. /\ DOMAIN VfBars(bars) = starts
      /\ \A b \in starts : /\ VfBars(bars)[b].is_64_bit = (bars[b] = "mem64")
                           /\ VfBars(bars)[b].registers = regs(b)
  <2> HIDE DEF starts, regs
  <2> QED
    BY <1>1
<1> HIDE DEF starts
<1>7. \A r \in 0..5 : bars[r] # "zero" => \E b \in starts : r \in regs(b)
  <2> TAKE r \in 0..5
  <2> HAVE bars[r] # "zero"
  <2>1. CASE visited[r]
    <3>1. r \in starts /\ r \in regs(r)
      BY <1>5, <2>1
    <3> QED
      BY <3>1
  <2>2. CASE ~visited[r]
    <3>1. r # 0 /\ visited[r - 1] /\ TwoRegisters(bars, r - 1)
      BY <1>3, <2>2
    <3>2. r - 1 \in 0..5 /\ bars[r - 1] # "zero" /\ (r - 1) + 1 = r
      BY <3>1 DEF TwoRegisters
    <3>3. r - 1 \in starts /\ r \in regs(r - 1)
      BY <1>5, <3>1, <3>2
    <3> QED
      BY <3>3
  <2> QED
    BY <2>1, <2>2
<1>8. ASSUME NEW a \in starts, NEW b \in starts, b = a + 1, TwoRegisters(bars, a)
      PROVE  FALSE
  <2>1. b \in 0..5 /\ b # 0 /\ b - 1 = a /\ visited[a] /\ visited[b]
    BY <1>4, <1>8
  <2> QED
    BY <1>3, <1>8, <2>1
<1>9. \A a, b \in starts : a # b => regs(a) \cap regs(b) = {}
  <2> TAKE a, b \in starts
  <2> HAVE a # b
  <2>1. a \in 0..5 /\ b \in 0..5
    BY <1>4
  <2>2. b = a + 1 => ~TwoRegisters(bars, a)
    BY <1>8
  <2>3. a = b + 1 => ~TwoRegisters(bars, b)
    BY <1>8
  <2>4. a + 1 # b + 1
    BY <2>1
  <2> QED
    BY <2>2, <2>3, <2>4
<1>10. \A b \in starts : bars[b] = "mem64" <=> regs(b) = {b, b + 1} \/ (b = 5 /\ bars[b] = "mem64")
  <2> TAKE b \in starts
  <2>1. b \in 0..5
    BY <1>4
  <2>2. TwoRegisters(bars, b) <=> bars[b] = "mem64" /\ b # 5
    BY <2>1 DEF TwoRegisters
  <2>3. {b} # {b, b + 1}
    BY <2>1
  <2> QED
    BY <2>2, <2>3
<1> HIDE DEF regs
<1> DEFINE D == DOMAIN VfBars(bars)
<1>11. \A r \in 0..5 : bars[r] # "zero" => \E b \in D : r \in VfBars(bars)[b].registers
  BY <1>6, <1>7
<1>12. \A a, b \in D : a # b => VfBars(bars)[a].registers \cap VfBars(bars)[b].registers = {}
  BY <1>6, <1>9
<1>13. \A b \in D : VfBars(bars)[b].is_64_bit <=>
         VfBars(bars)[b].registers = {b, b + 1} \/ (b = 5 /\ bars[b] = "mem64")
  BY <1>6, <1>10
<1> QED
  BY <1>11, <1>12, <1>13 DEF BarsTile

-----------------------------------------------------------------------------
(* The device, its pointers and the lists.                                 *)

(* What the device's spaces hold.                                           *)
LEMMA DeviceFacts ==
  ASSUME device \in Devices, NEW k \in Kind
  PROVE  /\ device.list \in BOOLEAN /\ device.pointer \in Nat
         /\ DOMAIN device[k] \subseteq Slots(k)
         /\ \A o \in DOMAIN device[k] : device[k][o] \in Capabilities(k) /\ device[k][o].offset = o
<1>1. IsDevice(device)
  BY DevicesAssumption
<1>2. device.pointer \in 0..255
  BY <1>1 DEF IsDevice
<1>3. device.pointer \in Nat
  BY <1>2
<1> QED
  BY <1>1, <1>3 DEF IsDevice

(* A pointer is followed exactly if a header may lie where it leads.        *)
LEMMA PointerFacts ==
  ASSUME NEW k \in Kind, NEW p \in Nat, NEW zero \in Status, zero # "Pending"
  PROVE  /\ PointerStatus(k, p, zero) \in Status
         /\ PointerStatus(k, p, zero) = "Pending" <=> p \in Slots(k)
         /\ PointerStatus(k, p, zero) = "NotPresent" => zero = "NotPresent"
         /\ p # 0 => PointerStatus(k, p, zero) = PointerStatus(k, p, "Complete")
<1>1. First(k) \in Nat /\ First(k) > 0 /\ Limit(k) \in Nat
  BY DEF First, Limit
<1>2. p \in Slots(k) <=> p # 0 /\ InRange(k, p) /\ Aligned(p)
  BY <1>1 DEF Slots, InRange
<1>3. {"OffsetOutOfRange", "MisalignedOffset", "Pending"} \subseteq Status
  BY DEF Status
<1> QED
  BY <1>2, <1>3 DEF PointerStatus

(* A header lies in its space.                                              *)
LEMMA SlotFacts ==
  ASSUME NEW k \in Kind, NEW p \in Slots(k)
  PROVE  /\ p \in Nat /\ HeaderLength(k) \in Nat
         /\ Reg(p, HeaderLength(k)) \subseteq 0..(Limit("extended") - 1)
<1>1. k = "standard" \/ k = "extended"
  BY DEF Kind
<1>2. p \in First(k)..(Limit(k) - 1) /\ p % 4 = 0
  BY DEF Slots, Aligned
<1>3. /\ k = "standard" => First(k) = 64 /\ Limit(k) = 256 /\ HeaderLength(k) = 2
      /\ k = "extended" => First(k) = 256 /\ Limit(k) = 4096 /\ HeaderLength(k) = 4
      /\ Limit("extended") = 4096
  BY DEF First, Limit, HeaderLength
<1>4. p \in Nat /\ p + HeaderLength(k) <= 4096 /\ HeaderLength(k) \in Nat
  BY <1>1, <1>2, <1>3
<1> QED
  BY <1>3, <1>4 DEF Reg

(* What is said of lists depends on the device alone.                       *)
LEMMA SameDevice ==
  ASSUME device' = device
  PROVE  \A k, list :
           /\ Followed(k, list)' <=> Followed(k, list)
           /\ OwnReason(k, list)' = OwnReason(k, list)
           /\ Wanted(k, list)' = Wanted(k, list)
           /\ Position(k, list)' = Position(k, list)
BY DEF Followed, OwnReason, Wanted, Position, Start, Header, Offsets, PointerStatus

(* The capabilities of both spaces.                                         *)
AnyCapability == Capabilities("standard") \cup Capabilities("extended")

(* A list that follows the pointers holds capabilities of its kind.         *)
LEMMA FollowedFacts ==
  ASSUME device \in Devices, NEW k \in Kind, NEW list \in Seq(AnyCapability), Followed(k, list)
  PROVE  /\ Len(list) \in Nat /\ \A j \in 1..Len(list) : list[j] \in Capabilities(k)
         /\ list \in Seq(Capabilities(k))
         /\ Position(k, list) \in Nat
         /\ list = << >> => Position(k, list) = Start(k)
         /\ list # << >> => Len(list) # 0 /\ Position(k, list) = list[Len(list)].next
<1>1. Len(list) \in Nat /\ DOMAIN list = 1..Len(list) /\ (list # << >> => Len(list) # 0)
  OBVIOUS
<1>2. \A j \in 1..Len(list) : list[j] \in Capabilities(k)
  BY DeviceFacts DEF Followed
<1>3. list \in Seq(Capabilities(k))
  BY <1>1, <1>2
<1>4. /\ list = << >> => Position(k, list) = Start(k)
      /\ list # << >> => Position(k, list) = list[Len(list)].next
  BY DEF Position
<1>5. Start(k) \in Nat
  <2>1. device.pointer \in Nat /\ 256 \in Nat
    BY DeviceFacts
  <2> QED
    BY <2>1, Zenon DEF Start
<1>6. \A c \in Capabilities(k) : c.next \in Nat
  <2>1. Limit(k) \in Nat
    BY DEF Limit
  <2> QED
    BY <2>1 DEF Capabilities
<1>7. list # << >> => list[Len(list)].next \in Nat
  <2>1. list # << >> => Len(list) \in 1..Len(list)
    BY <1>1
  <2> QED
    BY <1>2, <1>6, <2>1
<1> QED
  BY <1>1, <1>2, <1>3, <1>4, <1>5, <1>7

(* A list holds capabilities of its kind.                                   *)
LEMMA ListFacts ==
  ASSUME Types, NEW k \in Kind, WalkInv(k)
  PROVE  /\ Len(report[k].list) \in Nat
         /\ report[k].list \in Seq(AnyCapability)
         /\ report[k].list \in Seq(Capabilities(k))
         /\ \A j \in 1..Len(report[k].list) : report[k].list[j] \in Capabilities(k)
<1>1. device \in Devices /\ report[k].list \in Seq(AnyCapability)
  BY DEF Types, AnyCapability
<1>2. Followed(k, report[k].list)
  BY DEF WalkInv
<1> QED
  BY <1>1, <1>2, FollowedFacts

(* An empty list follows the pointers ...                                   *)
LEMMA EmptyFollowed ==
  \A k : Followed(k, << >>)
BY DEF Followed

(* ... and so does one that gets the node it leads to, if that is new.      *)
LEMMA FollowedGrows ==
  ASSUME device \in Devices, NEW k \in Kind, NEW list \in Seq(AnyCapability), Followed(k, list),
         Position(k, list) \in DOMAIN device[k], Position(k, list) \notin Offsets(list)
  PROVE  LET c == device[k][Position(k, list)]
         IN /\ Append(list, c) \in Seq(AnyCapability)
            /\ Len(Append(list, c)) = Len(list) + 1
            /\ Followed(k, Append(list, c))
            /\ Append(list, c) # << >> /\ Position(k, Append(list, c)) = c.next
<1> DEFINE p == Position(k, list)
           c == device[k][p]
           longer == Append(list, c)
           n == Len(list)
<1>1. c \in Capabilities(k) /\ c.offset = p /\ c \in AnyCapability
  BY DeviceFacts DEF AnyCapability, Kind
<1>2. /\ n \in Nat
      /\ list = << >> => p = Start(k)
      /\ list # << >> => n # 0 /\ p = list[n].next
  BY FollowedFacts
<1> HIDE DEF c, p
<1>3. /\ longer \in Seq(AnyCapability) /\ Len(longer) = n + 1
      /\ \A j \in 1..n : longer[j] = list[j]
      /\ longer[n + 1] = c
  BY <1>1, AppendProperties
<1>4. n = 0 <=> list = << >>
  OBVIOUS
<1> HIDE DEF longer
<1>5. ASSUME NEW j \in 1..(n + 1)
      PROVE  LET q == IF j = 1 THEN Start(k) ELSE longer[j - 1].next
             IN q \in DOMAIN device[k] /\ longer[j] = device[k][q]
  <2>1. CASE j \in 1..n
    <3>1. longer[j] = list[j] /\ (j # 1 => longer[j - 1] = list[j - 1])
      BY <1>2, <1>3, <2>1
    <3> QED
      BY <2>1, <3>1 DEF Followed
  <2>2. CASE j = n + 1
    <3>1. p = IF j = 1 THEN Start(k) ELSE longer[j - 1].next
      BY <1>2, <1>3, <1>4, <2>2
    <3> QED
      BY <1>3, <2>2, <3>1 DEF c, p
  <2> QED
    BY <1>2, <2>1, <2>2
<1>6. ASSUME NEW a \in 1..(n + 1), NEW b \in 1..(n + 1), longer[a].offset = longer[b].offset
      PROVE  a = b
  <2>1. \A j \in 1..n : longer[j].offset # c.offset
    BY <1>1, <1>3 DEF Offsets, p
  <2>2. (a \in 1..n \/ a = n + 1) /\ (b \in 1..n \/ b = n + 1)
    BY <1>2
  <2>3. a \in 1..n /\ b \in 1..n => a = b
    BY <1>3, <1>6 DEF Followed
  <2> QED
    BY <1>3, <1>6, <2>1, <2>2, <2>3
<1>7. Followed(k, longer)
  BY <1>3, <1>5, <1>6 DEF Followed
<1>8. longer # << >> /\ Position(k, longer) = c.next
  <2>1. longer # << >>
    BY <1>2, <1>3
  <2> QED
    BY <1>2, <1>3, <2>1 DEF Position
<1> QED
  BY <1>3, <1>7, <1>8 DEF longer, c, p

-----------------------------------------------------------------------------
(* The invariant is inductive.                                             *)

(* Nothing has happened yet.                                                *)
LEMMA InitIInv == Init => IInv
<1> SUFFICES ASSUME Init PROVE IInv
  OBVIOUS
<1>1. Types
  <2>1. << >> \in Seq(Capabilities("standard") \cup Capabilities("extended"))
    OBVIOUS
  <2>2. flips \in 0..MaxFlips
    BY BoundsAssumption DEF Init
  <2>3. report \in [Kind -> [list : Seq(Capabilities("standard") \cup Capabilities("extended")),
                            status : Status]]
    BY <2>1 DEF Init, Status
  <2>4. content \in [Kind -> SUBSET Nat]
    BY DEF Init
  <2>5. device \in Devices /\ deaf \in DeafSets /\ i \in Nat \ {0}
    BY DEF Init
  <2>6. cached \subseteq 0..(Limit("extended") - 1)
    BY DEF Init
  <2>7. headerReadable \in BOOLEAN /\ stage = "header" /\ field = "Pending"
    BY DEF Init
  <2> QED
    BY <2>2, <2>3, <2>4, <2>5, <2>6, <2>7 DEF Types
<1>2. \A k \in Kind : WalkInv(k)
  <2> TAKE k \in Kind
  <2>1. report[k].list = << >> /\ report[k].status = "Pending"
    BY DEF Init
  <2>2. stage \in Before(k) /\ stage # k
    BY DEF Init, Before, Kind
  <2>3. Followed(k, << >>)
    BY EmptyFollowed
  <2> QED
    BY <2>1, <2>2, <2>3 DEF WalkInv
<1>3. HeaderInv
  BY DEF Init, HeaderInv
<1>4. HeldInv
  BY DEF Init, HeldInv
<1>5. AnsweredInv
  BY DEF Init, AnsweredInv, Before
<1> QED
  BY <1>1, <1>2, <1>3, <1>4, <1>5 DEF IInv

(* What is held stays held while the cache grows and the device does not    *)
(* change.                                                                  *)
LEMMA HeldStays ==
  ASSUME cached \subseteq cached', deaf' = deaf
  PROVE  /\ \A k \in Kind : \A c : WindowHeld(k, c) => WindowHeld(k, c)'
         /\ \A c : TailHeld(c) => TailHeld(c)'
BY DEF WindowHeld, TailHeld

(* A stage after the walks keeps what holds of them.                        *)
LEMMA WalksStay ==
  ASSUME \A k \in Kind : WalkInv(k), stage \in Late, stage' \in Late,
         UNCHANGED <<device, report, flips, deaf>>
  PROVE  \A k \in Kind : WalkInv(k)'
<1>1. \A k \in Kind : stage \notin Before(k) \cup {k} /\ stage' \notin Before(k) \cup {k}
  BY DEF Late, Before, Kind
<1> QED
  BY <1>1, SameDevice DEF WalkInv, Ended

(* The device changes what it answers for.                                  *)
LEMMA FlipsStep ==
  ASSUME IInv, DeviceFlips
  PROVE  IInv'
<1>1. /\ UNCHANGED <<device, stage, i, cached, headerReadable, report, content, field>>
      /\ flips' = flips + 1 /\ flips < MaxFlips /\ deaf' \in DeafSets
  BY DEF DeviceFlips
<1>2. flips' \in 0..MaxFlips /\ flips' # 0
  BY <1>1, BoundsAssumption DEF IInv, Types
<1>3. Types'
  BY <1>1, <1>2 DEF IInv, Types
<1>4. \A k \in Kind : WalkInv(k)'
  BY <1>1, <1>2, SameDevice DEF IInv, WalkInv, Ended
<1>5. HeaderInv'
  BY <1>1 DEF IInv, HeaderInv, Decoded
<1>6. HeldInv' /\ AnsweredInv'
  BY <1>2 DEF HeldInv, AnsweredInv
<1> QED
  BY <1>3, <1>4, <1>5, <1>6 DEF IInv

(* Where bytes of the standard header lie.                                  *)
LEMMA HeaderBytes ==
  /\ Reg(0, 64) \subseteq 0..(Limit("standard") - 1)
  /\ Reg(0, 64) \subseteq 0..(Limit("extended") - 1)
  /\ Reg(256, 4) \subseteq 0..(Limit("extended") - 1)
BY DEF Reg, Limit

(* The first look at the header.                                            *)
LEMMA ReadHeaderStep ==
  ASSUME IInv, ReadHeader
  PROVE  IInv'
<1>1. /\ stage = "header" /\ stage' = "startStandard"
      /\ cached' = Fetched(0, 64) /\ headerReadable' = (Reg(0, 64) \subseteq cached')
      /\ UNCHANGED <<device, deaf, flips, i, report, content, field>>
  BY DEF ReadHeader
<1>2. /\ cached \subseteq cached' /\ cached' \subseteq cached \cup Reg(0, 64)
      /\ Reg(0, 64) \cap deaf = {} => Reg(0, 64) \subseteq cached'
  BY <1>1, FetchedFacts
<1>3. Types'
  <2>1. cached' \subseteq 0..(Limit("extended") - 1)
    BY <1>2, HeaderBytes DEF IInv, Types
  <2>2. stage' \in {"header", "startStandard", "standard", "extended",
                    "fetchStandard", "fetchExtended", "fetchVendor", "decode",
                    "report", "done"} /\ headerReadable' \in BOOLEAN
    BY <1>1
  <2> QED
    BY <1>1, <2>1, <2>2 DEF IInv, Types
<1>4. \A k \in Kind : WalkInv(k)'
  <2>1. \A k \in Kind : stage \in Before(k) /\ stage' \in Before(k) /\ stage' # k
    BY <1>1 DEF Before, Kind
  <2> QED
    BY <1>1, <2>1, SameDevice DEF IInv, WalkInv
<1>5. HeaderInv'
  BY <1>1 DEF IInv, HeaderInv, Late
<1>6. HeldInv'
  BY <1>1 DEF HeldInv, Handled, After
<1>7. AnsweredInv'
  BY <1>1, <1>2, HeaderBytes DEF AnsweredInv
<1> QED
  BY <1>3, <1>4, <1>5, <1>6, <1>7 DEF IInv

(* What a step of a discovery makes of the invariant: the list it comes to  *)
(* follows the pointers, and its status says how to go on or why not.       *)
LEMMA DiscoversInv ==
  ASSUME IInv, NEW k \in Kind, stage = k \/ (stage = "startStandard" /\ k = "standard"),
         NEW list \in Seq(AnyCapability), NEW status \in Status, Discovers(k, list, status),
         UNCHANGED <<device, deaf, flips, i, headerReadable, content, field>>,
         cached \subseteq cached', cached' \subseteq 0..(Limit("extended") - 1),
         Followed(k, list),
         status = "Pending" => /\ Len(list) <= MaxNodes(k) /\ Position(k, list) \in Slots(k)
                               /\ k = "standard" => device.list,
         status # "Pending" => Ended(k, list, status)
  PROVE  IInv'
<1>1. /\ report' = [report EXCEPT ![k] = [list |-> list, status |-> status]]
      /\ stage' = IF status = "Pending" THEN k
                  ELSE IF k = "standard" THEN "extended" ELSE "fetchStandard"
  BY DEF Discovers
<1>2. /\ report'[k].list = list /\ report'[k].status = status
      /\ \A m \in Kind \ {k} : report'[m] = report[m]
      /\ report' \in [Kind -> [list : Seq(AnyCapability), status : Status]]
  BY <1>1 DEF IInv, Types, AnyCapability
<1>3. k \in {"standard", "extended"}
  BY DEF Kind
<1>4. stage \in {"startStandard", "standard", "extended"} /\ stage' \in {"standard", "extended", "fetchStandard"}
  BY <1>1, <1>3
<1>5. Types'
  BY <1>2, <1>4 DEF IInv, Types, AnyCapability
<1>6. i' = 1
  BY <1>4 DEF IInv, HeaderInv, Late
<1>7. HeaderInv'
  BY <1>4, <1>6 DEF IInv, HeaderInv
<1>8. HeldInv'
  <2>1. \A j \in Nat : ~(j < 1 /\ j > 0)
    OBVIOUS
  <2>2. \A m \in Kind : Len(report'[m].list) \in Nat
    BY <1>2
  <2>3. /\ Handled("fetchStandard", "standard")' = {} /\ Handled("fetchExtended", "extended")' = {}
        /\ Handled("fetchVendor", "standard")' = {}
    <3>1. /\ stage' \notin After("fetchStandard")
          /\ stage' # "fetchExtended" /\ stage' \notin After("fetchExtended")
          /\ stage' # "fetchVendor" /\ stage' \notin After("fetchVendor")
      BY <1>4 DEF After
    <3>2. \A m \in Kind : \A j \in 1..Len(report'[m].list) : ~(j < i')
      BY <1>6, <2>2
    <3> QED
      BY <3>1, <3>2 DEF Handled, Kind
  <2> QED
    BY <2>3 DEF HeldInv
<1>9. AnsweredInv'
  BY <1>4 DEF IInv, AnsweredInv
<1>10. WalkInv(k)'
  <2>1. stage' \notin Before(k)
    BY <1>1 DEF Kind, Before
  <2>2. stage' = k <=> status = "Pending"
    BY <1>1, <1>3
  <2>3. Ended(k, list, status)' <=> Ended(k, list, status)
    BY SameDevice DEF Ended
  <2> QED
    BY <1>2, <2>1, <2>2, <2>3, SameDevice DEF WalkInv
<1>11. ASSUME NEW m \in Kind \ {k} PROVE WalkInv(m)'
  <2>1. report'[m] = report[m] /\ WalkInv(m)
    BY <1>2 DEF IInv
  <2>2. CASE k = "standard"
    <3>1. m = "extended"
      BY <2>2 DEF Kind
    <3>2. /\ stage \in Before(m) /\ stage # m
          /\ (stage' \in Before(m) /\ stage' # m) \/ (stage' = m /\ stage' \notin Before(m))
      BY <1>1, <1>4, <2>2, <3>1 DEF Before
    <3>3. report[m].list = << >> /\ report[m].status = "Pending"
      BY <2>1, <3>2 DEF WalkInv
    <3>4. Len(<< >>) = 0 /\ Position(m, << >>) = 256 /\ 256 \in Slots(m) /\ 0 <= MaxNodes(m)
      BY <3>1 DEF Position, Start, Slots, Aligned, First, Limit, MaxNodes
    <3>5. Position(m, << >>)' = 256
      BY <3>4, SameDevice
    <3>6. Followed(m, << >>)'
      BY EmptyFollowed, SameDevice
    <3> QED
      BY <2>1, <3>1, <3>2, <3>3, <3>4, <3>5, <3>6 DEF WalkInv
  <2>3. CASE k = "extended"
    <3>1. m = "standard"
      BY <2>3 DEF Kind
    <3>2. stage \notin Before(m) \cup {m} /\ stage' \notin Before(m) \cup {m}
      BY <1>1, <2>3, <3>1 DEF Before
    <3> QED
      BY <2>1, <3>2, SameDevice DEF WalkInv, Ended
  <2> QED
    BY <1>3, <2>2, <2>3
<1>12. \A m \in Kind : WalkInv(m)'
  BY <1>10, <1>11
<1> QED
  BY <1>5, <1>7, <1>8, <1>9, <1>12 DEF IInv

(* discover_standard looks at the header and finds, or not, a chain.        *)
LEMMA StartStandardStep ==
  ASSUME IInv, StartStandard
  PROVE  IInv'
<1> DEFINE pointed == PointerStatus("standard", device.pointer, "InvalidNextPointer")
           status  == IF ~(Reg(0, 64) \subseteq cached') THEN "Unavailable"
                      ELSE IF ~device.list THEN "NotPresent"
                      ELSE pointed
<1>1. /\ stage = "startStandard" /\ cached' = Fetched(0, 64)
      /\ Discovers("standard", << >>, status)
      /\ UNCHANGED <<device, deaf, flips, i, headerReadable, content, field>>
  BY DEF StartStandard
<1>2. /\ cached \subseteq cached' /\ cached' \subseteq cached \cup Reg(0, 64)
      /\ Reg(0, 64) \cap deaf = {} => Reg(0, 64) \subseteq cached'
  BY <1>1, FetchedFacts
<1>3. cached' \subseteq 0..(Limit("extended") - 1)
  BY <1>2, HeaderBytes DEF IInv, Types
<1>4. "standard" \in Kind /\ device \in Devices
  BY DEF Kind, IInv, Types
<1>5. device.pointer \in Nat
  BY <1>4, DeviceFacts
<1>6. /\ pointed \in Status
      /\ pointed = "Pending" <=> device.pointer \in Slots("standard")
  <2>1. "InvalidNextPointer" \in Status /\ "InvalidNextPointer" # "Pending"
    BY DEF Status
  <2> QED
    BY <1>4, <1>5, <2>1, PointerFacts
<1>7. Position("standard", << >>) = device.pointer /\ Len(<< >>) = 0 /\ << >> \in Seq(AnyCapability)
      /\ 0 <= MaxNodes("standard") /\ Followed("standard", << >>)
  BY EmptyFollowed DEF Position, Start, MaxNodes
<1>8. OwnReason("standard", << >>) = IF ~device.list THEN "NotPresent"
                                     ELSE IF pointed # "Pending" THEN pointed
                                     ELSE OwnReason("standard", << >>)
  BY <1>7 DEF OwnReason
<1> HIDE DEF pointed
<1>9. status \in Status
  BY <1>6 DEF Status
<1>10. status = "Pending" => device.list /\ Position("standard", << >>) \in Slots("standard")
  BY <1>6, <1>7
<1>11. status # "Pending" => Ended("standard", << >>, status)
  <2>1. CASE ~(Reg(0, 64) \subseteq cached')
    <3>1. Reg(0, 64) \cap deaf # {} /\ Reg(0, 64) \subseteq Wanted("standard", << >>)
      BY <1>2, <2>1 DEF Wanted
    <3> QED
      BY <2>1, <3>1 DEF Ended
  <2>2. CASE Reg(0, 64) \subseteq cached'
    BY <1>8, <2>2 DEF Ended
  <2> QED
    BY <2>1, <2>2
<1> HIDE DEF status
<1> QED
  BY <1>1, <1>2, <1>3, <1>4, <1>7, <1>9, <1>10, <1>11, DiscoversInv

(* The chain that is walked, and what its next header is.                   *)
LEMMA WalkFacts ==
  ASSUME IInv, NEW k \in Kind, stage = k
  PROVE  LET list == report[k].list
             p    == Position(k, list)
         IN /\ list \in Seq(AnyCapability) /\ Followed(k, list) /\ Len(list) \in Nat
            /\ device \in Devices /\ Len(list) <= MaxNodes(k) /\ p \in Slots(k)
            /\ k = "standard" => device.list
            /\ \A zero \in {"InvalidNextPointer", "Complete"} : PointerStatus(k, p, zero) = "Pending"
<1> DEFINE list == report[k].list
           p    == Position(k, list)
<1>1. Types /\ WalkInv(k) /\ device \in Devices
  BY DEF IInv, Types
<1>2. list \in Seq(AnyCapability) /\ Followed(k, list) /\ Len(list) \in Nat
  BY <1>1, ListFacts DEF WalkInv
<1>3. Len(list) <= MaxNodes(k) /\ p \in Slots(k) /\ (k = "standard" => device.list)
  BY <1>1 DEF WalkInv
<1>4. p \in Nat
  BY <1>3, SlotFacts
<1> HIDE DEF p
<1>5. {"InvalidNextPointer", "Complete"} \subseteq Status \ {"Pending"}
  BY DEF Status
<1>6. \A zero \in {"InvalidNextPointer", "Complete"} : PointerStatus(k, p, zero) = "Pending"
  BY <1>3, <1>4, <1>5, PointerFacts
<1> QED
  BY <1>1, <1>2, <1>3, <1>6 DEF p

(* The bound on the nodes, and a node seen before.                          *)
LEMMA ListFullStep ==
  ASSUME IInv, NEW k \in Kind, ListFull(k) \/ CycleFound(k)
  PROVE  IInv'
<1> DEFINE list   == report[k].list
           status == IF ListFull(k) THEN "Truncated" ELSE "CycleDetected"
<1>1. /\ stage = k /\ Discovers(k, list, status)
      /\ UNCHANGED <<device, deaf, flips, i, cached, headerReadable, content, field>>
      /\ ListFull(k) => Len(list) >= MaxNodes(k)
      /\ ~ListFull(k) => Len(list) < MaxNodes(k) /\ Position(k, list) \in Offsets(list)
  BY DEF ListFull, CycleFound
<1>2. /\ list \in Seq(AnyCapability) /\ Followed(k, list) /\ Len(list) \in Nat
      /\ Len(list) <= MaxNodes(k) /\ (k = "standard" => device.list)
      /\ \A zero \in {"InvalidNextPointer", "Complete"} :
           PointerStatus(k, Position(k, list), zero) = "Pending"
  BY <1>1, WalkFacts
<1>3. MaxNodes(k) \in Nat
  BY DEF MaxNodes
<1>4. status \in Status /\ status # "Pending"
  BY DEF Status
<1>5. Len(list) = MaxNodes(k) <=> ListFull(k)
  BY <1>1, <1>2, <1>3
<1> HIDE DEF list
<1>6. status = OwnReason(k, list)
  BY <1>1, <1>2, <1>5 DEF OwnReason
<1>7. cached \subseteq cached' /\ cached' \subseteq 0..(Limit("extended") - 1)
  BY <1>1 DEF IInv, Types
<1> HIDE DEF status
<1> QED
  BY <1>1, <1>2, <1>4, <1>6, <1>7, DiscoversInv DEF Ended

(* The next header is read.                                                 *)
LEMMA ReadsNodeFacts ==
  ASSUME IInv, NEW k \in Kind, ReadsNode(k)
  PROVE  LET list == report[k].list
         IN /\ stage = k /\ Len(list) < MaxNodes(k) /\ Position(k, list) \notin Offsets(list)
            /\ UNCHANGED <<device, deaf, flips, i, headerReadable, content, field>>
            /\ cached \subseteq cached' /\ cached' \subseteq 0..(Limit("extended") - 1)
            /\ Header(k, list) \cap deaf = {} => Header(k, list) \subseteq cached'
<1> DEFINE list == report[k].list
           p    == Position(k, list)
<1>1. /\ stage = k /\ Len(list) < MaxNodes(k) /\ p \notin Offsets(list)
      /\ cached' = Fetched(p, HeaderLength(k))
      /\ UNCHANGED <<device, deaf, flips, i, headerReadable, content, field>>
  BY DEF ReadsNode
<1>2. p \in Slots(k)
  BY <1>1, WalkFacts
<1>3. Header(k, list) = Reg(p, HeaderLength(k))
  BY DEF Header
<1> HIDE DEF p
<1>4. /\ p \in Nat /\ HeaderLength(k) \in Nat
      /\ Reg(p, HeaderLength(k)) \subseteq 0..(Limit("extended") - 1)
  BY <1>2, SlotFacts
<1>5. /\ cached \subseteq cached' /\ cached' \subseteq cached \cup Reg(p, HeaderLength(k))
      /\ Reg(p, HeaderLength(k)) \cap deaf = {} => Reg(p, HeaderLength(k)) \subseteq cached'
  BY <1>1, <1>4, FetchedFacts
<1>6. cached \subseteq 0..(Limit("extended") - 1)
  BY DEF IInv, Types
<1> QED
  BY <1>1, <1>3, <1>4, <1>5, <1>6 DEF p

(* The walk ends at a header that cannot be read or is zero.                *)
LEMMA NodeMissingStep ==
  ASSUME IInv, NEW k \in Kind, NodeUnreadable(k) \/ NodeZero(k)
  PROVE  IInv'
<1> DEFINE list   == report[k].list
           read   == Header(k, list) \subseteq cached'
           status == IF ~read THEN IF list = << >> THEN "Unavailable" ELSE "Truncated"
                     ELSE IF list = << >> /\ k = "extended" THEN "NotPresent"
                     ELSE "MissingHeader"
<1>1. /\ ReadsNode(k) /\ Discovers(k, list, status)
      /\ read => Position(k, list) \notin DOMAIN device[k]
  BY DEF NodeUnreadable, NodeZero
<1>2. /\ stage = k /\ Len(list) < MaxNodes(k) /\ Position(k, list) \notin Offsets(list)
      /\ UNCHANGED <<device, deaf, flips, i, headerReadable, content, field>>
      /\ cached \subseteq cached' /\ cached' \subseteq 0..(Limit("extended") - 1)
      /\ Header(k, list) \cap deaf = {} => read
  BY <1>1, ReadsNodeFacts
<1>3. /\ list \in Seq(AnyCapability) /\ Followed(k, list) /\ Len(list) \in Nat
      /\ (k = "standard" => device.list)
      /\ \A zero \in {"InvalidNextPointer", "Complete"} :
           PointerStatus(k, Position(k, list), zero) = "Pending"
  BY <1>2, WalkFacts
<1>4. status \in Status /\ status # "Pending"
  BY DEF Status
<1>5. Len(list) # MaxNodes(k)
  BY <1>2, <1>3 DEF MaxNodes
<1> HIDE DEF list
<1>6. Ended(k, list, status)
  <2>1. CASE read
    <3>1. status = OwnReason(k, list)
      BY <1>1, <1>2, <1>3, <1>5, <2>1 DEF OwnReason
    <3> QED
      BY <3>1 DEF Ended
  <2>2. CASE ~read
    <3>1. Header(k, list) \subseteq Wanted(k, list)
      BY <1>3 DEF Wanted
    <3> QED
      BY <1>2, <2>2, <3>1 DEF Ended
  <2> QED
    BY <2>1, <2>2
<1> HIDE DEF status
<1> QED
  BY <1>1, <1>2, <1>3, <1>4, <1>6, DiscoversInv

(* A node joins the list.                                                   *)
LEMMA NodeListedStep ==
  ASSUME IInv, NEW k \in Kind, NodeListed(k)
  PROVE  IInv'
<1> DEFINE list   == report[k].list
           c      == device[k][Position(k, list)]
           longer == Append(list, c)
           status == PointerStatus(k, c.next, "Complete")
<1>1. ReadsNode(k) /\ Discovers(k, longer, status) /\ Position(k, list) \in DOMAIN device[k]
  BY DEF NodeListed
<1>2. /\ stage = k /\ Len(list) < MaxNodes(k) /\ Position(k, list) \notin Offsets(list)
      /\ UNCHANGED <<device, deaf, flips, i, headerReadable, content, field>>
      /\ cached \subseteq cached' /\ cached' \subseteq 0..(Limit("extended") - 1)
  BY <1>1, ReadsNodeFacts
<1>3. /\ list \in Seq(AnyCapability) /\ Followed(k, list) /\ Len(list) \in Nat
      /\ device \in Devices /\ (k = "standard" => device.list)
  BY <1>2, WalkFacts
<1>4. /\ longer \in Seq(AnyCapability) /\ Len(longer) = Len(list) + 1 /\ Followed(k, longer)
      /\ longer # << >> /\ Position(k, longer) = c.next
  <2> HIDE DEF list
  <2> QED
    BY <1>1, <1>2, <1>3, FollowedGrows
<1>5. Len(longer) <= MaxNodes(k)
  BY <1>2, <1>3, <1>4 DEF MaxNodes
<1>6. Position(k, longer) \in Nat
  <2> HIDE DEF longer
  <2> QED
    BY <1>3, <1>4, FollowedFacts
<1>7. status \in Status /\ (status = "Pending" <=> Position(k, longer) \in Slots(k))
  <2>1. "Complete" \in Status /\ "Complete" # "Pending"
    BY DEF Status
  <2> QED
    BY <1>4, <1>6, <2>1, PointerFacts
<1>8. status = PointerStatus(k, Position(k, longer), "Complete")
  BY <1>4
<1> HIDE DEF status, longer, c
<1>9. status # "Pending" => status = OwnReason(k, longer)
  BY <1>3, <1>4, <1>8 DEF OwnReason
<1> QED
  BY <1>1, <1>2, <1>3, <1>4, <1>5, <1>7, <1>9, DiscoversInv DEF Ended

(* A turn of a walk.                                                        *)
LEMMA WalkNodeStep ==
  ASSUME IInv, NEW k \in Kind, WalkNode(k)
  PROVE  IInv'
BY ListFullStep, NodeMissingStep, NodeListedStep DEF WalkNode

-----------------------------------------------------------------------------
(* The loops after the walks.                                              *)

(* What a step among the late stages that decodes nothing keeps.            *)
LEMMA LateFrame ==
  ASSUME IInv, stage \in Late \ {"decode", "report", "done"},
         stage' \in Late \ {"report", "done"}, i' \in Nat \ {0},
         cached \subseteq cached', cached' \subseteq 0..(Limit("extended") - 1),
         UNCHANGED <<device, deaf, flips, headerReadable, report, content, field>>
  PROVE  /\ Types' /\ (\A k \in Kind : WalkInv(k)') /\ HeaderInv' /\ AnsweredInv'
<1>1. Types'
  BY DEF IInv, Types, Late
<1>2. \A k \in Kind : WalkInv(k)'
  <2>1. stage \in Late /\ stage' \in Late
    BY DEF Late
  <2> QED
    BY <2>1, WalksStay DEF IInv
<1>3. HeaderInv'
  BY DEF IInv, HeaderInv, Late
<1>4. AnsweredInv'
  BY DEF IInv, AnsweredInv, Late
<1> QED
  BY <1>1, <1>2, <1>3, <1>4

(* What the loops have handled is held, if what they handle now is.         *)
LEMMA HeldGrows ==
  ASSUME HeldInv, cached \subseteq cached', UNCHANGED <<deaf, flips, headerReadable, report>>,
         flips = 0 /\ headerReadable =>
           /\ \A j \in Handled("fetchStandard", "standard")' \ Handled("fetchStandard", "standard") :
                WindowHeld("standard", report["standard"].list[j])'
           /\ \A j \in Handled("fetchExtended", "extended")' \ Handled("fetchExtended", "extended") :
                WindowHeld("extended", report["extended"].list[j])'
           /\ \A j \in Handled("fetchVendor", "standard")' \ Handled("fetchVendor", "standard") :
                TailHeld(report["standard"].list[j])'
  PROVE  HeldInv'
<1>1. /\ \A k \in Kind : \A c : WindowHeld(k, c) => WindowHeld(k, c)'
      /\ \A c : TailHeld(c) => TailHeld(c)'
  BY HeldStays
<1>2. "standard" \in Kind /\ "extended" \in Kind
  BY DEF Kind
<1> QED
  BY <1>1, <1>2 DEF HeldInv

(* A turn of a loop handles one index more.                                 *)
LEMMA TurnHandles ==
  ASSUME Types, i' = i + 1, UNCHANGED <<stage, report>>
  PROVE  \A s, k : \A j \in Handled(s, k)' \ Handled(s, k) :
           stage = s /\ j = i /\ j \in 1..Len(report[k].list)
<1>1. i \in Nat \ {0}
  BY DEF Types
<1>2. \A n : \A j \in 1..n : j < i + 1 => j < i \/ j = i
  BY <1>1
<1> QED
  BY <1>2 DEF Handled

(* What a step of a loop does to everything but the cache.                  *)
LEMMA InLoopFrame ==
  ASSUME IInv, NEW s \in {"fetchStandard", "fetchExtended", "fetchVendor"}, NEW k \in Kind,
         InLoop(s, k)
  PROVE  /\ stage = s /\ headerReadable /\ i \in 1..Len(report[k].list) /\ i' = i + 1
         /\ UNCHANGED <<device, deaf, flips, stage, headerReadable, report, content, field>>
         /\ report[k].list[i] \in Capabilities(k) /\ report[k].list \in Seq(Capabilities(k))
         /\ stage \in Late \ {"decode", "report", "done"}
         /\ stage' \in Late \ {"report", "done"} /\ i' \in Nat \ {0}
<1>1. /\ stage = s /\ headerReadable /\ i <= Len(report[k].list) /\ i' = i + 1
      /\ UNCHANGED <<device, deaf, flips, stage, headerReadable, report, content, field>>
  BY DEF InLoop
<1>2. i \in Nat \ {0} /\ Types /\ WalkInv(k)
  BY DEF IInv, Types
<1>3. Len(report[k].list) \in Nat /\ report[k].list \in Seq(Capabilities(k))
      /\ \A j \in 1..Len(report[k].list) : report[k].list[j] \in Capabilities(k)
  BY <1>2, ListFacts
<1>4. i \in 1..Len(report[k].list) /\ i' \in Nat \ {0}
  BY <1>1, <1>2, <1>3
<1>5. stage \in Late \ {"decode", "report", "done"} /\ stage' \in Late \ {"report", "done"}
  BY <1>1 DEF Late
<1> QED
  BY <1>1, <1>3, <1>4, <1>5

(* A window is fetched.                                                     *)
LEMMA FetchWindowStep ==
  ASSUME IInv, NEW s, NEW k \in Kind, FetchWindow(s, k),
         \/ s = "fetchStandard" /\ k = "standard"
         \/ s = "fetchExtended" /\ k = "extended"
  PROVE  IInv'
<1> DEFINE c == report[k].list[i]
<1>1. cached' = Fetched(c.offset, WindowEnd(k, c) - c.offset) /\ InLoop(s, k)
  BY DEF FetchWindow
<1>2. s \in {"fetchStandard", "fetchExtended", "fetchVendor"}
  OBVIOUS
<1>3. /\ stage = s /\ headerReadable /\ i \in 1..Len(report[k].list) /\ i' = i + 1
      /\ UNCHANGED <<device, deaf, flips, stage, headerReadable, report, content, field>>
      /\ c \in Capabilities(k)
      /\ stage \in Late \ {"decode", "report", "done"}
      /\ stage' \in Late \ {"report", "done"} /\ i' \in Nat \ {0}
  BY <1>1, <1>2, InLoopFrame
<1>4. /\ c.offset \in Nat /\ WindowEnd(k, c) - c.offset \in Nat
      /\ Window(k, c) = Reg(c.offset, WindowEnd(k, c) - c.offset)
  <2>1. c \in Capabilities(k)
    BY <1>3
  <2> HIDE DEF c
  <2>2. c.offset \in Nat /\ WindowEnd(k, c) - c.offset \in Nat
    BY <2>1, WindowFacts
  <2> QED
    BY <2>2 DEF Window
<1>5. /\ cached \subseteq cached' /\ cached' \subseteq cached \cup Window(k, c)
      /\ Window(k, c) \cap deaf = {} => Window(k, c) \subseteq cached'
  BY <1>1, <1>4, FetchedFacts
<1>6. cached' \subseteq 0..(Limit("extended") - 1)
  <2>1. Window(k, c) \subseteq 0..(Limit("extended") - 1)
    <3>1. /\ Window(k, c) = c.offset..(WindowEnd(k, c) - 1) /\ WindowEnd(k, c) <= Limit(k)
          /\ WindowEnd(k, c) \in Nat /\ Limit(k) \in Nat
      BY <1>3, WindowFacts
    <3>2. Limit(k) <= Limit("extended") /\ Limit("extended") \in Nat
      BY DEF Limit
    <3> QED
      BY <1>4, <3>1, <3>2
  <2> QED
    BY <1>5, <2>1 DEF IInv, Types
<1>7. Types' /\ (\A m \in Kind : WalkInv(m)') /\ HeaderInv' /\ AnsweredInv'
  BY <1>3, <1>5, <1>6, LateFrame
<1>8. HeldInv'
  <2> DEFINE held == WindowHeld(k, c)
  <2>1. Window(k, c) \cap deaf' = {} => Window(k, c) \subseteq cached'
    BY <1>3, <1>5
  <2>2. \A x : x = c => WindowHeld(k, x)'
    BY <2>1 DEF WindowHeld
  <2> HIDE DEF c
  <2>3. \A m, t : \A j \in Handled(t, m)' \ Handled(t, m) : t = s /\ j = i
    BY <1>3, TurnHandles DEF IInv
  <2>4. \A j \in Handled("fetchVendor", "standard")' \ Handled("fetchVendor", "standard") : FALSE
    BY <2>3
  <2>5. ASSUME NEW j \in Handled("fetchStandard", "standard")' \ Handled("fetchStandard", "standard")
        PROVE  WindowHeld("standard", report["standard"].list[j])'
    <3>1. k = "standard" /\ j = i
      BY <2>3
    <3>2. report'["standard"].list[j] = c
      BY <1>3, <3>1 DEF c
    <3> QED
      BY <2>2, <3>1, <3>2 DEF WindowHeld
  <2>6. ASSUME NEW j \in Handled("fetchExtended", "extended")' \ Handled("fetchExtended", "extended")
        PROVE  WindowHeld("extended", report["extended"].list[j])'
    <3>1. k = "extended" /\ j = i
      BY <2>3
    <3>2. report'["extended"].list[j] = c
      BY <1>3, <3>1 DEF c
    <3> QED
      BY <2>2, <3>1, <3>2 DEF WindowHeld
  <2> QED
    BY <1>3, <1>5, <2>4, <2>5, <2>6, HeldGrows DEF IInv
<1> QED
  BY <1>7, <1>8 DEF IInv

(* The rest of a vendor-specific payload is fetched.                        *)
VendorTailHeld(c) ==
  /\ WindowHeld("standard", c) /\ c.format = "VendorSpecific" /\ c.offset + 3 + c.n <= 256
  /\ (Window("standard", c) \cup Needs(c)) \cap deaf = {}
  => Needs(c) \subseteq VendorTail(c)

(* What fetching the tail of a capability leaves in the cache.              *)
LEMMA VendorTailFacts ==
  ASSUME NEW c \in Capabilities("standard")
  PROVE  /\ cached \subseteq VendorTail(c)
         /\ VendorTail(c) \subseteq cached \cup (0..(Limit("standard") - 1))
         /\ VendorTailHeld(c)
<1> DEFINE first == c.offset + 3
           end   == Min({first + c.n, 256})
<1>1. "standard" \in Kind
  BY DEF Kind
<1>2. c.offset \in Nat /\ c.offset + 4 <= 256 /\ c.n \in Nat /\ Limit("standard") = 256
  BY <1>1, WindowFacts
<1>3. end = (IF first + c.n <= 256 THEN first + c.n ELSE 256)
  BY <1>2, MinOfTwo
<1>4. VendorTail(c) = IF c.format = "VendorSpecific" /\ c.offset + 2 \in cached /\ end > first
                      THEN Fetched(first, end - first) ELSE cached
  BY DEF VendorTail
<1> HIDE DEF end
<1>5. first \in Nat /\ end \in Nat /\ end <= 256
  BY <1>2, <1>3
<1>6. end > first => end - first \in Nat /\ Reg(first, end - first) \subseteq 0..(Limit("standard") - 1)
  BY <1>2, <1>5 DEF Reg
<1> HIDE DEF first
<1>7. end > first =>
        /\ cached \subseteq Fetched(first, end - first)
        /\ Fetched(first, end - first) \subseteq cached \cup Reg(first, end - first)
        /\ Reg(first, end - first) \cap deaf = {} => Reg(first, end - first) \subseteq Fetched(first, end - first)
  BY <1>5, <1>6, FetchedFacts
<1>8. cached \subseteq VendorTail(c)
  BY <1>4, <1>7
<1>9. VendorTail(c) \subseteq cached \cup (0..(Limit("standard") - 1))
  BY <1>4, <1>6, <1>7
<1>10. ASSUME WindowHeld("standard", c), c.format = "VendorSpecific", c.offset + 3 + c.n <= 256,
              (Window("standard", c) \cup Needs(c)) \cap deaf = {}
       PROVE  Needs(c) \subseteq VendorTail(c)
  <2>1. Needs(c) = {c.offset + 2} \cup Reg(first, c.n) /\ c.offset + 2 \in Window("standard", c)
    BY <1>10, VendorNeeds DEF first
  <2>2. c.offset + 2 \in cached
    BY <1>10, <2>1 DEF WindowHeld
  <2>3. end - first = c.n
    BY <1>2, <1>3, <1>10 DEF first
  <2>4. CASE end > first
    BY <1>4, <1>7, <1>10, <2>1, <2>2, <2>3, <2>4
  <2>5. CASE ~(end > first)
    <3>1. c.n = 0
      BY <1>2, <1>5, <2>3, <2>5
    <3>2. Reg(first, c.n) = {}
      BY <1>5, <3>1 DEF Reg
    <3> QED
      BY <1>8, <2>1, <2>2, <3>2
  <2> QED
    BY <2>4, <2>5
<1>11. VendorTailHeld(c)
  BY <1>10 DEF VendorTailHeld
<1> QED
  BY <1>8, <1>9, <1>11

(* The tails of the vendor-specific capabilities are fetched.               *)
LEMMA FetchVendorStep ==
  ASSUME IInv, FetchVendor
  PROVE  IInv'
<1> DEFINE c == report["standard"].list[i]
<1>1. cached' = VendorTail(c) /\ InLoop("fetchVendor", "standard") /\ "standard" \in Kind
  BY DEF FetchVendor, Kind
<1>2. /\ stage = "fetchVendor" /\ headerReadable /\ i \in 1..Len(report["standard"].list) /\ i' = i + 1
      /\ UNCHANGED <<device, deaf, flips, stage, headerReadable, report, content, field>>
      /\ c \in Capabilities("standard")
      /\ stage \in Late \ {"decode", "report", "done"}
      /\ stage' \in Late \ {"report", "done"} /\ i' \in Nat \ {0}
  BY <1>1, InLoopFrame
<1>3. /\ cached \subseteq cached' /\ cached' \subseteq cached \cup (0..(Limit("standard") - 1))
      /\ /\ WindowHeld("standard", c) /\ c.format = "VendorSpecific"
         /\ c.offset + 3 + c.n <= 256
         /\ (Window("standard", c) \cup Needs(c)) \cap deaf = {}
         => Needs(c) \subseteq cached'
  <2>1. c \in Capabilities("standard") /\ cached' = VendorTail(c)
    BY <1>1, <1>2
  <2> HIDE DEF c
  <2>2. cached \subseteq cached' /\ cached' \subseteq cached \cup (0..(Limit("standard") - 1))
    BY <2>1, VendorTailFacts
  <2>3. ASSUME WindowHeld("standard", c), c.format = "VendorSpecific", c.offset + 3 + c.n <= 256,
               (Window("standard", c) \cup Needs(c)) \cap deaf = {}
        PROVE  Needs(c) \subseteq cached'
    <3>1. VendorTailHeld(c)
      BY <2>1, VendorTailFacts
    <3> QED
      BY <2>1, <2>3, <3>1 DEF VendorTailHeld
  <2> QED
    BY <2>2, <2>3
<1>4. cached' \subseteq 0..(Limit("extended") - 1)
  <2>1. 0..(Limit("standard") - 1) \subseteq 0..(Limit("extended") - 1)
    <3>1. Limit("standard") \in Nat /\ Limit("extended") \in Nat
          /\ Limit("standard") <= Limit("extended")
      BY DEF Limit
    <3> QED
      BY <3>1
  <2>2. cached \subseteq 0..(Limit("extended") - 1)
    BY DEF IInv, Types
  <2>3. cached' \subseteq cached \cup (0..(Limit("standard") - 1))
    BY <1>3
  <2> QED
    BY <2>1, <2>2, <2>3
<1>5. Types' /\ (\A m \in Kind : WalkInv(m)') /\ HeaderInv' /\ AnsweredInv'
  BY <1>2, <1>3, <1>4, LateFrame
<1>6. HeldInv'
  <2>1. flips = 0 /\ headerReadable => WindowHeld("standard", c)
    <3>1. i \in Handled("fetchStandard", "standard")
      BY <1>2 DEF Handled, After
    <3> QED
      BY <3>1 DEF IInv, HeldInv
  <2>2. flips = 0 /\ headerReadable => \A x : x = c => TailHeld(x)'
    BY <1>2, <1>3, <2>1 DEF TailHeld
  <2> HIDE DEF c
  <2>3. \A m, t : \A j \in Handled(t, m)' \ Handled(t, m) : t = "fetchVendor" /\ j = i
    BY <1>2, TurnHandles DEF IInv
  <2>4. /\ \A j \in Handled("fetchStandard", "standard")' \ Handled("fetchStandard", "standard") : FALSE
        /\ \A j \in Handled("fetchExtended", "extended")' \ Handled("fetchExtended", "extended") : FALSE
    BY <2>3
  <2>5. ASSUME flips = 0, headerReadable,
               NEW j \in Handled("fetchVendor", "standard")' \ Handled("fetchVendor", "standard")
        PROVE  TailHeld(report["standard"].list[j])'
    <3>1. j = i
      BY <2>3
    <3>2. report'["standard"].list[j] = c
      BY <1>2, <3>1 DEF c
    <3> QED
      BY <2>2, <2>5, <3>2 DEF TailHeld
  <2> QED
    BY <1>2, <1>3, <2>4, <2>5, HeldGrows DEF IInv
<1> QED
  BY <1>5, <1>6 DEF IInv

(* A loop ends, or is passed over.                                          *)
LEMMA LoopDoneStep ==
  ASSUME IInv, NEW s, NEW k \in Kind, LoopDone(s, k),
         \/ s = "fetchStandard" /\ k = "standard"
         \/ s = "fetchExtended" /\ k = "extended"
         \/ s = "fetchVendor" /\ k = "standard"
  PROVE  IInv'
<1>1. /\ stage = s /\ (~headerReadable \/ i > Len(report[k].list))
      /\ stage' = NextStage[s] /\ i' = 1
      /\ UNCHANGED <<device, deaf, flips, cached, headerReadable, report, content, field>>
  BY DEF LoopDone
<1>2. /\ s = "fetchStandard" => stage' = "fetchExtended"
      /\ s = "fetchExtended" => stage' = "fetchVendor"
      /\ s = "fetchVendor" => stage' = "decode"
  BY <1>1 DEF NextStage
<1>3. stage \in Late \ {"decode", "report", "done"} /\ stage' \in Late \ {"report", "done"}
      /\ i' \in Nat \ {0}
  BY <1>1, <1>2 DEF Late
<1>4. Types /\ cached' \subseteq 0..(Limit("extended") - 1)
  BY <1>1 DEF IInv, Types
<1>5. Types' /\ (\A m \in Kind : WalkInv(m)') /\ HeaderInv' /\ AnsweredInv'
  BY <1>1, <1>3, <1>4, LateFrame
<1>6. HeldInv'
  <2> SUFFICES ASSUME flips = 0, headerReadable
               PROVE  /\ Handled("fetchStandard", "standard")' \subseteq Handled("fetchStandard", "standard")
                      /\ Handled("fetchExtended", "extended")' \subseteq Handled("fetchExtended", "extended")
                      /\ Handled("fetchVendor", "standard")' \subseteq Handled("fetchVendor", "standard")
    BY <1>1, HeldGrows DEF IInv
  <2>1. i > Len(report[k].list) /\ i \in Nat /\ Len(report[k].list) \in Nat
    BY <1>1, <1>4, ListFacts DEF IInv, Types
  <2>2. \A j \in 1..Len(report[k].list) : j < i
    BY <2>1
  <2>3. \A m : \A j \in 1..Len(report'[m].list) : ~(j < i')
    BY <1>1
  <2>4. CASE s = "fetchStandard"
    BY <1>1, <1>2, <2>2, <2>3, <2>4 DEF Handled, After
  <2>5. CASE s = "fetchExtended"
    BY <1>1, <1>2, <2>2, <2>3, <2>5 DEF Handled, After
  <2>6. CASE s = "fetchVendor"
    BY <1>1, <1>2, <2>2, <2>3, <2>6 DEF Handled, After
  <2> QED
    BY <2>4, <2>5, <2>6
<1> QED
  BY <1>5, <1>6 DEF IInv

(* The lists' contents are decoded, or the report is made: what is held and *)
(* what the walks found stays as it is.                                     *)
LEMMA LastStagesFrame ==
  ASSUME IInv, stage \in {"decode", "report"}, stage' \in {"report", "done"},
         UNCHANGED <<device, deaf, flips, i, cached, headerReadable, report>>
  PROVE  (\A k \in Kind : WalkInv(k)') /\ HeldInv' /\ AnsweredInv'
<1>1. \A k \in Kind : WalkInv(k)'
  <2>1. stage \in Late /\ stage' \in Late
    BY DEF Late
  <2> QED
    BY <2>1, WalksStay DEF IInv
<1>2. HeldInv'
  <2>1. /\ Handled("fetchStandard", "standard")' = Handled("fetchStandard", "standard")
        /\ Handled("fetchExtended", "extended")' = Handled("fetchExtended", "extended")
        /\ Handled("fetchVendor", "standard")' = Handled("fetchVendor", "standard")
    BY DEF Handled, After
  <2> QED
    BY <2>1, HeldGrows DEF IInv
<1>3. AnsweredInv'
  BY DEF IInv, AnsweredInv
<1> QED
  BY <1>1, <1>2, <1>3

(* Decoding reads the cache and changes nothing of it.                      *)
LEMMA DecodeStep ==
  ASSUME IInv, Decode
  PROVE  IInv'
<1>1. /\ stage = "decode" /\ stage' = "report"
      /\ content' = IF headerReadable THEN [k \in Kind |-> Decoded(k)] ELSE content
      /\ UNCHANGED <<device, deaf, flips, i, cached, headerReadable, report, field>>
  BY DEF Decode, NextStage
<1>2. (\A k \in Kind : WalkInv(k)') /\ HeldInv' /\ AnsweredInv'
  BY <1>1, LastStagesFrame
<1>3. \A k \in Kind : Decoded(k) \subseteq Nat /\ Decoded(k)' = Decoded(k)
  <2> TAKE k \in Kind
  <2>1. Decoded(k) \subseteq 1..Len(report[k].list) /\ Len(report[k].list) \in Nat
    BY ListFacts DEF IInv, Decoded
  <2>2. Decoded(k)' = Decoded(k)
    BY <1>1 DEF Decoded
  <2> QED
    BY <2>1, <2>2
<1>4. content' \in [Kind -> SUBSET Nat]
  BY <1>1, <1>3 DEF IInv, Types
<1>5. Types'
  BY <1>1, <1>4 DEF IInv, Types
<1>6. \A k \in Kind : content'[k] = IF headerReadable THEN Decoded(k) ELSE {}
  <2>1. \A k \in Kind : ~headerReadable => content[k] = {}
    BY DEF IInv, HeaderInv
  <2> QED
    BY <1>1, <2>1
<1>7. HeaderInv'
  <2>1. field = "Pending"
    BY <1>1 DEF IInv, HeaderInv
  <2> QED
    BY <1>1, <1>3, <1>6, <2>1 DEF HeaderInv, Late
<1> QED
  BY <1>2, <1>5, <1>7 DEF IInv

(* What inspect says of the capabilities as a whole.                        *)
LEMMA ReportStep ==
  ASSUME IInv, Report
  PROVE  IInv'
<1>1. /\ stage = "report" /\ stage' = "done"
      /\ field' = IF ~headerReadable THEN "Unavailable"
                  ELSE IF \A k \in Kind : report[k].status = "NotPresent"
                  THEN "NotApplicable" ELSE "Available"
      /\ UNCHANGED <<device, deaf, flips, i, cached, headerReadable, report, content>>
  BY DEF Report
<1>2. (\A k \in Kind : WalkInv(k)') /\ HeldInv' /\ AnsweredInv'
  BY <1>1, LastStagesFrame
<1>3. Types'
  <2>1. field' \in {"Pending", "Unavailable", "NotApplicable", "Available"}
    BY <1>1
  <2> QED
    BY <1>1, <2>1 DEF IInv, Types
<1>4. HeaderInv'
  <2>1. \A k \in Kind : Decoded(k)' = Decoded(k)
    BY <1>1 DEF Decoded
  <2>2. \A k \in Kind : content'[k] = IF headerReadable THEN Decoded(k) ELSE {}
    BY <1>1 DEF IInv, HeaderInv
  <2> QED
    BY <1>1, <2>1, <2>2 DEF HeaderInv, Late
<1> QED
  BY <1>2, <1>3, <1>4 DEF IInv

(* Every step keeps the invariant.                                          *)
LEMMA NextIInv == IInv /\ [Next]_vars => IInv'
<1>1. ASSUME IInv, UNCHANGED vars PROVE IInv'
  <2>1. UNCHANGED <<device, deaf, flips, stage, i, cached, headerReadable, report, content, field>>
    BY <1>1 DEF vars
  <2>2. Types'
    BY <1>1, <2>1 DEF IInv, Types
  <2>3. \A k \in Kind : WalkInv(k)'
    BY <1>1, <2>1, SameDevice DEF IInv, WalkInv, Ended
  <2>4. HeaderInv'
    BY <1>1, <2>1 DEF IInv, HeaderInv, Decoded
  <2>5. HeldInv'
    BY <1>1, <2>1 DEF IInv, HeldInv, Handled, WindowHeld, TailHeld
  <2>6. AnsweredInv'
    BY <1>1, <2>1 DEF IInv, AnsweredInv
  <2> QED
    BY <2>2, <2>3, <2>4, <2>5, <2>6 DEF IInv
<1>2. ASSUME IInv, InspectStep PROVE IInv'
  <2>1. "standard" \in Kind /\ "extended" \in Kind
    BY DEF Kind
  <2>2. FetchWindow("fetchStandard", "standard") \/ FetchWindow("fetchExtended", "extended") => IInv'
    BY <1>2, <2>1, FetchWindowStep
  <2>3. LoopDone("fetchStandard", "standard") \/ LoopDone("fetchExtended", "extended")
        \/ LoopDone("fetchVendor", "standard") => IInv'
    BY <1>2, <2>1, LoopDoneStep
  <2>4. ASSUME NEW k \in Kind, WalkNode(k) PROVE IInv'
    BY <1>2, <2>4, WalkNodeStep
  <2>5. ReadHeader \/ StartStandard => IInv'
    BY <1>2, ReadHeaderStep, StartStandardStep
  <2>6. FetchVendor \/ Decode \/ Report => IInv'
    BY <1>2, FetchVendorStep, DecodeStep, ReportStep
  <2> QED
    BY <1>2, <2>2, <2>3, <2>4, <2>5, <2>6 DEF InspectStep
<1> QED
  BY <1>1, <1>2, FlipsStep DEF Next

-----------------------------------------------------------------------------
(* The theorems.                                                           *)

(* The inductive invariant holds in every reachable state.                  *)
THEOREM Invariant == Spec => []IInv
BY InitIInv, NextIInv, PTL DEF Spec

(* The variables have their types.                                          *)
LEMMA TypesAreOK ==
  ASSUME IInv
  PROVE  TypeOK
<1>1. \A k \in Kind : content[k] \subseteq 1..Len(report[k].list)
  BY DEF IInv, HeaderInv, Decoded
<1>2. \A k \in Kind : report[k].status \in Status
  BY DEF IInv, Types
<1> QED
  BY <1>1, <1>2 DEF IInv, Types, TypeOK

(* What cannot be read costs only what it holds, for every device, however  *)
(* its pointers lead, and whichever bytes it does not answer for: a list    *)
(* follows the pointers up to the node bound, a cycle, a malformed pointer, *)
(* a zero header or the end, unless a byte it wanted was not answered for.  *)
THEOREM FailureAlwaysLocal == Spec => []FailureStaysLocal
<1>1. ASSUME IInv PROVE FailureStaysLocal
  <2>1. TypeOK
    BY <1>1, TypesAreOK
  <2>2. ASSUME stage = "done", NEW k \in Kind
        PROVE  Followed(k, report[k].list) /\ Ended(k, report[k].list, report[k].status)
    <3>1. stage \notin Before(k) \cup {k}
      BY <2>2 DEF Kind, Before
    <3> QED
      BY <1>1, <3>1 DEF IInv, WalkInv
  <2>3. stage = "done" /\ flips = 0 /\ deaf \cap (0..(Limit("standard") - 1)) = {} => headerReadable
    BY <1>1 DEF IInv, AnsweredInv
  <2> QED
    BY <2>1, <2>2, <2>3 DEF FailureStaysLocal, Ended
<1> QED
  BY <1>1, Invariant, PTL

(* The empty list's own reason.                                             *)
LEMMA EmptyReason ==
  ASSUME device \in Devices
  PROVE  /\ OwnReason("extended", << >>) = IF 256 \in DOMAIN device["extended"]
                                           THEN "Pending" ELSE "NotPresent"
         /\ device.list /\ device.pointer \in DOMAIN device["standard"] =>
              OwnReason("standard", << >>) = "Pending"
<1>1. /\ Position("extended", << >>) = 256 /\ Position("standard", << >>) = device.pointer
      /\ Offsets(<< >>) = {} /\ Len(<< >>) = 0
      /\ MaxNodes("extended") # 0 /\ MaxNodes("standard") # 0
  BY DEF Position, Start, Offsets, MaxNodes
<1>2. 256 \in Slots("extended")
  BY DEF Slots, First, Limit, Aligned
<1>3. "InvalidNextPointer" \in Status /\ "InvalidNextPointer" # "Pending"
      /\ "extended" \in Kind /\ "standard" \in Kind
  BY DEF Status, Kind
<1>4. PointerStatus("extended", 256, "InvalidNextPointer") = "Pending"
  BY <1>2, <1>3, PointerFacts
<1>5. device.pointer \in DOMAIN device["standard"] =>
        PointerStatus("standard", device.pointer, "InvalidNextPointer") = "Pending"
  <2>1. DOMAIN device["standard"] \subseteq Slots("standard") /\ device.pointer \in Nat
    BY <1>3, DeviceFacts
  <2> QED
    BY <1>3, <2>1, PointerFacts
<1> QED
  BY <1>1, <1>4, <1>5 DEF OwnReason

(* A chain is NotPresent for its own reason only.                           *)
LEMMA NotPresentReason ==
  ASSUME device \in Devices, NEW k \in Kind, NEW list \in Seq(AnyCapability), Followed(k, list),
         OwnReason(k, list) = "NotPresent"
  PROVE  IF k = "standard" THEN ~device.list ELSE list = << >>
<1> DEFINE zero == IF list = << >> THEN "InvalidNextPointer" ELSE "Complete"
<1>1. Position(k, list) \in Nat
  BY FollowedFacts
<1>2. zero \in Status /\ zero # "Pending" /\ zero # "NotPresent"
  BY DEF Status
<1> HIDE DEF zero
<1>3. PointerStatus(k, Position(k, list), zero) # "NotPresent"
  BY <1>1, <1>2, PointerFacts
<1>4. k = "standard" \/ k = "extended"
  BY DEF Kind
<1> QED
  BY <1>3, <1>4 DEF OwnReason, zero

(* The field of the report says what was found: nothing without a header,   *)
(* NotApplicable only of a device that has no capability and announces none.*)
THEOREM FieldAlwaysJustified == Spec => []FieldIsJustified
<1>1. ASSUME IInv PROVE FieldIsJustified
  <2> SUFFICES ASSUME stage = "done"
               PROVE  /\ ~headerReadable =>
                           field = "Unavailable" /\ \A k \in Kind : content[k] = {}
                      /\ field = "NotApplicable" =>
                           ~device.list /\ 256 \notin DOMAIN device.extended
                      /\ field = "Available" =>
                           \/ \E k \in Kind : report[k].list # << >> \/ report[k].status = "Unavailable"
                           \/ device.list /\ device.pointer \notin DOMAIN device.standard
    BY DEF FieldIsJustified
  <2>1. /\ device \in Devices /\ "standard" \in Kind /\ "extended" \in Kind
        /\ \A k \in Kind :
             /\ report[k].list \in Seq(AnyCapability) /\ Followed(k, report[k].list)
             /\ report[k].status # "Pending"
             /\ Ended(k, report[k].list, report[k].status)
    <3>1. \A k \in Kind : stage \notin Before(k) \cup {k}
      BY DEF Kind, Before
    <3>2. Types /\ \A k \in Kind : WalkInv(k)
      BY <1>1 DEF IInv
    <3>3. \A k \in Kind : report[k].list \in Seq(AnyCapability)
      BY <3>2, ListFacts
    <3>4. device \in Devices /\ "standard" \in Kind /\ "extended" \in Kind
      BY <3>2 DEF Types, Kind
    <3> QED
      BY <3>1, <3>2, <3>3, <3>4 DEF WalkInv
  <2>2. field = IF ~headerReadable THEN "Unavailable"
                ELSE IF \A k \in Kind : report[k].status = "NotPresent"
                THEN "NotApplicable" ELSE "Available"
    BY <1>1 DEF IInv, HeaderInv
  <2>3. ~headerReadable => field = "Unavailable" /\ \A k \in Kind : content[k] = {}
    BY <1>1, <2>2 DEF IInv, HeaderInv
  <2>4. ASSUME field = "NotApplicable"
        PROVE  ~device.list /\ 256 \notin DOMAIN device.extended
    <3>1. \A k \in Kind : report[k].status = "NotPresent"
      BY <2>2, <2>4
    <3>2. \A k \in Kind : OwnReason(k, report[k].list) = "NotPresent"
      BY <2>1, <3>1 DEF Ended
    <3>3. ~device.list /\ report["extended"].list = << >>
      BY <2>1, <3>2, NotPresentReason
    <3>4. OwnReason("extended", << >>) = "NotPresent"
      BY <2>1, <3>2, <3>3
    <3> QED
      BY <2>1, <3>3, <3>4, EmptyReason
  <2>5. ASSUME field = "Available",
               \A k \in Kind : report[k].list = << >> /\ report[k].status # "Unavailable"
        PROVE  device.list /\ device.pointer \notin DOMAIN device.standard
    <3>1. \A k \in Kind : report[k].status = OwnReason(k, << >>)
      BY <2>1, <2>5 DEF Ended
    <3>2. report["extended"].status = "NotPresent"
      BY <2>1, <3>1, EmptyReason
    <3>3. report["standard"].status # "NotPresent"
      BY <2>2, <2>5, <3>2 DEF Kind
    <3>4. device.list
      BY <2>1, <3>1, <3>3 DEF OwnReason
    <3> QED
      BY <2>1, <3>1, <3>4, EmptyReason
  <2> QED
    BY <2>3, <2>4, <2>5
<1> QED
  BY <1>1, Invariant, PTL

(* What is listed, held and of a known format is decoded in the end.        *)
LEMMA HeldIsDecoded ==
  ASSUME IInv, stage = "done", headerReadable, NEW k \in Kind,
         NEW j \in 1..Len(report[k].list),
         HasDecoder(report[k].list[j]), Needs(report[k].list[j]) \subseteq cached
  PROVE  HasContent(k, report[k].list[j])
<1>1. content[k] = Decoded(k)
  BY DEF IInv, HeaderInv
<1>2. j \in Decoded(k)
  BY DEF Decoded
<1> QED
  BY <1>1, <1>2 DEF HasContent

(* The window inspect fetches suffices for every capability of a format of  *)
(* bounded size, wherever it lies and whatever its register bits say.       *)
THEOREM BoundedFormatsAlwaysDecode == Spec => []BoundedFormatsDecode
<1>1. ASSUME IInv PROVE BoundedFormatsDecode
  <2> SUFFICES ASSUME stage = "done", flips = 0, headerReadable,
                      NEW k \in Kind, NEW c \in Listed(k),
                      c.format \in Bounded, Needs(c) \subseteq 0..(Limit(k) - 1),
                      c.offset..(WindowEnd(k, c) - 1) \cap deaf = {}
               PROVE  HasContent(k, c)
    BY DEF BoundedFormatsDecode
  <2>1. PICK j \in 1..Len(report[k].list) : c = report[k].list[j]
    BY DEF Listed
  <2>2. c \in Capabilities(k)
    <3>1. Types /\ WalkInv(k)
      BY <1>1 DEF IInv
    <3> QED
      BY <2>1, <3>1, ListFacts
  <2>3. Needs(c) \subseteq Window(k, c) /\ HasDecoder(c)
    BY <2>2, NeedsInWindow
  <2>4. Window(k, c) \cap deaf = {}
    BY <2>2, WindowIs
  <2>5. WindowHeld(k, c)
    <3>1. CASE k = "standard"
      <4>1. j \in Handled("fetchStandard", "standard")
        BY <2>1, <3>1 DEF Handled, After
      <4> QED
        BY <1>1, <2>1, <3>1, <4>1 DEF IInv, HeldInv
    <3>2. CASE k = "extended"
      <4>1. j \in Handled("fetchExtended", "extended")
        BY <2>1, <3>2 DEF Handled, After
      <4> QED
        BY <1>1, <2>1, <3>2, <4>1 DEF IInv, HeldInv
    <3> QED
      BY <3>1, <3>2 DEF Kind
  <2>6. Needs(c) \subseteq cached
    BY <2>3, <2>4, <2>5 DEF WindowHeld
  <2> QED
    BY <1>1, <2>1, <2>3, <2>6, HeldIsDecoded
<1> QED
  BY <1>1, Invariant, PTL

(* A vendor-specific payload that ends in the standard space is decoded,    *)
(* whatever length it declares.                                             *)
THEOREM VendorPayloadAlwaysDecodes == Spec => []VendorPayloadDecodes
<1>1. ASSUME IInv PROVE VendorPayloadDecodes
  <2> SUFFICES ASSUME stage = "done", flips = 0, headerReadable,
                      NEW c \in Listed("standard"),
                      c.format = "VendorSpecific", c.offset + 3 + c.n <= 256,
                      (c.offset..(WindowEnd("standard", c) - 1) \cup Needs(c)) \cap deaf = {}
               PROVE  HasContent("standard", c)
    BY DEF VendorPayloadDecodes
  <2>1. PICK j \in 1..Len(report["standard"].list) : c = report["standard"].list[j]
    BY DEF Listed
  <2>2. "standard" \in Kind /\ c \in Capabilities("standard")
    <3>1. Types /\ "standard" \in Kind /\ WalkInv("standard")
      BY <1>1 DEF IInv, Kind
    <3> QED
      BY <2>1, <3>1, ListFacts
  <2>3. (Window("standard", c) \cup Needs(c)) \cap deaf = {}
    BY <2>2, WindowIs
  <2>4. j \in Handled("fetchVendor", "standard")
    BY <2>1 DEF Handled, After
  <2>5. TailHeld(c)
    BY <1>1, <2>1, <2>4 DEF IInv, HeldInv
  <2>6. Needs(c) \subseteq cached
    BY <2>3, <2>5 DEF TailHeld
  <2>7. HasDecoder(c)
    BY DEF HasDecoder
  <2> QED
    BY <1>1, <2>1, <2>2, <2>6, <2>7, HeldIsDecoded
<1> QED
  BY <1>1, Invariant, PTL

(* The VF BARs of every decoded SR-IOV capability share out its registers.  *)
THEOREM VfBarsAlwaysTile == Spec => []VfBarsTile
<1>1. VfBarsTile
  <2>1. \A bars : BarsTile(bars)
    BY VfBarsShareRegisters
  <2>2. ASSUME NEW j \in content["extended"]
        PROVE  BarsTile(report["extended"].list[j].bars)
    BY <2>1
  <2> QED
    BY <2>2 DEF VfBarsTile, BarsTile
<1> QED
  BY <1>1, PTL
=============================================================================
