------------------------- MODULE ConfigReaderProofs -------------------------
(***************************************************************************)
(* Proofs about ConfigReader: the segments stay canonical whatever the     *)
(* calls and the answers of the device, a read returns what the cache      *)
(* holds, and every step of the reader is a step of ConfigCache.           *)
(*                                                                         *)
(* A cache is reasoned about as the bytes its segments show: insertion,    *)
(* the sort by offset and the merge are each shown to keep those bytes,    *)
(* and the invariant states the fetch in progress in terms of them - what  *)
(* is left of the gap is tiled by the work stack and none of it is cached, *)
(* and every byte already visited is cached or recorded as failed.         *)
(***************************************************************************)
EXTENDS ConfigReader, WellFoundedInduction, SequenceTheorems, TLAPS

-----------------------------------------------------------------------------
(* Least elements, and induction stated about a set of numbers: to show    *)
(* P(n) for all n, apply Induct to {n \in Nat : P(n)}.                      *)

(* A non-empty set of natural numbers has a least element.                 *)
LEMMA Least ==
  ASSUME NEW T \in SUBSET Nat, T # {}
  PROVE  \E x \in T : \A y \in T : x <= y
<1> DEFINE R == OpToRel(<, Nat)
<1>1. IsWellFoundedOn(R, Nat)
  BY NatLessThanWellFounded
<1>2. \A x, y \in Nat : x < y => <<x, y>> \in R
  BY DEF OpToRel
<1> HIDE DEF R
<1>3. PICK x \in T : \A y \in T : ~ (<<y, x>> \in R)
  BY <1>1, WFMin
<1>4. \A y \in T : ~ (y < x)
  BY <1>2, <1>3
<1>5. \A y \in T : x <= y
  BY <1>4
<1> QED
  BY <1>5, Zenon

(* A set with 0 and with the successor of each of its members is all of Nat. *)
LEMMA Induct ==
  ASSUME NEW S, 0 \in S, \A n \in Nat : n \in S => n + 1 \in S
  PROVE  \A n \in Nat : n \in S
<1> DEFINE T == {n \in Nat : n \notin S}
<1> SUFFICES ASSUME T # {} PROVE FALSE
  OBVIOUS
<1>1. PICK x \in T : \A y \in T : x <= y
  <2>1. T \in SUBSET Nat
    OBVIOUS
  <2> HIDE DEF T
  <2> QED
    BY <2>1, Least
<1>2. x # 0 /\ x \in Nat /\ x \notin S
  BY <1>1
<1>3. x - 1 \in Nat /\ x - 1 \in S
  BY <1>1, <1>2
<1> QED
  BY <1>2, <1>3

(* The operator Min returns the least member of a set of naturals.          *)
LEMMA MinIsLeast ==
  ASSUME NEW T \in SUBSET Nat, T # {}
  PROVE  /\ Min(T) \in T
         /\ \A y \in T : Min(T) <= y
BY Least DEF Min

(* The lesser of two numbers.                                                *)
LEMMA MinOfTwo ==
  ASSUME NEW a \in Nat, NEW b \in Nat
  PROVE  Min({a, b}) = IF a <= b THEN a ELSE b
<1>1. {a, b} \in SUBSET Nat /\ {a, b} # {}
  OBVIOUS
<1>2. Min({a, b}) \in {a, b} /\ \A y \in {a, b} : Min({a, b}) <= y
  BY <1>1, MinIsLeast
<1> QED
  BY <1>2

-----------------------------------------------------------------------------
(* Segments: how a sequence of them shows bytes *)

(* The segment s shows the byte b at the offset o. *)
ShowsAt(s, o, b) == Covers(s, o) /\ s.bytes[o - s.offset + 1] = b

Shows(segs, o, b) == \E i \in DOMAIN segs : ShowsAt(segs[i], o, b)

(* Every segment has a byte and none passes the end of a u32. *)
Proper(s) == s \in Segment /\ s.bytes # << >> /\ SegmentEnd(s) <= U32Max

(* SegmentsCanonical as a property of any sequence of segments. *)
Canonical(segs) ==
  /\ segs \in Seq(Segment)
  /\ \A i \in DOMAIN segs : Proper(segs[i])
  /\ \A i, j \in DOMAIN segs : i < j => SegmentEnd(segs[i]) < segs[j].offset

(* Sorted, but segments may still touch: what the merge loop is given. *)
Separate(segs) ==
  /\ segs \in Seq(Segment)
  /\ \A i \in DOMAIN segs : Proper(segs[i])
  /\ \A i, j \in DOMAIN segs : i < j => SegmentEnd(segs[i]) <= segs[j].offset

(* The numbers of a segment whose end does not wrap.                         *)
LEMMA ProperEnd ==
  ASSUME NEW s, Proper(s)
  PROVE  /\ s \in Segment /\ s.offset \in Nat /\ SegmentEnd(s) \in Nat
         /\ Len(s.bytes) \in Nat /\ s.bytes \in Seq(Byte)
         /\ DOMAIN s.bytes = 1..Len(s.bytes)
         /\ s.offset < SegmentEnd(s) /\ SegmentEnd(s) <= U32Max
         /\ SegmentEnd(s) = s.offset + Len(s.bytes)
BY WidthAssumption DEF Proper, Segment, SegmentEnd

(* The indices of segments.                                                  *)
LEMMA SegmentsDomain ==
  ASSUME NEW segs \in Seq(Segment)
  PROVE  Len(segs) \in Nat /\ DOMAIN segs = 1..Len(segs)
OBVIOUS

(* Extending the last of the merged segments m by one that starts where it ends. *)
LEMMA MergeTouching ==
  ASSUME NEW m, Canonical(m), m # << >>, NEW s, Proper(s),
         SegmentEnd(Last(m)) = s.offset
  PROVE  /\ Canonical(MergeSegment(m, s))
         /\ MergeSegment(m, s) # << >>
         /\ SegmentEnd(Last(MergeSegment(m, s))) = SegmentEnd(s)
         /\ \A b : \A o \in Nat : Shows(MergeSegment(m, s), o, b) <=>
                                Shows(m, o, b) \/ ShowsAt(s, o, b)
<1> DEFINE n == Len(m)
           l == [m[n] EXCEPT !.bytes = @ \o s.bytes]
<1>1. m \in Seq(Segment) /\ n \in Nat \ {0} /\ DOMAIN m = 1..n /\ Last(m) = m[n]
  BY DEF Canonical, Last
<1>2. Proper(m[n])
  BY <1>1 DEF Canonical
<1>3. /\ m[n].offset \in Nat /\ Len(m[n].bytes) \in Nat /\ m[n].bytes \in Seq(Byte)
      /\ SegmentEnd(m[n]) = m[n].offset + Len(m[n].bytes) /\ m[n] \in Segment
      /\ m[n].offset < SegmentEnd(m[n])
  BY <1>2, ProperEnd
<1>4. /\ s.offset \in Nat /\ Len(s.bytes) \in Nat /\ s.bytes \in Seq(Byte)
      /\ s \in Segment /\ SegmentEnd(s) = s.offset + Len(s.bytes) /\ SegmentEnd(s) <= U32Max
      /\ s.offset < SegmentEnd(s)
  BY ProperEnd
<1>5. SubSeq(s.bytes, SegmentEnd(Last(m)) - s.offset + 1, Len(s.bytes)) = s.bytes
  BY <1>4, SubSeqFull
<1>6. MergeSegment(m, s) = [m EXCEPT ![n] = l]
  <2>1. ~(m = << >> \/ s.offset > SegmentEnd(Last(m)))
    BY <1>4
  <2>2. MergeSegment(m, s) =
          [m EXCEPT ![Len(m)].bytes =
             @ \o SubSeq(s.bytes, SegmentEnd(Last(m)) - s.offset + 1, Len(s.bytes))]
    BY <2>1, Zenon DEF MergeSegment
  <2> QED
    BY <1>5, <2>2, Zenon
<1>7. l \in Segment /\ l.offset = m[n].offset /\ l.bytes = m[n].bytes \o s.bytes
  BY <1>3, <1>4, ConcatProperties DEF Segment
<1> HIDE DEF l
<1>8. /\ Len(l.bytes) = Len(m[n].bytes) + Len(s.bytes)
      /\ \A i \in 1..(Len(m[n].bytes) + Len(s.bytes)) :
           l.bytes[i] = IF i <= Len(m[n].bytes) THEN m[n].bytes[i]
                        ELSE s.bytes[i - Len(m[n].bytes)]
  BY <1>3, <1>4, <1>7, ConcatProperties DEF Segment
<1>13. SegmentEnd(l) = SegmentEnd(s)
  <2>1. SegmentEnd(l) = m[n].offset + (Len(m[n].bytes) + Len(s.bytes))
    BY <1>7, <1>8 DEF SegmentEnd
  <2>2. SegmentEnd(m[n]) = s.offset
    BY <1>1
  <2> QED
    BY <1>3, <1>4, <2>1, <2>2 DEF Segment
<1>14. Proper(l)
  <2>1. Len(l.bytes) \in Nat /\ Len(l.bytes) # 0
    BY <1>3, <1>4, <1>7, <1>8 DEF Segment
  <2>2. l.bytes # << >>
    BY <2>1
  <2> QED
    BY <2>2, <1>4, <1>7, <1>13 DEF Proper
<1> DEFINE r == [m EXCEPT ![n] = l]
<1>9. /\ r \in Seq(Segment) /\ DOMAIN r = 1..n /\ Len(r) = n /\ r[n] = l
      /\ \A i \in 1..(n - 1) : r[i] = m[i]
  BY <1>1, <1>7, ExceptSeq
<1>10. Canonical(r)
  <2>1. \A i \in DOMAIN r : Proper(r[i])
    BY <1>1, <1>14, <1>9 DEF Canonical
  <2>2. \A i, j \in 1..n : i < j => SegmentEnd(m[i]) < m[j].offset
    BY <1>1 DEF Canonical
  <2>3. ASSUME NEW i \in DOMAIN r, NEW j \in DOMAIN r, i < j
        PROVE  SegmentEnd(r[i]) < r[j].offset
    <3>1. i \in 1..(n - 1) /\ i \in 1..n /\ j \in 1..n /\ r[i] = m[i]
      BY <2>3, <1>1, <1>9
    <3>2. r[j].offset = m[j].offset
      BY <3>1, <1>1, <1>7, <1>9
    <3> QED
      BY <2>2, <2>3, <3>1, <3>2
  <2> QED
    BY <2>1, <2>3, <1>9 DEF Canonical
<1>11. ASSUME NEW o \in Nat, NEW b
       PROVE  ShowsAt(l, o, b) <=> ShowsAt(m[n], o, b) \/ ShowsAt(s, o, b)
  <2>1. Covers(l, o) <=> Covers(m[n], o) \/ Covers(s, o)
    BY <1>1, <1>3, <1>4, <1>7, <1>13 DEF Covers
  <2>2. ASSUME Covers(m[n], o)
        PROVE  l.bytes[o - l.offset + 1] = m[n].bytes[o - m[n].offset + 1] /\ ~Covers(s, o)
    <3>1. o < s.offset /\ m[n].offset <= o
      BY <2>2, <1>1, <1>3, <1>4 DEF Covers
    <3>2. o - m[n].offset + 1 \in 1..Len(m[n].bytes)
      BY <3>1, <1>1, <1>3
    <3> QED
      BY <3>1, <3>2, <1>3, <1>4, <1>7, <1>8 DEF Covers, Segment
  <2>3. ASSUME Covers(s, o)
        PROVE  l.bytes[o - l.offset + 1] = s.bytes[o - s.offset + 1] /\ ~Covers(m[n], o)
    <3> DEFINE low == m[n].offset
               len == Len(m[n].bytes)
               add == Len(s.bytes)
               x == o - low + 1
    <3>1. low \in Nat /\ len \in Nat /\ add \in Nat
      BY <1>3, <1>4
    <3>2. s.offset = low + len
      BY <1>1, <1>3
    <3>3. s.offset <= o /\ o < s.offset + add
      BY <2>3, <1>4 DEF Covers
    <3> HIDE DEF low, len, add
    <3>4. x \in 1..(len + add) /\ ~(x <= len) /\ x - len = o - s.offset + 1
          /\ ~(o < low + len)
      BY <3>1, <3>2, <3>3
    <3>5. ~Covers(m[n], o)
      BY <3>4, <1>3 DEF Covers, low, len
    <3>6. o - l.offset + 1 = x
      BY <1>7 DEF low
    <3> HIDE DEF x
    <3>7. l.bytes[x] = s.bytes[x - len]
      BY <3>4, <1>8 DEF len, add
    <3> QED
      BY <3>4, <3>5, <3>6, <3>7
  <2> QED
    BY <2>1, <2>2, <2>3 DEF ShowsAt
<1>12. ASSUME NEW o \in Nat, NEW b
       PROVE  Shows(r, o, b) <=> Shows(m, o, b) \/ ShowsAt(s, o, b)
  BY <1>1, <1>9, <1>11 DEF Shows
<1>15. r # << >> /\ SegmentEnd(Last(r)) = SegmentEnd(s)
  BY <1>1, <1>9, <1>13 DEF Last
<1> HIDE DEF r
<1> QED
  BY <1>6, <1>10, <1>12, <1>15 DEF r

(* A segment past the end of the last one, or the first one, is appended.   *)
LEMMA MergeApart ==
  ASSUME NEW m, Canonical(m), NEW s, Proper(s),
         m # << >> => SegmentEnd(Last(m)) < s.offset
  PROVE  /\ Canonical(MergeSegment(m, s))
         /\ MergeSegment(m, s) # << >>
         /\ SegmentEnd(Last(MergeSegment(m, s))) = SegmentEnd(s)
         /\ \A b : \A o \in Nat : Shows(MergeSegment(m, s), o, b) <=>
                                Shows(m, o, b) \/ ShowsAt(s, o, b)
<1> DEFINE n == Len(m)
           r == Append(m, s)
<1>1. m \in Seq(Segment) /\ n \in Nat /\ DOMAIN m = 1..n /\ Last(m) = m[n]
  BY DEF Canonical, Last
<1>2. s \in Segment /\ s.offset \in Nat
  BY ProperEnd
<1>3. \A i \in 1..n : m[i].offset \in Nat /\ SegmentEnd(m[i]) \in Nat /\ Proper(m[i])
                      /\ m[i].offset < SegmentEnd(m[i])
  BY <1>1, ProperEnd DEF Canonical
<1>4. MergeSegment(m, s) = r
  <2>1. CASE m = << >>
    BY <2>1 DEF MergeSegment
  <2>2. CASE m # << >>
    BY <2>2, <1>1, <1>2, <1>3 DEF MergeSegment
  <2> QED
    BY <2>1, <2>2
<1>5. /\ r \in Seq(Segment) /\ Len(r) = n + 1 /\ DOMAIN r = 1..(n + 1) /\ r[n + 1] = s
      /\ \A i \in 1..n : r[i] = m[i]
  BY <1>1, <1>2
<1>6. \A i \in 1..n : SegmentEnd(m[i]) < s.offset
  <2>1. \A i \in 1..(n - 1) : SegmentEnd(m[i]) < m[n].offset
    BY <1>1 DEF Canonical
  <2>2. n # 0 => SegmentEnd(m[n]) < s.offset
    BY <1>1
  <2> QED
    BY <1>1, <1>2, <1>3, <2>1, <2>2
<1>7. Canonical(r)
  <2>1. \A i \in DOMAIN r : Proper(r[i])
    BY <1>3, <1>5
  <2>2. \A i, j \in DOMAIN r : i < j => SegmentEnd(r[i]) < r[j].offset
    BY <1>1, <1>5, <1>6 DEF Canonical
  <2> QED
    BY <2>1, <2>2, <1>5 DEF Canonical
<1>8. ASSUME NEW o \in Nat, NEW b
      PROVE  Shows(r, o, b) <=> Shows(m, o, b) \/ ShowsAt(s, o, b)
  BY <1>1, <1>5 DEF Shows
<1> HIDE DEF r
<1> QED
  BY <1>4, <1>5, <1>7, <1>8 DEF Last

(* The merge loop: what it returns is canonical and shows the bytes of the  *)
(* segments it was given, all of them and no other.  Its last segment ends  *)
(* where the last one given does, so the next one can only touch that.      *)
LEMMA MergeLoop ==
  ASSUME NEW s, Separate(s)
  PROVE  /\ Canonical(Merge(s))
         /\ \A b : \A o \in Nat : Shows(Merge(s), o, b) <=> Shows(s, o, b)
<1> DEFINE Rec(g, k) ==
             g = [n \in 0..k |-> IF n = 0 THEN << >> ELSE MergeSegment(g[n - 1], s[n])]
<1>1. \A k \in Nat : \E g : Rec(g, k)
  <2> DEFINE D == {k \in Nat : \E g : Rec(g, k)}
  <2>1. 0 \in D
    <3>1. Rec([n \in 0..0 |-> << >>], 0)
      OBVIOUS
    <3> QED
      BY <3>1
  <2>2. ASSUME NEW k \in Nat, k \in D PROVE k + 1 \in D
    <3>1. PICK g : Rec(g, k)
      BY <2>2
    <3> DEFINE h == [n \in 0..(k + 1) |->
                       IF n = k + 1 THEN MergeSegment(g[k], s[k + 1]) ELSE g[n]]
    <3>2. \A n \in 0..(k + 1) :
            h[n] = IF n = 0 THEN << >> ELSE MergeSegment(h[n - 1], s[n])
      BY <3>1
    <3>3. Rec(h, k + 1)
      BY <3>2
    <3> HIDE DEF h, Rec
    <3> QED
      BY <3>3
  <2> HIDE DEF D
  <2>3. \A k \in Nat : k \in D
    BY <2>1, <2>2, Induct
  <2> QED
    BY <2>3 DEF D
<1> DEFINE merged == CHOOSE g : Rec(g, Len(s))
<1>2. s \in Seq(Segment) /\ Len(s) \in Nat /\ DOMAIN s = 1..Len(s)
  BY DEF Separate
<1>3. Merge(s) = merged[Len(s)]
  BY DEF Merge
<1>4. Rec(merged, Len(s))
  <2> HIDE DEF Rec
  <2> QED
    BY <1>1, <1>2
<1> HIDE DEF merged
<1>5. /\ merged[0] = << >>
      /\ \A n \in 1..Len(s) : merged[n] = MergeSegment(merged[n - 1], s[n])
  BY <1>2, <1>4
<1> HIDE DEF Rec
<1> DEFINE Good(n) ==
             /\ Canonical(merged[n])
             /\ merged[n] = << >> <=> n = 0
             /\ n # 0 => SegmentEnd(Last(merged[n])) = SegmentEnd(s[n])
             /\ \A b : \A o \in Nat : Shows(merged[n], o, b) <=>
                                    \E i \in 1..n : ShowsAt(s[i], o, b)
<1>6. Good(0)
  BY <1>5 DEF Canonical, Shows
<1>7. ASSUME NEW n \in Nat, n + 1 <= Len(s), Good(n) PROVE Good(n + 1)
  <2>1. n + 1 \in 1..Len(s) /\ (n + 1) - 1 = n
    BY <1>2, <1>7
  <2>2. merged[n + 1] = MergeSegment(merged[n], s[n + 1])
    BY <1>5, <2>1
  <2>3. Proper(s[n + 1])
    BY <1>2, <2>1 DEF Separate
  <2>4. n # 0 => SegmentEnd(Last(merged[n])) <= s[n + 1].offset
    BY <1>2, <1>7, <2>1 DEF Separate
  <2>5. /\ Canonical(merged[n + 1])
        /\ merged[n + 1] # << >>
        /\ SegmentEnd(Last(merged[n + 1])) = SegmentEnd(s[n + 1])
        /\ \A b : \A o \in Nat : Shows(merged[n + 1], o, b) <=>
                               Shows(merged[n], o, b) \/ ShowsAt(s[n + 1], o, b)
    <3>1. CASE n # 0 /\ SegmentEnd(Last(merged[n])) = s[n + 1].offset
      BY <1>7, <2>2, <2>3, <3>1, MergeTouching
    <3>2. CASE n = 0 \/ SegmentEnd(Last(merged[n])) < s[n + 1].offset
      BY <1>7, <2>2, <2>3, <3>2, MergeApart
    <3>3. n # 0 => SegmentEnd(Last(merged[n])) \in Nat /\ s[n + 1].offset \in Nat
      <4>1. n # 0 => n \in 1..Len(s) /\ Proper(s[n])
        BY <1>2, <2>1 DEF Separate
      <4> QED
        BY <4>1, <1>7, <2>3, ProperEnd
    <3> QED
      BY <2>4, <3>1, <3>2, <3>3
  <2>6. ASSUME NEW o \in Nat, NEW b
        PROVE  Shows(merged[n + 1], o, b) <=> \E i \in 1..(n + 1) : ShowsAt(s[i], o, b)
    <3>1. Shows(merged[n + 1], o, b) <=>
            (\E i \in 1..n : ShowsAt(s[i], o, b)) \/ ShowsAt(s[n + 1], o, b)
      BY <1>7, <2>5
    <3>2. \A i : i \in 1..(n + 1) <=> i \in 1..n \/ i = n + 1
      OBVIOUS
    <3> QED
      BY <3>1, <3>2
  <2>7. n + 1 # 0
    OBVIOUS
  <2> QED
    BY <2>5, <2>6, <2>7, Zenon
<1>8. \A n \in Nat : n \in {k \in Nat : k <= Len(s) => Good(k)}
  <2> HIDE DEF Good
  <2> DEFINE D == {k \in Nat : k <= Len(s) => Good(k)}
  <2>1. 0 \in D
    BY <1>6
  <2>2. ASSUME NEW n \in Nat, n \in D PROVE n + 1 \in D
    BY <1>2, <1>7, <2>2
  <2> HIDE DEF D
  <2>3. \A n \in Nat : n \in D
    BY <2>1, <2>2, Induct
  <2> QED
    BY <2>3 DEF D
<1>9. Good(Len(s))
  <2> HIDE DEF Good
  <2> QED
    BY <1>2, <1>8
<1> QED
  BY <1>2, <1>3, <1>9 DEF Shows

(* Sorting canonical segments with one more, disjoint from them, at their   *)
(* end: the sort's permutation exists, and what it gives is separate.       *)
LEMMA SortInsert ==
  ASSUME NEW segs, Canonical(segs), NEW new, Proper(new),
         \A o \in Nat : Covers(new, o) => \A i \in DOMAIN segs : ~Covers(segs[i], o)
  PROVE  /\ Separate(SortByOffset(Append(segs, new)))
         /\ \A b : \A o \in Nat : Shows(SortByOffset(Append(segs, new)), o, b) <=>
                                Shows(segs, o, b) \/ ShowsAt(new, o, b)
<1> DEFINE a == Append(segs, new)
           N == Len(segs) + 1
           Less(i, j) == \/ a[i].offset < a[j].offset
                         \/ a[i].offset = a[j].offset /\ i < j
           Order(p) == /\ Range(p) = DOMAIN a
                       /\ \A i, j \in DOMAIN a : i < j =>
                            \/ a[p[i]].offset < a[p[j]].offset
                            \/ a[p[i]].offset = a[p[j]].offset /\ p[i] < p[j]
<1>1. segs \in Seq(Segment) /\ Len(segs) \in Nat /\ DOMAIN segs = 1..Len(segs)
      /\ new \in Segment
  BY DEF Canonical, Proper
<1>2. /\ a \in Seq(Segment) /\ N \in Nat /\ DOMAIN a = 1..N /\ a[N] = new
      /\ \A i \in 1..(N - 1) : a[i] = segs[i]
  BY <1>1
<1>3. \A i \in 1..N : Proper(a[i])
  BY <1>1, <1>2 DEF Canonical
<1>4. \A i \in 1..N : /\ a[i] \in Segment /\ a[i].offset \in Nat
                      /\ SegmentEnd(a[i]) \in Nat /\ a[i].offset < SegmentEnd(a[i])
  BY <1>3, ProperEnd
<1>5. \A i, j \in 1..(N - 1) : i < j => SegmentEnd(a[i]) < a[j].offset
  BY <1>1, <1>2 DEF Canonical
<1>6. \A i \in 1..(N - 1) : SegmentEnd(a[i]) <= a[N].offset \/ SegmentEnd(a[N]) <= a[i].offset
  <2> TAKE i \in 1..(N - 1)
  <2>1. i \in DOMAIN segs /\ i \in 1..N /\ N \in 1..N
    BY <1>1, <1>2
  <2>2. ~Covers(a[N], a[i].offset) \/ ~Covers(a[i], a[i].offset)
    BY <1>2, <1>4, <2>1
  <2>3. ~Covers(a[N], a[N].offset) \/ ~Covers(a[i], a[N].offset)
    BY <1>2, <1>4, <2>1
  <2>4. /\ a[i] \in Segment /\ a[i].offset \in Nat
        /\ SegmentEnd(a[i]) \in Nat /\ a[i].offset < SegmentEnd(a[i])
        /\ a[N] \in Segment /\ a[N].offset \in Nat
        /\ SegmentEnd(a[N]) \in Nat /\ a[N].offset < SegmentEnd(a[N])
    BY <1>4, <2>1
  <2> HIDE DEF a
  <2> QED
    BY <2>2, <2>3, <2>4 DEF Covers, Segment
<1> HIDE DEF a, N
<1>7. ASSUME NEW x \in 1..N, NEW y \in 1..N, x # y, a[x].offset <= a[y].offset
      PROVE  SegmentEnd(a[x]) <= a[y].offset
  <2>1. /\ a[x].offset \in Nat /\ SegmentEnd(a[x]) \in Nat /\ a[x].offset < SegmentEnd(a[x])
        /\ a[y].offset \in Nat /\ SegmentEnd(a[y]) \in Nat /\ a[y].offset < SegmentEnd(a[y])
        /\ a[x] \in Segment /\ a[y] \in Segment
    BY <1>4
  <2>2. SegmentEnd(a[x]) <= a[y].offset \/ SegmentEnd(a[y]) <= a[x].offset
    <3>1. CASE x = N \/ y = N
      <4>1. x \in 1..(N - 1) \/ y \in 1..(N - 1)
        BY <1>2, <1>7, <3>1
      <4> QED
        BY <1>6, <1>7, <3>1, <4>1
    <3>2. CASE x # N /\ y # N
      <4>1. x \in 1..(N - 1) /\ y \in 1..(N - 1) /\ (x < y \/ y < x)
        BY <1>2, <1>7, <3>2
      <4> QED
        BY <1>5, <2>1, <4>1 DEF Segment
    <3> QED
      BY <3>1, <3>2
  <2> QED
    BY <1>7, <2>1, <2>2 DEF Segment
<1>8. \E p \in [1..N -> 1..N] : Order(p)
  <2> DEFINE K == {i \in 1..N : i = N \/ a[i].offset > a[N].offset}
  <2>1. K \in SUBSET Nat /\ K # {}
    BY <1>1, <1>2 DEF N
  <2>2. PICK k \in K : \A i \in K : k <= i
    <3> HIDE DEF K
    <3> QED
      BY <2>1, Least
  <2>3. k \in 1..N /\ N \in Nat /\ \A i \in 1..N : i < k => i # N /\ a[i].offset <= a[N].offset
    BY <1>2, <1>4, <2>2
  <2>4. \A i, j \in 1..(N - 1) : i < j => a[i].offset < a[j].offset
    <3> TAKE i, j \in 1..(N - 1)
    <3>1. i \in 1..N /\ j \in 1..N
      BY <1>2
    <3>2. /\ a[i].offset \in Nat /\ SegmentEnd(a[i]) \in Nat /\ a[i].offset < SegmentEnd(a[i])
          /\ a[j].offset \in Nat /\ a[i] \in Segment /\ a[j] \in Segment
      BY <1>4, <3>1
    <3> QED
      BY <1>5, <3>2 DEF Segment
  <2>5. \A i \in 1..(N - 1) : i >= k => a[N].offset < a[i].offset
    <3> TAKE i \in 1..(N - 1)
    <3>1. CASE k = N
      BY <1>2, <3>1
    <3>2. CASE k # N /\ i >= k
      <4>1. k \in 1..(N - 1) /\ a[N].offset < a[k].offset
        BY <1>2, <1>4, <2>2, <2>3, <3>2
      <4>2. i = k \/ a[k].offset < a[i].offset
        BY <2>4, <3>2, <4>1
      <4>3. a[N].offset \in Nat /\ a[k].offset \in Nat /\ a[i].offset \in Nat
        BY <1>2, <1>4, <2>3
      <4> QED
        BY <4>1, <4>2, <4>3
    <3> QED
      BY <1>2, <2>3, <3>1, <3>2
  <2> HIDE DEF K
  <2> DEFINE p == [i \in 1..N |-> IF i < k THEN i ELSE IF i = k THEN N ELSE i - 1]
  <2>6. p \in [1..N -> 1..N]
    BY <1>2, <2>3
  <2>7. Range(p) = DOMAIN a
    <3>1. ASSUME NEW y \in 1..N PROVE \E x \in 1..N : p[x] = y
      <4>1. CASE y < k
        BY <4>1
      <4>2. CASE y = N
        BY <4>2, <2>3
      <4>3. CASE y >= k /\ y # N
        <5>1. y + 1 \in 1..N /\ p[y + 1] = y
          BY <1>2, <2>3, <4>3
        <5> QED
          BY <5>1
      <4> QED
        BY <1>2, <2>3, <4>1, <4>2, <4>3
    <3>2. Range(p) = {p[x] : x \in 1..N} /\ DOMAIN a = 1..N
      BY <1>2, <2>6 DEF Range
    <3>3. \A x \in 1..N : p[x] \in 1..N
      BY <2>6
    <3> HIDE DEF p
    <3> QED
      BY <3>1, <3>2, <3>3
  <2>8. ASSUME NEW i \in 1..N, NEW j \in 1..N, i < j PROVE Less(p[i], p[j])
    <3>1. i < N /\ k \in 1..N /\ N \in Nat
      BY <1>2, <2>3, <2>8
    <3>2. CASE j < k
      <4>1. p[i] = i /\ p[j] = j /\ i \in 1..(N - 1) /\ j \in 1..(N - 1)
        BY <2>8, <3>1, <3>2
      <4> QED
        BY <2>4, <2>8, <4>1
    <3>3. CASE j = k
      <4>1. p[i] = i /\ p[j] = N /\ i < k
        BY <2>8, <3>1, <3>3
      <4>2. a[i].offset <= a[N].offset /\ a[i].offset \in Nat /\ a[N].offset \in Nat
        BY <1>4, <2>3, <4>1
      <4> QED
        BY <3>1, <4>1, <4>2
    <3>4. CASE k < j /\ i < k
      <4>1. p[i] = i /\ p[j] = j - 1 /\ i \in 1..(N - 1) /\ j - 1 \in 1..(N - 1)
        BY <2>8, <3>1, <3>4
      <4>2. i < j - 1
        BY <2>8, <3>1, <3>4
      <4> QED
        BY <2>4, <4>1, <4>2
    <3>5. CASE k < j /\ i = k
      <4>1. p[i] = N /\ p[j] = j - 1 /\ j - 1 \in 1..(N - 1) /\ j - 1 >= k
        BY <2>8, <3>1, <3>5
      <4> QED
        BY <2>5, <4>1
    <3>6. CASE k < j /\ k < i
      <4>1. /\ p[i] = i - 1 /\ p[j] = j - 1 /\ i - 1 \in 1..(N - 1) /\ j - 1 \in 1..(N - 1)
            /\ i - 1 < j - 1
        BY <2>8, <3>1, <3>6
      <4> QED
        BY <2>4, <4>1
    <3>7. j < k \/ j = k \/ (k < j /\ i < k) \/ (k < j /\ i = k) \/ (k < j /\ k < i)
      BY <3>1
    <3> HIDE DEF p
    <3> QED
      BY <3>2, <3>3, <3>4, <3>5, <3>6, <3>7, Zenon
  <2> HIDE DEF p
  <2> QED
    BY <1>2, <2>6, <2>7, <2>8
<1> DEFINE p == SortOrder(a)
           t == SortByOffset(a)
<1>9. p \in [1..N -> 1..N] /\ Order(p)
  <2>1. p = CHOOSE q \in [1..N -> 1..N] : Order(q)
    BY <1>2 DEF SortOrder
  <2> HIDE DEF p, Order
  <2> QED
    BY <1>8, <2>1
<1>10. t = [i \in 1..N |-> a[p[i]]]
  BY <1>2 DEF SortByOffset
<1> HIDE DEF p, t
<1>11. /\ t \in Seq(Segment) /\ DOMAIN t = 1..N /\ Len(t) = N
       /\ \A i \in 1..N : p[i] \in 1..N /\ t[i] = a[p[i]]
  BY <1>2, <1>9, <1>10
<1>12. Separate(t)
  <2>1. \A i \in DOMAIN t : Proper(t[i])
    BY <1>3, <1>11
  <2>2. ASSUME NEW i \in DOMAIN t, NEW j \in DOMAIN t, i < j
        PROVE  SegmentEnd(t[i]) <= t[j].offset
    <3>1. p[i] \in 1..N /\ p[j] \in 1..N /\ t[i] = a[p[i]] /\ t[j] = a[p[j]]
      BY <1>11
    <3>2. a[p[i]].offset \in Nat /\ a[p[j]].offset \in Nat
      BY <1>4, <3>1
    <3>4. \/ a[p[i]].offset < a[p[j]].offset
          \/ a[p[i]].offset = a[p[j]].offset /\ p[i] < p[j]
      BY <1>2, <1>9, <1>11, <2>2, Zenon
    <3>3. p[i] # p[j] /\ a[p[i]].offset <= a[p[j]].offset
      BY <3>1, <3>2, <3>4
    <3> QED
      BY <1>7, <3>1, <3>3
  <2> QED
    BY <1>11, <2>1, <2>2 DEF Separate
<1>13. ASSUME NEW o \in Nat, NEW b
       PROVE  Shows(t, o, b) <=> Shows(segs, o, b) \/ ShowsAt(new, o, b)
  <2>1. Shows(t, o, b) => \E x \in 1..N : ShowsAt(a[x], o, b)
    BY <1>11 DEF Shows
  <2>2. ASSUME NEW x \in 1..N, ShowsAt(a[x], o, b) PROVE Shows(t, o, b)
    <3>0. x \in Range(p) /\ DOMAIN p = 1..N
      BY <1>2, <1>9
    <3>1. PICK i \in 1..N : p[i] = x
      BY <3>0 DEF Range
    <3> QED
      BY <1>11, <2>2, <3>1 DEF Shows
  <2>3. \A x : x \in 1..N <=> x \in DOMAIN segs \/ x = N
    BY <1>1 DEF N
  <2>4. \A x \in DOMAIN segs : a[x] = segs[x]
    BY <1>1, <1>2 DEF N
  <2> QED
    BY <1>2, <2>1, <2>2, <2>3, <2>4 DEF Shows
<1> QED
  BY <1>12, <1>13 DEF t, a

(* insert_segment adds the new segment's bytes and keeps the rest.          *)
LEMMA InsertShows ==
  ASSUME NEW segs, Canonical(segs), NEW new, Proper(new),
         \A o \in Nat : Covers(new, o) => \A i \in DOMAIN segs : ~Covers(segs[i], o)
  PROVE  /\ Canonical(InsertSegment(segs, new))
         /\ \A b : \A o \in Nat : Shows(InsertSegment(segs, new), o, b) <=>
                                Shows(segs, o, b) \/ ShowsAt(new, o, b)
BY SortInsert, MergeLoop DEF InsertSegment

-----------------------------------------------------------------------------
(* The cache seen through any sequence of segments *)

Covering(segs, o) == SelectInSeq(segs, LAMBDA s : Covers(s, o))

View(segs) ==
  [o \in Offset |->
     LET i == Covering(segs, o)
     IN IF i = 0 THEN Missing ELSE segs[i].bytes[o - segs[i].offset + 1]]

(* The view of the cache as an operator on segments.                         *)
LEMMA ViewOfSegments ==
  /\ CacheView = View(segments)
  /\ \A o : SegmentCovering(o) = Covering(segments, o)
BY DEF CacheView, View, SegmentCovering, Covering

(* Covering finds a segment that covers the offset, if there is one.         *)
LEMMA CoveringCovers ==
  ASSUME NEW segs \in Seq(Segment), NEW o
  PROVE  \/ Covering(segs, o) = 0 /\ \A i \in DOMAIN segs : ~Covers(segs[i], o)
         \/ Covering(segs, o) \in DOMAIN segs /\ Covers(segs[Covering(segs, o)], o)
<1> DEFINE I == {i \in 1..Len(segs) : Covers(segs[i], o)}
<1>1. Covering(segs, o) = IF I # {} THEN Min(I) ELSE 0
  BY DEF Covering, SelectInSeq
<1>2. I \in SUBSET Nat /\ DOMAIN segs = 1..Len(segs)
  BY SegmentsDomain
<1>3. I # {} => Min(I) \in I
  <2> HIDE DEF I
  <2> QED
    BY <1>2, MinIsLeast
<1> QED
  BY <1>1, <1>2, <1>3

(* A segment holds a byte at every offset it covers.                         *)
LEMMA ByteShown ==
  ASSUME NEW s, Proper(s), NEW o \in Nat, Covers(s, o)
  PROVE  /\ o - s.offset + 1 \in DOMAIN s.bytes
         /\ s.bytes[o - s.offset + 1] \in Byte
<1>1. /\ s \in Segment /\ s.offset \in Nat /\ Len(s.bytes) \in Nat /\ s.bytes \in Seq(Byte)
      /\ SegmentEnd(s) = s.offset + Len(s.bytes)
  BY ProperEnd
<1>2. o - s.offset + 1 \in 1..Len(s.bytes)
  BY <1>1 DEF Covers, Segment
<1> QED
  BY <1>1, <1>2, ElementOfSeq DEF Segment

(* At most one segment covers an offset. *)
LEMMA CoverUnique ==
  ASSUME NEW segs, Canonical(segs), NEW o \in Nat,
         NEW i \in DOMAIN segs, NEW j \in DOMAIN segs,
         Covers(segs[i], o), Covers(segs[j], o)
  PROVE  i = j
<1>1. DOMAIN segs = 1..Len(segs) /\ Len(segs) \in Nat /\ Proper(segs[i]) /\ Proper(segs[j])
  BY DEF Canonical
<1>2. /\ segs[i].offset \in Nat /\ SegmentEnd(segs[i]) \in Nat /\ segs[i] \in Segment
      /\ segs[j].offset \in Nat /\ SegmentEnd(segs[j]) \in Nat /\ segs[j] \in Segment
  BY <1>1, ProperEnd
<1>3. ~(i < j)
  <2> SUFFICES ASSUME i < j PROVE FALSE
    OBVIOUS
  <2>1. SegmentEnd(segs[i]) < segs[j].offset
    BY DEF Canonical
  <2> QED
    BY <1>2, <2>1 DEF Covers, Segment
<1>4. ~(j < i)
  <2> SUFFICES ASSUME j < i PROVE FALSE
    OBVIOUS
  <2>1. SegmentEnd(segs[j]) < segs[i].offset
    BY DEF Canonical
  <2> QED
    BY <1>2, <2>1 DEF Covers, Segment
<1> QED
  BY <1>1, <1>3, <1>4

(* A byte is in the view exactly if a segment shows it.                      *)
LEMMA ViewShows ==
  ASSUME NEW segs, Canonical(segs), NEW o \in Offset
  PROVE  /\ View(segs)[o] \in Byte \cup {Missing}
         /\ \A b \in Byte : View(segs)[o] = b <=> Shows(segs, o, b)
         /\ View(segs)[o] = Missing <=> \A i \in DOMAIN segs : ~Covers(segs[i], o)
         /\ View(segs)[o] = Missing <=> Covering(segs, o) = 0
<1> DEFINE c == Covering(segs, o)
<1>1. segs \in Seq(Segment) /\ o \in Nat /\ 0 \notin DOMAIN segs
  BY WidthAssumption DEF Canonical, Offset
<1>2. View(segs)[o] = IF c = 0 THEN Missing ELSE segs[c].bytes[o - segs[c].offset + 1]
  BY DEF View
<1>3. \/ c = 0 /\ \A i \in DOMAIN segs : ~Covers(segs[i], o)
      \/ c \in DOMAIN segs /\ Covers(segs[c], o)
  BY <1>1, CoveringCovers
<1> HIDE DEF c
<1>4. CASE c = 0 /\ \A i \in DOMAIN segs : ~Covers(segs[i], o)
  BY <1>2, <1>4, MissingAssumption DEF Shows, ShowsAt, c
<1>5. CASE c \in DOMAIN segs /\ Covers(segs[c], o)
  <2>1. c # 0 /\ View(segs)[o] = segs[c].bytes[o - segs[c].offset + 1]
    BY <1>1, <1>2, <1>5
  <2>2. View(segs)[o] \in Byte
    BY <1>1, <1>5, <2>1, ByteShown DEF Canonical
  <2>3. \A b \in Byte : View(segs)[o] = b <=> Shows(segs, o, b)
    <3>1. ASSUME NEW b \in Byte, Shows(segs, o, b) PROVE View(segs)[o] = b
      <4>1. PICK i \in DOMAIN segs : ShowsAt(segs[i], o, b)
        BY <3>1 DEF Shows
      <4>2. i = c
        BY <1>1, <1>5, <4>1, CoverUnique DEF ShowsAt
      <4> QED
        BY <2>1, <4>1, <4>2 DEF ShowsAt
    <3>2. Shows(segs, o, View(segs)[o])
      BY <1>5, <2>1 DEF Shows, ShowsAt
    <3> QED
      BY <3>1, <3>2
  <2> QED
    BY <1>5, <2>1, <2>2, <2>3, MissingAssumption DEF c
<1> QED
  BY <1>3, <1>4, <1>5

(* What insert_segment does to the cache: the new bytes, the rest as before. *)
LEMMA InsertView ==
  ASSUME NEW segs, Canonical(segs), NEW new, Proper(new),
         \A o \in Nat : Covers(new, o) => \A i \in DOMAIN segs : ~Covers(segs[i], o)
  PROVE  /\ Canonical(InsertSegment(segs, new))
         /\ \A o \in Offset :
              View(InsertSegment(segs, new))[o] =
                IF Covers(new, o) THEN new.bytes[o - new.offset + 1] ELSE View(segs)[o]
<1> DEFINE r == InsertSegment(segs, new)
<1>1. /\ Canonical(r)
      /\ \A b : \A o \in Nat : Shows(r, o, b) <=> Shows(segs, o, b) \/ ShowsAt(new, o, b)
  BY InsertShows
<1> HIDE DEF r
<1>2. ASSUME NEW o \in Offset
      PROVE  View(r)[o] = IF Covers(new, o) THEN new.bytes[o - new.offset + 1]
                          ELSE View(segs)[o]
  <2>1. o \in Nat
    BY WidthAssumption DEF Offset
  <2>2. /\ View(r)[o] \in Byte \cup {Missing}
        /\ \A b \in Byte : View(r)[o] = b <=> Shows(r, o, b)
    BY <1>1, ViewShows
  <2>3. /\ View(segs)[o] \in Byte \cup {Missing}
        /\ \A b \in Byte : View(segs)[o] = b <=> Shows(segs, o, b)
    BY ViewShows
  <2>4. CASE Covers(new, o)
    <3>1. new.bytes[o - new.offset + 1] \in Byte
      BY <2>1, <2>4, ByteShown
    <3>2. Shows(r, o, new.bytes[o - new.offset + 1])
      BY <1>1, <2>1, <2>4 DEF ShowsAt
    <3> QED
      BY <2>2, <2>4, <3>1, <3>2
  <2>5. CASE ~Covers(new, o)
    <3>1. \A b : Shows(r, o, b) <=> Shows(segs, o, b)
      BY <1>1, <2>1, <2>5 DEF ShowsAt
    <3> QED
      BY <2>2, <2>3, <2>5, <3>1, MissingAssumption
  <2> QED
    BY <2>4, <2>5
<1> QED
  BY <1>1, <1>2 DEF r

-----------------------------------------------------------------------------
(* What ConfigSpaceSnapshot::read returns *)

(* The bytes of the view from offset o up to, not including, end. *)
Bytes(o, end) == [i \in 1..(end - o) |-> View(segments)[o + i - 1]]

(* Inside a segment the view shows the bytes of the segment. *)
LEMMA ViewInSegment ==
  ASSUME Canonical(segments), NEW c \in DOMAIN segments, NEW o \in Offset,
         Covers(segments[c], o)
  PROVE  View(segments)[o] = segments[c].bytes[o - segments[c].offset + 1]
<1>1. o \in Nat /\ Proper(segments[c])
  BY WidthAssumption DEF Offset, Canonical
<1>2. segments[c].bytes[o - segments[c].offset + 1] \in Byte
  BY <1>1, ByteShown
<1> QED
  BY <1>2, ViewShows DEF Shows, ShowsAt

(* One turn of read's loop: the rest of the segment that covers c, or of    *)
(* the range, and what is read from there on.                               *)
LEMMA ReadTurn ==
  ASSUME Canonical(segments), NEW end \in 0..U32Max, NEW c \in Nat, c < end,
         NEW s, Proper(s), Covers(s, c),
         \A o \in Offset : Covers(s, o) =>
           View(segments)[o] = s.bytes[o - s.offset + 1],
         NEW stop \in Nat, c < stop, stop <= end, stop <= SegmentEnd(s)
  PROVE  SubSeq(s.bytes, c - s.offset + 1, stop - s.offset) \o Bytes(stop, end) = Bytes(c, end)
<1> DEFINE V == View(segments)
           head == SubSeq(s.bytes, c - s.offset + 1, stop - s.offset)
<1>2. /\ s \in Segment /\ s.offset \in Nat /\ SegmentEnd(s) \in Nat /\ s.bytes \in Seq(Byte)
      /\ Len(s.bytes) \in Nat /\ SegmentEnd(s) = s.offset + Len(s.bytes)
  BY ProperEnd
<1>3. s.offset <= c /\ c < SegmentEnd(s) /\ end \in Nat
  BY WidthAssumption DEF Covers
<1>5. \A i \in 1..(stop - c) :
        /\ c + i - 1 \in Offset
        /\ Covers(s, c + i - 1)
        /\ (c - s.offset + 1) + i - 1 = (c + i - 1) - s.offset + 1
  BY <1>2, <1>3, WidthAssumption DEF Covers, Offset, Segment
<1>6. \A i \in 1..(stop - c) : V[c + i - 1] = s.bytes[(c - s.offset + 1) + i - 1]
  BY <1>5
<1>7. \A i \in Offset : V[i] \in Byte \cup {Missing}
  BY ViewShows
<1>8. /\ head \in Seq(Byte \cup {Missing})
      /\ Len(head) = stop - c
      /\ \A i \in 1..(stop - c) : head[i] = V[c + i - 1]
  <2>1. /\ c - s.offset + 1 \in Int /\ stop - s.offset \in Int
        /\ (stop - s.offset) - (c - s.offset + 1) + 1 = stop - c
        /\ c - s.offset + 1 <= stop - s.offset
    BY <1>2, <1>3 DEF Segment
  <2>2. \A i \in (c - s.offset + 1)..(stop - s.offset) : s.bytes[i] \in Byte \cup {Missing}
    <3>1. \A i \in (c - s.offset + 1)..(stop - s.offset) : i \in 1..Len(s.bytes)
      BY <1>2, <1>3 DEF Segment
    <3> QED
      BY <1>2, <3>1
  <2> QED
    BY <1>6, <2>1, <2>2, SubSeqProperties
<1>9. /\ Bytes(stop, end) \in Seq(Byte \cup {Missing})
      /\ Len(Bytes(stop, end)) = end - stop
      /\ \A i \in 1..(end - stop) : Bytes(stop, end)[i] = V[stop + i - 1]
  <2>1. \A i \in 1..(end - stop) : stop + i - 1 \in Offset
    BY <1>3, WidthAssumption DEF Offset
  <2> QED
    BY <1>3, <1>7, <2>1 DEF Bytes
<1>10. /\ Bytes(c, end) \in Seq(Byte \cup {Missing})
       /\ Len(Bytes(c, end)) = end - c
       /\ \A i \in 1..(end - c) : Bytes(c, end)[i] = V[c + i - 1]
  <2>1. \A i \in 1..(end - c) : c + i - 1 \in Offset
    BY <1>3, WidthAssumption DEF Offset
  <2> QED
    BY <1>3, <1>7, <2>1 DEF Bytes
<1> HIDE DEF V, head
<1>11. /\ head \o Bytes(stop, end) \in Seq(Byte \cup {Missing})
       /\ Len(head \o Bytes(stop, end)) = end - c
       /\ \A i \in 1..(end - c) : (head \o Bytes(stop, end))[i] =
            IF i <= stop - c THEN head[i] ELSE Bytes(stop, end)[i - (stop - c)]
  <2>1. (stop - c) + (end - stop) = end - c
    BY <1>3
  <2> DEFINE tail == Bytes(stop, end)
  <2>2. /\ head \in Seq(Byte \cup {Missing}) /\ tail \in Seq(Byte \cup {Missing})
        /\ Len(head) = stop - c /\ Len(tail) = end - stop
    BY <1>8, <1>9
  <2> HIDE DEF tail
  <2>3. /\ head \o tail \in Seq(Byte \cup {Missing})
        /\ Len(head \o tail) = Len(head) + Len(tail)
        /\ \A i \in 1..(Len(head) + Len(tail)) :
             (head \o tail)[i] = IF i <= Len(head) THEN head[i] ELSE tail[i - Len(head)]
    BY <2>2, ConcatProperties
  <2>4. Len(head) + Len(tail) = end - c
    BY <2>1, <2>2
  <2> QED
    BY <2>2, <2>3, <2>4 DEF tail
<1>12. \A i \in 1..(end - c) : (head \o Bytes(stop, end))[i] = Bytes(c, end)[i]
  <2> TAKE i \in 1..(end - c)
  <2>1. CASE i <= stop - c
    BY <1>3, <1>8, <1>10, <1>11, <2>1
  <2>2. CASE ~(i <= stop - c)
    <3>1. i - (stop - c) \in 1..(end - stop) /\ stop + (i - (stop - c)) - 1 = c + i - 1
      BY <1>3, <2>2
    <3> QED
      BY <1>9, <1>10, <1>11, <2>2, <3>1
  <2> QED
    BY <2>1, <2>2
<1>13. head \o Bytes(stop, end) = Bytes(c, end)
  BY <1>10, <1>11, <1>12, SeqEqual
<1> QED
  BY <1>13 DEF head

(* read returns the bytes of the view, in order, when all are cached.       *)
LEMMA SnapshotReadReturns ==
  ASSUME Canonical(segments), NEW o \in Nat, NEW n \in Nat, n # 0, o + n <= U32Max
  PROVE  /\ (\A c \in o..(o + n - 1) : SegmentCovering(c) # 0) =>
              SnapshotRead(o, n) = Bytes(o, o + n)
         /\ (\E c \in o..(o + n - 1) : SegmentCovering(c) = 0) =>
              SnapshotRead(o, n) = << >>
<1>1. CASE \E c \in o..(o + n - 1) : SegmentCovering(c) = 0
  <2>1. SnapshotRead(o, n) = << >>
    <3> DEFINE end == o + n
    <3>1. n = 0 \/ end > U32Max \/ \E c \in o..(end - 1) : SegmentCovering(c) = 0
      <4>1. o + n - 1 = end - 1
        OBVIOUS
      <4> QED
        BY <1>1, <4>1, Zenon
    <3> QED
      BY <3>1, Zenon DEF SnapshotRead
  <2> QED
    BY <1>1, <2>1
<1>2. CASE \A c \in o..(o + n - 1) : SegmentCovering(c) # 0
  <2> DEFINE end == o + n
             seg(c) == segments[SegmentCovering(c)]
             stop(c) == Min({SegmentEnd(seg(c)), end})
             Turn(g, c) ==
               IF c = end THEN << >>
               ELSE SubSeq(seg(c).bytes, c - seg(c).offset + 1, stop(c) - seg(c).offset)
                      \o g[stop(c)]
             Rec(g, k) == g = [c \in (end - k)..end |-> Turn(g, c)]
  <2>1. end \in Nat /\ end \in 0..U32Max /\ U32Max \in Nat
    BY WidthAssumption
  <2>2. ASSUME NEW c \in o..(end - 1)
        PROVE  /\ seg(c) \in Segment /\ Proper(seg(c)) /\ Covers(seg(c), c)
               /\ stop(c) \in Nat /\ c < stop(c) /\ stop(c) <= end
               /\ stop(c) <= SegmentEnd(seg(c))
               /\ \A i \in Offset : Covers(seg(c), i) =>
                    View(segments)[i] = seg(c).bytes[i - seg(c).offset + 1]
    <3>1. SegmentCovering(c) \in DOMAIN segments /\ Covers(seg(c), c)
      <4>1. segments \in Seq(Segment) /\ SegmentCovering(c) # 0
        BY <1>2 DEF Canonical
      <4> QED
        BY <4>1, ViewOfSegments, CoveringCovers
    <3>2. Proper(seg(c))
      BY <3>1 DEF Canonical
    <3>3. seg(c) \in Segment /\ SegmentEnd(seg(c)) \in Nat
      BY <3>2, ProperEnd
    <3>4. c \in Nat /\ c < end
      BY <2>1
    <3>5. c < SegmentEnd(seg(c))
      BY <3>1 DEF Covers
    <3>6. stop(c) = IF SegmentEnd(seg(c)) <= end THEN SegmentEnd(seg(c)) ELSE end
      BY <2>1, <3>3, MinOfTwo
    <3> HIDE DEF seg, stop
    <3>7. stop(c) \in Nat /\ c < stop(c) /\ stop(c) <= end /\ stop(c) <= SegmentEnd(seg(c))
      BY <2>1, <3>3, <3>4, <3>5, <3>6
    <3>8. \A i \in Offset : Covers(seg(c), i) =>
                    View(segments)[i] = seg(c).bytes[i - seg(c).offset + 1]
      BY <3>1, ViewInSegment DEF seg
    <3> QED
      BY <3>1, <3>2, <3>3, <3>7, <3>8
  <2> HIDE DEF end, seg, stop
  <2>3. ASSUME NEW k \in Nat, k <= n PROVE \E g : Rec(g, k)
    <3> DEFINE D == {m \in Nat : m <= n => \E g : Rec(g, m)}
    <3>1. 0 \in D
      <4> DEFINE h == [c \in (end - 0)..end |-> << >>]
      <4>1. \A c \in (end - 0)..end : c = end
        BY <2>1
      <4>2. Rec(h, 0)
        BY <4>1
      <4> HIDE DEF h, Rec
      <4> QED
        BY <4>2
    <3>2. ASSUME NEW m \in Nat, m \in D PROVE m + 1 \in D
      <4> HIDE DEF Rec
      <4> SUFFICES ASSUME m + 1 <= n PROVE \E h : Rec(h, m + 1)
        OBVIOUS
      <4> USE DEF Rec
      <4>1. PICK g : Rec(g, m)
        <5> HIDE DEF Rec
        <5> QED
          BY <3>2
      <4> DEFINE d == end - (m + 1)
                 h == [c \in d..end |-> IF c = d THEN Turn(g, c) ELSE g[c]]
      <4>2. d \in o..(end - 1) /\ d \in Nat /\ (end - m) = d + 1
        BY <2>1 DEF end
      <4>3. ASSUME NEW c \in d..end PROVE h[c] = Turn(h, c)
        <5>1. CASE c = end
          <6>1. end # d /\ end \in (end - m)..end
            BY <2>1, <4>2
          <6>2. g[end] = << >>
            BY <4>1, <6>1
          <6> QED
            BY <5>1, <6>1, <6>2
        <5>2. CASE c # end
          <6>1. c \in o..(end - 1) /\ stop(c) \in (c + 1)..end
            <7>1. c \in o..(end - 1)
              BY <2>1, <4>2, <5>2
            <7>2. stop(c) \in Nat /\ c < stop(c) /\ stop(c) <= end
              BY <2>2, <7>1
            <7> QED
              BY <2>1, <7>1, <7>2
          <6>2. stop(c) \in d..end /\ stop(c) # d
            BY <2>1, <4>2, <6>1
          <6>3. h[stop(c)] = g[stop(c)]
            BY <6>2
          <6>4. Turn(h, c) = Turn(g, c)
            <7> HIDE DEF h
            <7> QED
              BY <5>2, <6>3, Zenon
          <6>5. c # d => g[c] = Turn(g, c)
            <7>1. c # d => c \in (end - m)..end
              BY <2>1, <4>2
            <7> QED
              BY <4>1, <7>1
          <6> HIDE DEF Turn, d
          <6> QED
            BY <6>4, <6>5
        <5> QED
          BY <5>1, <5>2
      <4>4. Rec(h, m + 1)
        <5> HIDE DEF Turn
        <5>1. h = [c \in d..end |-> h[c]]
          OBVIOUS
        <5> HIDE DEF h
        <5> QED
          BY <4>3, <5>1
      <4> HIDE DEF h, Rec
      <4> QED
        BY <4>4, Zenon
    <3> HIDE DEF D
    <3>3. \A m \in Nat : m \in D
      BY <3>1, <3>2, Induct
    <3> HIDE DEF Rec
    <3> QED
      BY <2>3, <3>3 DEF D
  <2> DEFINE take == CHOOSE g : g = [c \in o..end |-> Turn(g, c)]
  <2>4. SnapshotRead(o, n) = take[o]
    <3>1. ~(n = 0 \/ end > U32Max \/ \E c \in o..(end - 1) : SegmentCovering(c) = 0)
      BY <1>2, <2>1 DEF end
    <3> QED
      BY <3>1, Zenon DEF SnapshotRead, end, seg, stop
  <2>5. take = [c \in o..end |-> Turn(take, c)]
    <3>1. end - n = o
      BY <2>1 DEF end
    <3>2. \E g : g = [c \in (end - n)..end |-> Turn(g, c)]
      <4> HIDE DEF Turn
      <4>1. n <= n
        OBVIOUS
      <4> QED
        BY <2>3, <4>1
    <3>3. \E g : g = [c \in o..end |-> Turn(g, c)]
      BY <3>1, <3>2
    <3> HIDE DEF Turn
    <3> QED
      BY <3>3
  <2> HIDE DEF take
  <2>6. \A k \in Nat : k \in {m \in Nat : \A c \in (end - m)..end : c >= o => take[c] = Bytes(c, end)}
    <3> DEFINE D == {m \in Nat : \A c \in (end - m)..end : c >= o => take[c] = Bytes(c, end)}
    <3>1. 0 \in D
      <4>1. end \in o..end /\ take[end] = << >>
        BY <2>1, <2>5 DEF end
      <4>2. Bytes(end, end) = << >>
        BY <2>1 DEF Bytes
      <4> QED
        BY <2>1, <4>1, <4>2
    <3>2. ASSUME NEW m \in Nat, m \in D PROVE m + 1 \in D
      <4> SUFFICES ASSUME NEW c \in (end - (m + 1))..end, c >= o
                   PROVE  take[c] = Bytes(c, end)
        OBVIOUS
      <4>1. CASE c \in (end - m)..end
        BY <3>2, <4>1
      <4>2. CASE c \notin (end - m)..end
        <5>1. c \in o..(end - 1) /\ c \in o..end /\ c # end /\ c \in Nat /\ c < end
              /\ c + 1 = end - m
          BY <2>1, <4>2
        <5>2. take[c] = SubSeq(seg(c).bytes, c - seg(c).offset + 1, stop(c) - seg(c).offset)
                          \o take[stop(c)]
          BY <2>5, <5>1
        <5>3. stop(c) \in (end - m)..end /\ stop(c) >= o
          <6>1. stop(c) \in Nat /\ c < stop(c) /\ stop(c) <= end
            BY <2>2, <5>1
          <6> QED
            BY <2>1, <5>1, <6>1
        <5>4. take[stop(c)] = Bytes(stop(c), end)
          BY <3>2, <5>3
        <5>5. SubSeq(seg(c).bytes, c - seg(c).offset + 1, stop(c) - seg(c).offset)
                \o Bytes(stop(c), end) = Bytes(c, end)
          BY <2>1, <2>2, <5>1, ReadTurn
        <5> QED
          BY <5>2, <5>4, <5>5
      <4> QED
        BY <4>1, <4>2
    <3> HIDE DEF D
    <3>3. \A k \in Nat : k \in D
      BY <3>1, <3>2, Induct
    <3> QED
      BY <3>3 DEF D
  <2>7. take[o] = Bytes(o, end)
    <3>1. n \in {m \in Nat : \A c \in (end - m)..end : c >= o => take[c] = Bytes(c, end)}
      BY <2>6
    <3>2. o \in (end - n)..end /\ o >= o
      BY <2>1 DEF end
    <3> QED
      BY <3>1, <3>2
  <2> QED
    BY <1>2, <2>4, <2>7 DEF end
<1> QED
  BY <1>1, <1>2

-----------------------------------------------------------------------------
(* The rows of the hex dump *)

DumpRow   == [offset : Nat, bytes : Seq(Byte)]
RowEnd(r) == r.offset + Len(r.bytes)

RowsBetween(d, lo, hi) ==
  \A i \in DOMAIN d : lo <= d[i].offset /\ RowEnd(d[i]) <= hi

RowsInOrder(d) == \A i, j \in DOMAIN d : i < j => RowEnd(d[i]) <= d[j].offset

RowsShow(d, T) ==
  \A i \in DOMAIN d : \A c \in DOMAIN d[i].bytes :
    \E s \in T : ShowsAt(s, d[i].offset + c - 1, d[i].bytes[c])

RowsReach(d, T) ==
  \A o \in Nat : (\E s \in T : Covers(s, o)) =>
    \E i \in DOMAIN d : d[i].offset <= o /\ o < RowEnd(d[i])

(* The rows d, all between lo and hi and in order, have the bytes of the    *)
(* segments T and no other.                                                 *)
Renders(d, lo, hi, T) ==
  /\ d \in Seq(DumpRow)
  /\ RowsBetween(d, lo, hi) /\ RowsInOrder(d)
  /\ RowsShow(d, T) /\ RowsReach(d, T)

(* The types of the rows.                                                    *)
LEMMA RowTypes ==
  ASSUME NEW d \in Seq(DumpRow)
  PROVE  \A i \in DOMAIN d : /\ d[i].offset \in Nat /\ d[i].bytes \in Seq(Byte)
                            /\ Len(d[i].bytes) \in Nat
                            /\ DOMAIN d[i].bytes = 1..Len(d[i].bytes)
<1>1. ASSUME NEW i \in DOMAIN d
      PROVE  /\ d[i].offset \in Nat /\ d[i].bytes \in Seq(Byte)
             /\ Len(d[i].bytes) \in Nat
             /\ DOMAIN d[i].bytes = 1..Len(d[i].bytes)
  <2>1. d[i] \in DumpRow
    BY ElementOfSeq
  <2>2. d[i].offset \in Nat /\ d[i].bytes \in Seq(Byte)
    BY <2>1 DEF DumpRow
  <2> QED
    BY <2>2
<1> QED
  BY <1>1

(* Every number is so many times the row length and less than one more.     *)
LEMMA RowDivision ==
  ASSUME NEW a \in Nat
  PROVE  /\ a \div RowLength \in Nat
         /\ (a \div RowLength) * RowLength <= a
         /\ a < (a \div RowLength) * RowLength + RowLength
BY WidthAssumption, SMT

(* Rows do not overlap: row i ends where the next one starts.               *)
LEMMA RowsMultiply ==
  ASSUME NEW i \in Nat, NEW j \in Nat
  PROVE  /\ i * RowLength \in Nat
         /\ (i + 1) * RowLength = i * RowLength + RowLength
         /\ i <= j => i * RowLength <= j * RowLength
<1>1. RowLength \in Nat \ {0}
  BY WidthAssumption
<1>2. i * RowLength \in Nat /\ (i + 1) * RowLength = i * RowLength + RowLength
  BY <1>1, SMT
<1>3. ASSUME i <= j PROVE i * RowLength <= j * RowLength
  <2>1. j - i \in Nat /\ j = i + (j - i)
    BY <1>3
  <2>2. (j - i) * RowLength \in Nat
    BY <1>1, <2>1, SMT
  <2>3. j * RowLength = i * RowLength + (j - i) * RowLength
    BY <1>1, <2>1, SMT
  <2> QED
    BY <1>1, <1>2, <2>2, <2>3, SMT
<1> QED
  BY <1>2, <1>3

(* The number of rows of n bytes.                                            *)
RowCount(n) == (n + RowLength - 1) \div RowLength

(* The rows hold the n bytes, and each row begins before the end.           *)
LEMMA RowCountFacts ==
  ASSUME NEW n \in Nat \ {0}
  PROVE  /\ RowCount(n) \in Nat
         /\ n <= RowCount(n) * RowLength
         /\ \A i \in 1..RowCount(n) : (i - 1) * RowLength \in Nat /\ (i - 1) * RowLength < n
<1>1. RowLength \in Nat \ {0} /\ n + RowLength - 1 \in Nat
  BY WidthAssumption
<1> DEFINE k == (n + RowLength - 1) \div RowLength
<1>2. k \in Nat /\ k * RowLength <= n + RowLength - 1 /\ n + RowLength - 1 < k * RowLength + RowLength
  BY <1>1, RowDivision
<1>3. RowCount(n) = k
  BY DEF RowCount
<1> HIDE DEF k
<1>4. k * RowLength \in Nat
  BY <1>2, RowsMultiply
<1>5. ASSUME NEW i \in 1..k PROVE (i - 1) * RowLength \in Nat /\ (i - 1) * RowLength < n
  <2>1. i \in Nat /\ i - 1 \in Nat /\ i <= k /\ (i - 1) + 1 = i
    BY <1>2
  <2>2. /\ (i - 1) * RowLength \in Nat
        /\ ((i - 1) + 1) * RowLength = (i - 1) * RowLength + RowLength
    BY <2>1, RowsMultiply
  <2>3. i * RowLength <= k * RowLength /\ i * RowLength \in Nat
    BY <1>2, <2>1, RowsMultiply
  <2>4. i * RowLength = (i - 1) * RowLength + RowLength
    BY <2>1, <2>2
  <2> QED
    BY <1>1, <1>2, <1>4, <2>2, <2>3, <2>4
<1>6. n <= k * RowLength
  BY <1>1, <1>2, <1>4
<1> QED
  BY <1>2, <1>3, <1>5, <1>6

(* Row i of the segment s has its bytes from first up to, not including, end. *)
RowFacts(s, i, first, full, end) ==
  /\ i \in Nat /\ i - 1 \in Nat /\ first \in Nat /\ full \in Nat /\ end \in Nat
  /\ first < end /\ end <= Len(s.bytes) /\ first + RowLength = full
  /\ end = IF full <= Len(s.bytes) THEN full ELSE Len(s.bytes)
  /\ DumpSegment(s)[i].offset = s.offset + first
  /\ DumpSegment(s)[i].bytes \in Seq(Byte)
  /\ Len(DumpSegment(s)[i].bytes) = end - first
  /\ \A c \in 1..(end - first) : DumpSegment(s)[i].bytes[c] = s.bytes[first + c]
  /\ RowEnd(DumpSegment(s)[i]) = s.offset + end

(* Where row i of a segment stands, and what it has.                         *)
LEMMA SegmentRow ==
  ASSUME NEW s, Proper(s), NEW i \in DOMAIN DumpSegment(s)
  PROVE  RowFacts(s, i, (i - 1) * RowLength, i * RowLength,
                  Min({i * RowLength, Len(s.bytes)}))
<1> DEFINE n == Len(s.bytes)
           a == (i - 1) * RowLength
           e == i * RowLength
           b == Min({e, n})
           r == DumpSegment(s)[i]
<1>1. n \in Nat \ {0} /\ s.bytes \in Seq(Byte) /\ s.offset \in Nat
  BY ProperEnd
<1>2. i \in 1..RowCount(n)
  BY DEF DumpSegment, RowCount
<1>3. RowCount(n) \in Nat /\ a \in Nat /\ a < n
  <2> HIDE DEF n
  <2> QED
    BY <1>1, <1>2, RowCountFacts
<1>4. i \in Nat /\ i - 1 \in Nat /\ (i - 1) + 1 = i
  BY <1>2, <1>3
<1>5. e \in Nat /\ ((i - 1) + 1) * RowLength = a + RowLength
  BY <1>4, RowsMultiply
<1>6. e = a + RowLength /\ RowLength \in Nat \ {0}
  BY <1>4, <1>5, WidthAssumption
<1>7. r = [offset |-> RowOffset(s, i - 1), bytes |-> SubSeq(s.bytes, a + 1, b)]
  BY <1>2 DEF DumpSegment, RowCount
<1>8. RowOffset(s, i - 1) = s.offset + a
  BY DEF RowOffset
<1> HIDE DEF r, e, a, n, RowCount
<1>9. b = IF e <= n THEN e ELSE n
  BY <1>1, <1>5, MinOfTwo
<1> HIDE DEF b
<1>10. b \in Nat /\ a < b /\ b <= n
  BY <1>1, <1>3, <1>5, <1>6, <1>9
<1>11. /\ SubSeq(s.bytes, a + 1, b) \in Seq(Byte)
       /\ Len(SubSeq(s.bytes, a + 1, b)) = b - a
       /\ \A c \in 1..(b - a) : SubSeq(s.bytes, a + 1, b)[c] = s.bytes[a + c]
  <2>1. a + 1 \in 1..(n + 1) /\ b \in a..n
    BY <1>1, <1>3, <1>10
  <2>2. a + 1 <= b + 1 /\ 1 <= a + 1
    BY <1>3, <1>10
  <2>3. /\ SubSeq(s.bytes, a + 1, b) \in Seq(Byte)
        /\ Len(SubSeq(s.bytes, a + 1, b)) = b - a
    BY <1>1, <1>3, <1>10, <2>1, <2>2 DEF n
  <2>4. ASSUME NEW c \in 1..(b - a) PROVE SubSeq(s.bytes, a + 1, b)[c] = s.bytes[a + c]
    BY <1>1, <1>3, <1>10, <2>1, <2>2 DEF n
  <2> QED
    BY <2>3, <2>4
<1>12. r.offset = s.offset + a /\ r.bytes = SubSeq(s.bytes, a + 1, b)
  BY <1>7, <1>8
<1>13. Len(r.bytes) = b - a
  BY <1>11, <1>12
<1>14. RowEnd(r) = s.offset + b
  <2>1. RowEnd(r) = r.offset + Len(r.bytes) /\ r.offset = s.offset + a
    BY <1>12 DEF RowEnd
  <2>2. RowEnd(r) = s.offset + a + (b - a)
    BY <1>13, <2>1
  <2> QED
    BY <1>1, <1>3, <1>10, <2>2
<1>15. RowFacts(s, i, a, e, b)
  BY <1>3, <1>4, <1>5, <1>6, <1>9, <1>10, <1>11, <1>12, <1>13, <1>14 DEF RowFacts, n, r
<1> QED
  BY <1>15 DEF a, b, e, n

(* The rows of one segment render it: each but the last is full.             *)
LEMMA SegmentRows ==
  ASSUME NEW s, Proper(s)
  PROVE  Renders(DumpSegment(s), s.offset, SegmentEnd(s), {s})
<1> DEFINE d == DumpSegment(s)
           n == Len(s.bytes)
           a(i) == (i - 1) * RowLength
           e(i) == i * RowLength
           b(i) == Min({e(i), n})
<1>1. /\ n \in Nat \ {0} /\ s.offset \in Nat /\ SegmentEnd(s) = s.offset + n
      /\ RowCount(n) \in Nat /\ n <= RowCount(n) * RowLength
  <2>1. n \in Nat \ {0} /\ s.offset \in Nat /\ SegmentEnd(s) = s.offset + n
    BY ProperEnd
  <2> HIDE DEF n
  <2> QED
    BY <2>1, RowCountFacts
<1>2. DOMAIN d = 1..RowCount(n) /\ d = [i \in 1..RowCount(n) |-> d[i]]
  BY DEF DumpSegment, RowCount
<1>3. \A i \in DOMAIN d : RowFacts(s, i, a(i), e(i), b(i))
  BY SegmentRow
<1>4. \A i \in DOMAIN d : d[i] = [offset |-> d[i].offset, bytes |-> d[i].bytes]
  BY DEF DumpSegment
<1> HIDE DEF d, a, b, e, n
<1>5. ASSUME NEW i \in DOMAIN d
      PROVE  /\ i \in Nat /\ i - 1 \in Nat /\ a(i) \in Nat /\ b(i) \in Nat /\ e(i) \in Nat
             /\ a(i) < b(i) /\ b(i) <= n /\ b(i) <= e(i)
             /\ d[i].offset = s.offset + a(i) /\ RowEnd(d[i]) = s.offset + b(i)
             /\ d[i].bytes \in Seq(Byte) /\ DOMAIN d[i].bytes = 1..(b(i) - a(i))
             /\ \A c \in 1..(b(i) - a(i)) : d[i].bytes[c] = s.bytes[a(i) + c]
  <2>1. RowFacts(s, i, a(i), e(i), b(i))
    BY <1>3
  <2>2. /\ i \in Nat /\ i - 1 \in Nat /\ a(i) \in Nat /\ b(i) \in Nat /\ e(i) \in Nat
        /\ a(i) < b(i) /\ b(i) <= n
        /\ b(i) = IF e(i) <= n THEN e(i) ELSE n
        /\ d[i].offset = s.offset + a(i) /\ RowEnd(d[i]) = s.offset + b(i)
    BY <2>1 DEF RowFacts, d, n
  <2>3. b(i) <= e(i)
    BY <1>1, <2>2
  <2>4. /\ d[i].bytes \in Seq(Byte) /\ Len(d[i].bytes) = b(i) - a(i)
        /\ \A c \in 1..(b(i) - a(i)) : d[i].bytes[c] = s.bytes[a(i) + c]
    BY <2>1 DEF RowFacts, d
  <2>5. DOMAIN d[i].bytes = 1..(b(i) - a(i))
    BY <2>4
  <2> QED
    BY <2>2, <2>3, <2>4, <2>5
<1>6. d \in Seq(DumpRow)
  <2>1. \A i \in DOMAIN d : d[i] \in DumpRow
    BY <1>1, <1>4, <1>5 DEF DumpRow
  <2> QED
    BY <1>1, <1>2, <2>1
<1>7. RowsBetween(d, s.offset, SegmentEnd(s))
  BY <1>1, <1>5 DEF RowsBetween
<1>8. RowsInOrder(d)
  <2> SUFFICES ASSUME NEW i \in DOMAIN d, NEW j \in DOMAIN d, i < j
               PROVE  RowEnd(d[i]) <= d[j].offset
    BY DEF RowsInOrder
  <2>1. i \in Nat /\ j \in Nat /\ j - 1 \in Nat /\ i <= j - 1
    BY <1>5
  <2>2. e(i) <= a(j)
    BY <2>1, RowsMultiply DEF a, e
  <2>3. /\ b(i) \in Nat /\ e(i) \in Nat /\ b(i) <= e(i)
        /\ RowEnd(d[i]) = s.offset + b(i)
    BY <1>5
  <2>4. a(j) \in Nat /\ d[j].offset = s.offset + a(j)
    BY <1>5
  <2> QED
    BY <1>1, <2>2, <2>3, <2>4
<1>9. RowsShow(d, {s})
  <2> SUFFICES ASSUME NEW i \in DOMAIN d, NEW c \in DOMAIN d[i].bytes
               PROVE  ShowsAt(s, d[i].offset + c - 1, d[i].bytes[c])
    BY DEF RowsShow
  <2>1. c \in 1..(b(i) - a(i)) /\ d[i].bytes[c] = s.bytes[a(i) + c]
    BY <1>5
  <2>2. d[i].offset = s.offset + a(i) /\ a(i) \in Nat /\ b(i) \in Nat /\ b(i) <= n
    BY <1>5
  <2>3. (d[i].offset + c - 1) - s.offset + 1 = a(i) + c
    BY <1>1, <2>1, <2>2
  <2>4. s.offset <= d[i].offset + c - 1 /\ d[i].offset + c - 1 < SegmentEnd(s)
    BY <1>1, <2>1, <2>2
  <2> QED
    BY <2>1, <2>3, <2>4 DEF ShowsAt, Covers
<1>10. RowsReach(d, {s})
  <2> SUFFICES ASSUME NEW o \in Nat, Covers(s, o)
               PROVE  \E i \in DOMAIN d : d[i].offset <= o /\ o < RowEnd(d[i])
    BY DEF RowsReach
  <2> DEFINE x == o - s.offset
             q == x \div RowLength
  <2>1. x \in Nat /\ x < n /\ o = s.offset + x
    BY <1>1 DEF Covers
  <2>2. q \in Nat /\ q * RowLength <= x /\ x < q * RowLength + RowLength
    BY <2>1, RowDivision
  <2> HIDE DEF x, q
  <2>3. q < RowCount(n)
    <3> SUFFICES ASSUME RowCount(n) <= q PROVE FALSE
      BY <1>1, <2>2
    <3>1. RowCount(n) * RowLength <= q * RowLength /\ q * RowLength \in Nat
          /\ RowCount(n) * RowLength \in Nat
      BY <1>1, <2>2, RowsMultiply
    <3> QED
      BY <1>1, <2>1, <2>2, <3>1
  <2>4. q + 1 \in DOMAIN d /\ (q + 1) - 1 = q
    BY <1>1, <1>2, <2>2, <2>3
  <2>5. a(q + 1) = q * RowLength /\ e(q + 1) = q * RowLength + RowLength
    BY <2>2, <2>4, RowsMultiply DEF a, e
  <2>6. RowFacts(s, q + 1, a(q + 1), e(q + 1), b(q + 1))
    BY <1>3, <2>4
  <2>7. b(q + 1) = IF e(q + 1) <= n THEN e(q + 1) ELSE n
    BY <2>6 DEF RowFacts, n
  <2>8. x < b(q + 1) /\ a(q + 1) <= x
    BY <1>1, <2>1, <2>2, <2>5, <2>7
  <2>9. d[q + 1].offset = s.offset + a(q + 1) /\ RowEnd(d[q + 1]) = s.offset + b(q + 1)
        /\ a(q + 1) \in Nat /\ b(q + 1) \in Nat
    BY <1>5, <2>4
  <2>10. d[q + 1].offset <= o /\ o < RowEnd(d[q + 1])
    BY <1>1, <2>1, <2>8, <2>9
  <2> QED
    BY <2>4, <2>10
<1> QED
  BY <1>6, <1>7, <1>8, <1>9, <1>10 DEF Renders, d

(* Rows of segments behind one another are rows of both.                     *)
LEMMA RowsAppend ==
  ASSUME NEW d, NEW e, NEW lo \in Nat, NEW mid \in Nat, NEW next \in Nat, NEW hi \in Nat,
         NEW T, NEW U, lo <= next, mid <= next, mid <= hi,
         Renders(d, lo, mid, T), Renders(e, next, hi, U)
  PROVE  Renders(d \o e, lo, hi, T \cup U)
<1> DEFINE f == d \o e
           n == Len(d)
<1>1. /\ d \in Seq(DumpRow) /\ e \in Seq(DumpRow)
      /\ n \in Nat /\ Len(e) \in Nat /\ DOMAIN d = 1..n /\ DOMAIN e = 1..Len(e)
  BY DEF Renders
<1>2. /\ f \in Seq(DumpRow) /\ DOMAIN f = 1..(n + Len(e))
      /\ \A i \in DOMAIN f : f[i] = IF i <= n THEN d[i] ELSE e[i - n]
  BY <1>1
<1>3. \A i \in DOMAIN f : \/ i <= n /\ i \in DOMAIN d /\ f[i] = d[i]
                          \/ n < i /\ i - n \in DOMAIN e /\ f[i] = e[i - n]
  BY <1>1, <1>2
<1>4. /\ \A i \in DOMAIN d : i \in DOMAIN f /\ f[i] = d[i]
      /\ \A i \in DOMAIN e : i + n \in DOMAIN f /\ f[i + n] = e[i]
  BY <1>1, <1>2
<1>5. /\ \A r \in DumpRow : r.offset \in Nat /\ RowEnd(r) \in Nat
      /\ \A i \in DOMAIN d : d[i] \in DumpRow
      /\ \A i \in DOMAIN e : e[i] \in DumpRow
      /\ \A i \in DOMAIN f : i \in Int
  <2>1. \A r \in DumpRow : r.offset \in Nat /\ Len(r.bytes) \in Nat
    BY DEF DumpRow
  <2>2. \A r \in DumpRow : RowEnd(r) \in Nat
    BY <2>1 DEF RowEnd
  <2>3. \A i \in DOMAIN f : i \in Int
    BY <1>1, <1>2
  <2>4. /\ \A i \in DOMAIN d : d[i] \in DumpRow
        /\ \A i \in DOMAIN e : e[i] \in DumpRow
    BY <1>1, ElementOfSeq
  <2> QED
    BY <2>1, <2>2, <2>3, <2>4
<1>6. /\ RowsBetween(d, lo, mid) /\ RowsInOrder(d) /\ RowsShow(d, T) /\ RowsReach(d, T)
      /\ RowsBetween(e, next, hi) /\ RowsInOrder(e) /\ RowsShow(e, U) /\ RowsReach(e, U)
  BY DEF Renders
<1> HIDE DEF f, n
<1>7. RowsBetween(f, lo, hi)
  <2> SUFFICES ASSUME NEW i \in DOMAIN f PROVE lo <= f[i].offset /\ RowEnd(f[i]) <= hi
    BY DEF RowsBetween
  <2>1. CASE i \in DOMAIN d /\ f[i] = d[i]
    <3>1. lo <= d[i].offset /\ RowEnd(d[i]) <= mid
      BY <1>6, <2>1 DEF RowsBetween
    <3> QED
      BY <1>5, <2>1, <3>1
  <2>2. CASE i - n \in DOMAIN e /\ f[i] = e[i - n]
    <3>1. next <= e[i - n].offset /\ RowEnd(e[i - n]) <= hi
      BY <1>6, <2>2 DEF RowsBetween
    <3> QED
      BY <1>5, <2>2, <3>1
  <2> QED
    BY <1>3, <2>1, <2>2
<1>8. RowsInOrder(f)
  <2> SUFFICES ASSUME NEW i \in DOMAIN f, NEW j \in DOMAIN f, i < j
               PROVE  RowEnd(f[i]) <= f[j].offset
    BY DEF RowsInOrder
  <2>1. CASE i <= n /\ j <= n
    <3>1. i \in DOMAIN d /\ f[i] = d[i] /\ j \in DOMAIN d /\ f[j] = d[j]
      BY <1>1, <1>3, <1>5, <2>1
    <3> QED
      BY <1>6, <3>1 DEF RowsInOrder
  <2>2. CASE i <= n /\ n < j
    <3>1. i \in DOMAIN d /\ f[i] = d[i] /\ j - n \in DOMAIN e /\ f[j] = e[j - n]
      BY <1>1, <1>3, <1>5, <2>2
    <3>2. RowEnd(d[i]) <= mid /\ next <= e[j - n].offset
      BY <1>6, <3>1 DEF RowsBetween
    <3> QED
      BY <1>5, <3>1, <3>2
  <2>3. CASE n < i
    <3>1. i - n \in DOMAIN e /\ f[i] = e[i - n] /\ j - n \in DOMAIN e /\ f[j] = e[j - n]
      BY <1>1, <1>3, <1>5, <2>3
    <3>2. i - n < j - n
      BY <1>1, <1>5
    <3>3. RowEnd(e[i - n]) <= e[j - n].offset
      BY <1>6, <3>1, <3>2 DEF RowsInOrder
    <3> QED
      BY <3>1, <3>3
  <2> QED
    BY <1>1, <1>5, <2>1, <2>2, <2>3
<1>9. RowsShow(f, T \cup U)
  <2> SUFFICES ASSUME NEW i \in DOMAIN f, NEW c \in DOMAIN f[i].bytes
               PROVE  \E s \in T \cup U : ShowsAt(s, f[i].offset + c - 1, f[i].bytes[c])
    BY DEF RowsShow
  <2>1. CASE i \in DOMAIN d /\ f[i] = d[i]
    <3>1. \E s \in T : ShowsAt(s, d[i].offset + c - 1, d[i].bytes[c])
      BY <1>6, <2>1 DEF RowsShow
    <3> QED
      BY <2>1, <3>1
  <2>2. CASE i - n \in DOMAIN e /\ f[i] = e[i - n]
    <3>1. \E s \in U : ShowsAt(s, e[i - n].offset + c - 1, e[i - n].bytes[c])
      BY <1>6, <2>2 DEF RowsShow
    <3> QED
      BY <2>2, <3>1
  <2> QED
    BY <1>3, <2>1, <2>2
<1>10. RowsReach(f, T \cup U)
  <2> SUFFICES ASSUME NEW o \in Nat, NEW s \in T \cup U, Covers(s, o)
               PROVE  \E i \in DOMAIN f : f[i].offset <= o /\ o < RowEnd(f[i])
    BY DEF RowsReach
  <2>1. CASE s \in T
    <3>1. PICK i \in DOMAIN d : d[i].offset <= o /\ o < RowEnd(d[i])
      BY <1>6, <2>1 DEF RowsReach
    <3> QED
      BY <1>4, <3>1
  <2>2. CASE s \in U
    <3>1. PICK i \in DOMAIN e : e[i].offset <= o /\ o < RowEnd(e[i])
      BY <1>6, <2>2 DEF RowsReach
    <3> QED
      BY <1>4, <3>1
  <2> QED
    BY <2>1, <2>2
<1> QED
  BY <1>2, <1>7, <1>8, <1>9, <1>10 DEF Renders, f

(* The dump of canonical segments renders them.                              *)
LEMMA FlattenRenders ==
  ASSUME NEW segs, Canonical(segs)
  PROVE  \E hi \in Nat :
           Renders(FlattenSeq([i \in DOMAIN segs |-> DumpSegment(segs[i])]), 0, hi,
                   {segs[i] : i \in DOMAIN segs})
<1> DEFINE rows == [i \in DOMAIN segs |-> DumpSegment(segs[i])]
           Rec(g, k) == g = [n \in 1..k |-> IF n = 1 THEN rows[n] ELSE g[n - 1] \o rows[n]]
           T(k) == {segs[i] : i \in 1..k}
<1>1. /\ Len(segs) \in Nat /\ DOMAIN segs = 1..Len(segs)
      /\ \A i \in 1..Len(segs) : Proper(segs[i])
      /\ \A i, j \in 1..Len(segs) : i < j => SegmentEnd(segs[i]) < segs[j].offset
  BY DEF Canonical
<1>2. Len(rows) = Len(segs) /\ \A i \in 1..Len(segs) : rows[i] = DumpSegment(segs[i])
  BY <1>1
<1>3. CASE Len(segs) = 0
  <2>1. FlattenSeq(rows) = rows /\ rows = << >> /\ {segs[i] : i \in DOMAIN segs} = {}
    BY <1>1, <1>2, <1>3 DEF FlattenSeq
  <2>2. Renders(<< >>, 0, 0, {})
    BY DEF Renders, RowsBetween, RowsInOrder, RowsShow, RowsReach
  <2> QED
    BY <2>1, <2>2
<1>4. CASE Len(segs) # 0
  <2>1. \A k \in Nat : \E g : Rec(g, k)
    <3> DEFINE D == {k \in Nat : \E g : Rec(g, k)}
    <3>1. 0 \in D
      <4>1. Rec([n \in 1..0 |-> << >>], 0)
        OBVIOUS
      <4> QED
        BY <4>1
    <3> HIDE DEF rows
    <3>2. ASSUME NEW k \in Nat, k \in D PROVE k + 1 \in D
      <4>1. PICK g : Rec(g, k)
        BY <3>2
      <4> DEFINE h == [n \in 1..(k + 1) |->
                         IF n = k + 1 THEN (IF k = 0 THEN rows[1] ELSE g[k] \o rows[k + 1])
                         ELSE g[n]]
      <4>2. ASSUME NEW n \in 1..(k + 1)
            PROVE  h[n] = IF n = 1 THEN rows[n] ELSE h[n - 1] \o rows[n]
        <5>1. CASE n = k + 1
          <6>1. h[n] = IF k = 0 THEN rows[1] ELSE g[k] \o rows[k + 1]
            BY <5>1
          <6>2. k # 0 => h[k] = g[k] /\ n - 1 = k
            BY <5>1
          <6> QED
            BY <5>1, <6>1, <6>2
        <5>2. CASE n # k + 1
          <6>1. n \in 1..k /\ h[n] = g[n]
            BY <5>2
          <6>2. g[n] = IF n = 1 THEN rows[n] ELSE g[n - 1] \o rows[n]
            BY <4>1, <6>1
          <6>3. n # 1 => h[n - 1] = g[n - 1]
            BY <6>1
          <6> QED
            BY <6>1, <6>2, <6>3
        <5> QED
          BY <5>1, <5>2
      <4>3. Rec(h, k + 1)
        BY <4>2
      <4> HIDE DEF h, Rec
      <4> QED
        BY <4>3
    <3> HIDE DEF D
    <3>3. \A k \in Nat : k \in D
      BY <3>1, <3>2, Induct
    <3> QED
      BY <3>3 DEF D
  <2> DEFINE flat == CHOOSE g : Rec(g, Len(rows))
  <2>2. FlattenSeq(rows) = flat[Len(rows)]
    BY <1>2, <1>4 DEF FlattenSeq
  <2>3. Rec(flat, Len(rows))
    <3> HIDE DEF Rec, rows
    <3> QED
      BY <1>1, <1>2, <2>1
  <2> HIDE DEF flat, rows
  <2>4. /\ flat[1] = rows[1]
        /\ \A n \in 2..Len(segs) : flat[n] = flat[n - 1] \o rows[n]
    <3>1. \A n \in 1..Len(rows) : flat[n] = IF n = 1 THEN rows[n] ELSE flat[n - 1] \o rows[n]
      BY <2>3, Zenon
    <3>2. 1 \in 1..Len(rows) /\ \A n \in 2..Len(segs) : n \in 1..Len(rows) /\ n # 1
      BY <1>1, <1>2, <1>4
    <3> QED
      BY <3>1, <3>2, Zenon
  <2> HIDE DEF Rec
  <2> DEFINE Good(n) == Renders(flat[n], 0, SegmentEnd(segs[n]), T(n))
             D == {n \in Nat : n + 1 <= Len(segs) => Good(n + 1)}
  <2>5. ASSUME NEW i \in 1..Len(segs)
        PROVE  /\ segs[i].offset \in Nat /\ SegmentEnd(segs[i]) \in Nat
               /\ segs[i].offset <= SegmentEnd(segs[i])
               /\ Renders(rows[i], segs[i].offset, SegmentEnd(segs[i]), {segs[i]})
    <3>1. Proper(segs[i]) /\ rows[i] = DumpSegment(segs[i])
      BY <1>1, <1>2
    <3>2. /\ segs[i].offset \in Nat /\ SegmentEnd(segs[i]) \in Nat
          /\ segs[i].offset < SegmentEnd(segs[i])
      BY <3>1, ProperEnd
    <3>3. Renders(rows[i], segs[i].offset, SegmentEnd(segs[i]), {segs[i]})
      BY <3>1, SegmentRows
    <3> QED
      BY <3>2, <3>3
  <2>6. Good(1)
    <3>1. Renders(rows[1], segs[1].offset, SegmentEnd(segs[1]), {segs[1]})
      <4>1. 1 \in 1..Len(segs)
        BY <1>1, <1>4
      <4> QED
        BY <2>5, <4>1
    <3>2. T(1) = {segs[1]}
      OBVIOUS
    <3>3. RowsBetween(rows[1], 0, SegmentEnd(segs[1]))
      <4>1. RowsBetween(rows[1], segs[1].offset, SegmentEnd(segs[1]))
            /\ segs[1].offset \in Nat /\ rows[1] \in Seq(DumpRow)
        <5>1. 1 \in 1..Len(segs)
          BY <1>1, <1>4
        <5> QED
          BY <2>5, <3>1, <5>1 DEF Renders
      <4>2. \A i \in DOMAIN rows[1] : rows[1][i].offset \in Nat
        BY <4>1, RowTypes
      <4> QED
        BY <4>1, <4>2 DEF RowsBetween
    <3> QED
      BY <2>4, <3>1, <3>2, <3>3 DEF Renders
  <2>7. ASSUME NEW n \in Nat, n \in D PROVE n + 1 \in D
    <3> SUFFICES ASSUME (n + 1) + 1 <= Len(segs) PROVE Good((n + 1) + 1)
      OBVIOUS
    <3> DEFINE m == n + 1
    <3>1. m \in 1..Len(segs) /\ m + 1 \in 2..Len(segs) /\ (m + 1) - 1 = m /\ m < m + 1
      BY <1>1
    <3>2. Renders(flat[m], 0, SegmentEnd(segs[m]), T(m))
      BY <1>1, <2>7
    <3> HIDE DEF m
    <3>3. flat[m + 1] = flat[m] \o rows[m + 1]
      BY <2>4, <3>1
    <3>4. SegmentEnd(segs[m]) < segs[m + 1].offset
      BY <1>1, <3>1
    <3>5. /\ segs[m + 1].offset \in Nat /\ SegmentEnd(segs[m + 1]) \in Nat
          /\ segs[m + 1].offset <= SegmentEnd(segs[m + 1]) /\ SegmentEnd(segs[m]) \in Nat
          /\ Renders(rows[m + 1], segs[m + 1].offset, SegmentEnd(segs[m + 1]), {segs[m + 1]})
      <4>1. m + 1 \in 1..Len(segs)
        BY <1>1, <3>1
      <4> QED
        BY <2>5, <3>1, <4>1
    <3>6. T(m + 1) = T(m) \cup {segs[m + 1]}
      BY <1>1, <3>1
    <3> HIDE DEF T
    <3>7. /\ 0 <= segs[m + 1].offset /\ SegmentEnd(segs[m]) <= segs[m + 1].offset
          /\ SegmentEnd(segs[m]) <= SegmentEnd(segs[m + 1])
      BY <3>4, <3>5
    <3>8. Renders(flat[m] \o rows[m + 1], 0, SegmentEnd(segs[m + 1]), T(m) \cup {segs[m + 1]})
      BY <3>2, <3>5, <3>7, RowsAppend
    <3> QED
      BY <3>3, <3>6, <3>8 DEF m
  <2>8. 0 \in D
    BY <2>6
  <2> HIDE DEF D
  <2>9. \A n \in Nat : n \in D
    BY <2>7, <2>8, Induct
  <2> HIDE DEF Good
  <2>10. Good(Len(segs))
    <3>1. Len(segs) - 1 \in Nat /\ (Len(segs) - 1) + 1 = Len(segs)
      BY <1>1, <1>4
    <3> QED
      BY <1>1, <2>9, <3>1 DEF D
  <2>11. SegmentEnd(segs[Len(segs)]) \in Nat
    <3>1. Len(segs) \in 1..Len(segs)
      BY <1>1, <1>4
    <3> QED
      BY <2>5, <3>1
  <2> QED
    BY <1>1, <1>2, <2>2, <2>10, <2>11 DEF Good, rows
<1> QED
  BY <1>3, <1>4

(* The dump has the bytes the cache shows and no other, in order.            *)
LEMMA DumpRenders ==
  ASSUME Canonical(segments)
  PROVE  DumpShowsCache
<1> DEFINE T == {segments[i] : i \in DOMAIN segments}
<1>1. PICK hi \in Nat : Renders(Dump, 0, hi, T)
  BY FlattenRenders DEF Dump
<1>2. /\ RowsInOrder(Dump) /\ RowsShow(Dump, T) /\ RowsReach(Dump, T)
      /\ Dump \in Seq(DumpRow)
  BY <1>1 DEF Renders
<1>3. \A s \in T : Proper(s)
  BY DEF Canonical
<1>4. \A i \in DOMAIN Dump : /\ Dump[i].offset \in Nat /\ Dump[i].bytes \in Seq(Byte)
                             /\ Len(Dump[i].bytes) \in Nat
                             /\ DOMAIN Dump[i].bytes = 1..Len(Dump[i].bytes)
  BY <1>2, RowTypes
<1>5. ASSUME NEW i \in DOMAIN Dump, NEW column \in DOMAIN Dump[i].bytes
      PROVE  /\ Dump[i].offset + column - 1 \in Offset
             /\ Dump[i].bytes[column] = CacheView[Dump[i].offset + column - 1]
             /\ CacheView[Dump[i].offset + column - 1] # Missing
  <2> DEFINE o == Dump[i].offset + column - 1
             b == Dump[i].bytes[column]
  <2>1. o \in Nat
    BY <1>4
  <2>2. PICK j \in DOMAIN segments : ShowsAt(segments[j], o, b)
    BY <1>2 DEF RowsShow
  <2>3. Proper(segments[j]) /\ Covers(segments[j], o)
    BY <2>2 DEF ShowsAt, Canonical
  <2> HIDE DEF o, b
  <2>4. b \in Byte /\ Shows(segments, o, b)
    BY <2>1, <2>2, <2>3, ByteShown DEF ShowsAt, Shows
  <2>5. o \in Offset
    BY <2>1, <2>3, ProperEnd, WidthAssumption DEF Covers, Offset
  <2>6. View(segments)[o] = b
    BY <2>4, <2>5, ViewShows
  <2> QED
    BY <2>4, <2>5, <2>6, ViewOfSegments, MissingAssumption DEF o, b
<1>6. ASSUME NEW o \in Offset, CacheView[o] # Missing
      PROVE  \E i \in DOMAIN Dump : o \in Dump[i].offset..(Dump[i].offset + Len(Dump[i].bytes) - 1)
  <2>1. o \in Nat
    BY WidthAssumption DEF Offset
  <2>2. PICK j \in DOMAIN segments : Covers(segments[j], o)
    BY <1>6, ViewShows, ViewOfSegments
  <2>3. PICK i \in DOMAIN Dump : Dump[i].offset <= o /\ o < RowEnd(Dump[i])
    BY <1>2, <2>1, <2>2 DEF RowsReach
  <2> QED
    BY <1>4, <2>1, <2>3 DEF RowEnd
<1>7. ASSUME NEW i \in DOMAIN Dump,
             NEW o \in Dump[i].offset..(Dump[i].offset + Len(Dump[i].bytes) - 1)
      PROVE  o \in Offset /\ CacheView[o] # Missing
  <2>1. /\ o - Dump[i].offset + 1 \in DOMAIN Dump[i].bytes
        /\ Dump[i].offset + (o - Dump[i].offset + 1) - 1 = o
    BY <1>4
  <2> QED
    BY <1>5, <2>1
<1>8. {o \in Offset : CacheView[o] # Missing} =
         UNION {Dump[i].offset..(Dump[i].offset + Len(Dump[i].bytes) - 1) : i \in DOMAIN Dump}
  BY <1>6, <1>7
<1> QED
  BY <1>2, <1>5, <1>8 DEF DumpShowsCache, RowsInOrder, RowEnd

-----------------------------------------------------------------------------
(* The inductive invariant *)

BlockEnd(r) == r.offset + r.length

(* The blocks of w lie between lo and hi, in order and without an overlap.  *)
Ordered(w, lo, hi) ==
  /\ w \in Seq(Ranges)
  /\ \A i \in DOMAIN w : w[i].length # 0 /\ lo <= w[i].offset /\ BlockEnd(w[i]) <= hi
  /\ \A i, j \in DOMAIN w : i < j => BlockEnd(w[i]) <= w[j].offset

WorkSpan(w) == UNION {Span(w[i]) : i \in DOMAIN w}

LostIn(fs) == UNION {Span(f) : f \in {g \in Range(fs) : ~Refused(g)}}

(* What holds of the call being served, and before the first. *)
CallInv ==
  /\ calls = 0 => call = None /\ pc = "idle" /\ segments = << >> /\ failures = << >>
  /\ pc # "idle" => calls # 0 /\ ~Refused(call) /\ call.op # "none"
  /\ pc = "idle" /\ calls # 0 => reply.verdict \in {"ok", "err"}

(* Where the cursor and the gap stand. *)
CursorInv ==
  /\ pc = "loop" => call.offset <= cursor /\ cursor <= End
  /\ pc = "range" =>
       /\ call.offset <= cursor /\ cursor < gapEnd /\ gapEnd <= End
       /\ Ordered(work, cursor, gapEnd)

Visited == Span(call) \ Remaining

(* first_failure is set iff a byte the fetch has passed is not cached. *)
FailedInv ==
  pc # "idle" => (failedYet <=> \E o \in Visited : CacheView[o] = Missing)

(* FirstFetchPartitions, of the bytes the first fetch has passed so far. *)
FirstFetchInv ==
  calls = 1 /\ ~Refused(call) =>
    /\ \A o \in Visited : CacheView[o] # Missing <=> o \notin Lost
    /\ \A o \in Offset \ Visited : CacheView[o] = Missing /\ o \notin Lost
    /\ \A i \in DOMAIN failures : ~Refused(failures[i]) /\ failures[i].length <= MinReadBlock
    /\ \A i, j \in DOMAIN failures : i # j => Span(failures[i]) \cap Span(failures[j]) = {}

IInv ==
  /\ TypeOK /\ SegmentsCanonical /\ WorkTilesGap /\ ReadReturnsCache
  /\ CallInv /\ CursorInv /\ FailedInv /\ FirstFetchInv

-----------------------------------------------------------------------------
(* The blocks of the work stack and of the failures *)

(* The offsets of a block.                                                   *)
LEMMA RangeFacts ==
  ASSUME NEW r \in Ranges
  PROVE  /\ r.offset \in Nat /\ r.length \in Nat /\ BlockEnd(r) \in Nat
         /\ BlockEnd(r) = r.offset + r.length
         /\ \A o : o \in Span(r) <=> o \in Nat /\ r.offset <= o /\ o < BlockEnd(r)
BY WidthAssumption DEF Ranges, BlockEnd, Span

(* Popping a block: what is left are the offsets outside it. *)
LEMMA WorkPop ==
  ASSUME NEW w, NEW lo \in Nat, NEW hi \in Nat, Ordered(w, lo, hi), w # << >>
  PROVE  /\ Head(w) \in Ranges /\ Head(w) = w[1] /\ 1 \in DOMAIN w
         /\ Ordered(Tail(w), lo, hi)
         /\ Span(Head(w)) \subseteq WorkSpan(w)
         /\ WorkSpan(Tail(w)) = WorkSpan(w) \ Span(Head(w))
<1>1. /\ w \in Seq(Ranges) /\ Len(w) \in Nat \ {0} /\ DOMAIN w = 1..Len(w)
      /\ Head(w) = w[1] /\ w[1] \in Ranges /\ 1 \in DOMAIN w
  BY DEF Ordered
<1> DEFINE t == Tail(w)
<1>2. /\ t \in Seq(Ranges) /\ Len(t) = Len(w) - 1 /\ DOMAIN t = 1..(Len(w) - 1)
      /\ \A i \in 1..(Len(w) - 1) : t[i] = w[i + 1] /\ i + 1 \in DOMAIN w
  BY <1>1
<1> HIDE DEF t
<1>3. Ordered(t, lo, hi)
  <2>1. \A i \in DOMAIN t : t[i].length # 0 /\ lo <= t[i].offset /\ BlockEnd(t[i]) <= hi
    BY <1>2 DEF Ordered
  <2>2. ASSUME NEW i \in DOMAIN t, NEW j \in DOMAIN t, i < j
        PROVE  BlockEnd(t[i]) <= t[j].offset
    <3>1. i + 1 < j + 1 /\ t[i] = w[i + 1] /\ t[j] = w[j + 1]
          /\ i + 1 \in DOMAIN w /\ j + 1 \in DOMAIN w
      BY <1>1, <1>2, <2>2
    <3> QED
      BY <3>1 DEF Ordered
  <2> QED
    BY <1>2, <2>1, <2>2 DEF Ordered
<1>4. \A i \in DOMAIN w : i # 1 => Span(w[i]) \cap Span(w[1]) = {}
  <2> TAKE i \in DOMAIN w
  <2> HAVE i # 1
  <2>1. BlockEnd(w[1]) <= w[i].offset /\ w[i] \in Ranges
    BY <1>1 DEF Ordered
  <2> QED
    BY <1>1, <2>1, RangeFacts DEF Ranges
<1>5. WorkSpan(t) = UNION {Span(w[i]) : i \in DOMAIN w \ {1}}
  <2>1. \A i \in DOMAIN w \ {1} : i - 1 \in DOMAIN t /\ t[i - 1] = w[i]
    BY <1>1, <1>2
  <2>2. \A i \in DOMAIN t : i + 1 \in DOMAIN w \ {1} /\ t[i] = w[i + 1]
    BY <1>1, <1>2
  <2> QED
    BY <2>1, <2>2 DEF WorkSpan
<1>6. WorkSpan(t) = WorkSpan(w) \ Span(w[1])
  BY <1>1, <1>4, <1>5 DEF WorkSpan
<1>7. Span(w[1]) \subseteq WorkSpan(w)
  BY <1>1 DEF WorkSpan
<1> QED
  BY <1>1, <1>3, <1>6, <1>7 DEF t

(* a and b are the two halves of the block r. *)
Halves(a, b, r) ==
  /\ a \in Ranges /\ b \in Ranges /\ a.length # 0 /\ b.length # 0
  /\ a.offset = r.offset /\ BlockEnd(a) = b.offset /\ BlockEnd(b) = BlockEnd(r)

(* The work v has the blocks a and b where the work w has the block on top. *)
SplitOf(v, w, a, b) ==
  /\ WorkSpan(v) = WorkSpan(w)
  /\ Len(v) = Len(w) + 1 /\ v[1] = a /\ v[2] = b
  /\ \A i \in 3..Len(v) : v[i] = w[i - 1] /\ i - 1 \in DOMAIN w /\ i - 1 # 1

(* Splitting the block on top in two: the offsets are the same. *)
LEMMA WorkSplit ==
  ASSUME NEW w, NEW lo \in Nat, NEW hi \in 0..U32Max, Ordered(w, lo, hi), w # << >>,
         NEW a, NEW b, Halves(a, b, Head(w))
  PROVE  LET v == <<a, b>> \o Tail(w)
         IN  Ordered(v, lo, hi) /\ SplitOf(v, w, a, b)
<1> DEFINE v == <<a, b>> \o Tail(w)
<1>0. /\ a \in Ranges /\ b \in Ranges /\ a.length # 0 /\ b.length # 0
      /\ a.offset = Head(w).offset /\ BlockEnd(a) = b.offset /\ BlockEnd(b) = BlockEnd(Head(w))
  BY DEF Halves
<1> USE <1>0
<1>1. /\ w \in Seq(Ranges) /\ Len(w) \in Nat \ {0} /\ DOMAIN w = 1..Len(w)
      /\ Head(w) = w[1] /\ w[1] \in Ranges /\ 1 \in DOMAIN w
  BY DEF Ordered
<1>2. /\ v \in Seq(Ranges) /\ Len(v) = Len(w) + 1 /\ DOMAIN v = 1..(Len(w) + 1)
      /\ v[1] = a /\ v[2] = b
      /\ \A i \in 3..(Len(w) + 1) : v[i] = w[i - 1] /\ i - 1 \in DOMAIN w /\ i - 1 # 1
  <2> DEFINE t == Tail(w)
             h == <<a, b>>
  <2>1. t \in Seq(Ranges) /\ Len(t) = Len(w) - 1 /\ \A i \in 1..Len(t) : t[i] = w[i + 1]
    BY <1>1
  <2>2. h \in Seq(Ranges) /\ Len(h) = 2 /\ h[1] = a /\ h[2] = b
    OBVIOUS
  <2>3. v = h \o t
    OBVIOUS
  <2> HIDE DEF t, h
  <2>4. /\ v \in Seq(Ranges) /\ Len(v) = 2 + Len(t)
        /\ \A i \in 1..(2 + Len(t)) : v[i] = IF i <= 2 THEN h[i] ELSE t[i - 2]
    <3>1. /\ h \o t \in Seq(Ranges) /\ Len(h \o t) = Len(h) + Len(t)
          /\ \A i \in 1..(Len(h) + Len(t)) :
               (h \o t)[i] = IF i <= Len(h) THEN h[i] ELSE t[i - Len(h)]
      BY <2>1, <2>2, ConcatProperties
    <3> QED
      BY <2>2, <2>3, <3>1
  <2>5. v[1] = a /\ v[2] = b
    BY <1>1, <2>1, <2>2, <2>4
  <2>6. ASSUME NEW i \in 3..(Len(w) + 1)
        PROVE  v[i] = w[i - 1] /\ i - 1 \in DOMAIN w /\ i - 1 # 1
    <3>1. i \in 1..(2 + Len(t)) /\ ~(i <= 2) /\ i - 2 \in 1..Len(t) /\ (i - 2) + 1 = i - 1
          /\ i - 1 \in 1..Len(w) /\ i - 1 # 1
      BY <1>1, <2>1
    <3> QED
      BY <1>1, <2>1, <2>4, <3>1
  <2>7. Len(v) = Len(w) + 1 /\ DOMAIN v = 1..(Len(w) + 1)
    BY <1>1, <2>1, <2>4
  <2> QED
    BY <2>4, <2>5, <2>6, <2>7
<1>3. \A i \in DOMAIN w : w[i] \in Ranges /\ w[i].length # 0 /\ lo <= w[i].offset
                          /\ BlockEnd(w[i]) <= hi
  BY <1>1 DEF Ordered
<1>4. \A i \in DOMAIN w : i # 1 => BlockEnd(w[1]) <= w[i].offset
  BY <1>1 DEF Ordered
<1>5. /\ a.offset \in Nat /\ BlockEnd(a) \in Nat /\ BlockEnd(b) \in Nat
      /\ a.offset < BlockEnd(a) /\ BlockEnd(a) < BlockEnd(b) /\ b.offset \in Nat
      /\ BlockEnd(b) <= hi /\ lo <= a.offset /\ lo <= b.offset /\ BlockEnd(a) <= hi
  <2>1. /\ a.offset \in Nat /\ a.length \in Nat /\ BlockEnd(a) = a.offset + a.length
        /\ b.offset \in Nat /\ b.length \in Nat /\ BlockEnd(b) = b.offset + b.length
    BY RangeFacts
  <2>2. BlockEnd(b) <= hi /\ lo <= a.offset
    BY <1>1, <1>3
  <2>3. /\ a.offset < BlockEnd(a) /\ BlockEnd(a) < BlockEnd(b) /\ BlockEnd(a) = b.offset
    <3> DEFINE first == a.offset
               half == a.length
               rest == b.length
    <3>1. first \in Nat /\ half \in Nat \ {0} /\ rest \in Nat \ {0}
      BY <1>1, <2>1 DEF Halves
    <3>2. BlockEnd(a) = first + half /\ b.offset = first + half
          /\ BlockEnd(b) = (first + half) + rest
      BY <1>1, <2>1 DEF Halves
    <3> HIDE DEF first, half, rest
    <3>3. first < first + half /\ first + half < (first + half) + rest
      BY <3>1
    <3> QED
      BY <3>2, <3>3 DEF first
  <2>4. lo <= b.offset /\ BlockEnd(a) <= hi
    BY <2>1, <2>2, <2>3, WidthAssumption
  <2> QED
    BY <2>1, <2>2, <2>3, <2>4
<1>6. Ordered(v, lo, hi)
  <2>1. ASSUME NEW i \in DOMAIN v
        PROVE  v[i].length # 0 /\ lo <= v[i].offset /\ BlockEnd(v[i]) <= hi
    <3>1. i = 1 \/ i = 2 \/ i \in 3..(Len(w) + 1)
      BY <1>1, <1>2
    <3> QED
      BY <1>2, <1>3, <1>5, <3>1
  <2>2. ASSUME NEW i \in DOMAIN v, NEW j \in DOMAIN v, i < j
        PROVE  BlockEnd(v[i]) <= v[j].offset
    <3>1. \/ i = 1 /\ j = 2
          \/ i \in {1, 2} /\ j \in 3..(Len(w) + 1)
          \/ i \in 3..(Len(w) + 1) /\ j \in 3..(Len(w) + 1)
      BY <1>1, <1>2, <2>2
    <3>2. CASE i = 1 /\ j = 2
      BY <1>2, <1>5, <3>2
    <3>3. CASE i \in {1, 2} /\ j \in 3..(Len(w) + 1)
      <4>1. v[j] = w[j - 1] /\ w[j - 1] \in Ranges /\ BlockEnd(w[1]) <= w[j - 1].offset
        BY <1>2, <1>3, <1>4, <3>3
      <4>2. w[j - 1].offset \in Nat
        BY <4>1, RangeFacts
      <4>3. BlockEnd(b) <= v[j].offset /\ v[j].offset \in Nat
        BY <1>1, <4>1, <4>2
      <4>4. v[i] = a \/ v[i] = b
        BY <1>2, <3>3
      <4>5. BlockEnd(a) <= v[j].offset
        <5>1. BlockEnd(a) \in Nat /\ BlockEnd(b) \in Nat /\ BlockEnd(a) < BlockEnd(b)
          BY <1>5
        <5> DEFINE ends == BlockEnd(a)
                   middle == BlockEnd(b)
                   next == v[j].offset
        <5>2. ends \in Nat /\ middle \in Nat /\ next \in Nat /\ ends < middle /\ middle <= next
          BY <4>3, <5>1
        <5> HIDE DEF ends, middle, next
        <5>3. ends <= next
          BY <5>2
        <5> QED
          BY <5>3 DEF ends, next
      <4> QED
        BY <4>3, <4>4, <4>5
    <3>4. CASE i \in 3..(Len(w) + 1) /\ j \in 3..(Len(w) + 1)
      <4>1. v[i] = w[i - 1] /\ v[j] = w[j - 1] /\ i - 1 < j - 1
            /\ i - 1 \in DOMAIN w /\ j - 1 \in DOMAIN w
        <5>1. v[i] = w[i - 1] /\ i - 1 \in DOMAIN w
          BY <1>2, <3>4
        <5>2. v[j] = w[j - 1] /\ j - 1 \in DOMAIN w
          BY <1>2, <3>4
        <5>3. i - 1 < j - 1
          BY <2>2, <3>4
        <5> QED
          BY <5>1, <5>2, <5>3
      <4> QED
        BY <4>1 DEF Ordered
    <3> QED
      BY <3>1, <3>2, <3>3, <3>4
  <2> QED
    BY <1>2, <2>1, <2>2 DEF Ordered
<1>7. WorkSpan(v) = WorkSpan(w)
  <2>1. Span(w[1]) = Span(a) \cup Span(b)
    <3>1. \A o : o \in Span(w[1]) <=> o \in Nat /\ a.offset <= o /\ o < BlockEnd(b)
      BY <1>1, RangeFacts
    <3>2. \A o : o \in Span(a) <=> o \in Nat /\ a.offset <= o /\ o < BlockEnd(a)
      BY RangeFacts
    <3>3. \A o : o \in Span(b) <=> o \in Nat /\ BlockEnd(a) <= o /\ o < BlockEnd(b)
      BY RangeFacts
    <3> QED
      BY <1>5, <3>1, <3>2, <3>3
  <2>2. \A i \in DOMAIN w : i = 1 \/ (i + 1 \in 3..(Len(w) + 1) /\ v[i + 1] = w[i])
    BY <1>1, <1>2
  <2>3. \A i \in 1..(Len(w) + 1) : i = 1 \/ i = 2 \/ i \in 3..(Len(w) + 1)
    BY <1>1
  <2>4. \A i \in 3..(Len(w) + 1) : i \in DOMAIN v
    BY <1>1, <1>2
  <2>5. 1 \in DOMAIN v /\ 2 \in DOMAIN v /\ 1 \in DOMAIN w
    BY <1>1, <1>2
  <2>6. WorkSpan(v) \subseteq WorkSpan(w)
    <3> SUFFICES ASSUME NEW i \in DOMAIN v, NEW o \in Span(v[i]) PROVE o \in WorkSpan(w)
      BY DEF WorkSpan
    <3>1. \E j \in DOMAIN w : o \in Span(w[j])
      BY <1>2, <2>1, <2>3, <2>5
    <3> QED
      BY <3>1 DEF WorkSpan
  <2>7. WorkSpan(w) \subseteq WorkSpan(v)
    <3> SUFFICES ASSUME NEW i \in DOMAIN w, NEW o \in Span(w[i]) PROVE o \in WorkSpan(v)
      BY DEF WorkSpan
    <3>1. \E j \in DOMAIN v : o \in Span(v[j])
      BY <1>2, <2>1, <2>2, <2>4, <2>5
    <3> QED
      BY <3>1 DEF WorkSpan
  <2> QED
    BY <2>6, <2>7
<1> QED
  BY <1>2, <1>6, <1>7 DEF SplitOf

(* What a further failure loses.                                             *)
LEMMA LostAppend ==
  ASSUME NEW fs \in Seq(Ranges), NEW r \in Ranges
  PROVE  LostIn(Append(fs, r)) = LostIn(fs) \cup (IF Refused(r) THEN {} ELSE Span(r))
<1> DEFINE v == Append(fs, r)
<1>1. Range(v) = Range(fs) \cup {r}
  <2>1. /\ DOMAIN fs = 1..Len(fs) /\ Len(fs) \in Nat /\ DOMAIN v = 1..(Len(fs) + 1)
        /\ v[Len(fs) + 1] = r /\ \A i \in 1..Len(fs) : v[i] = fs[i]
    OBVIOUS
  <2>2. \A i \in 1..(Len(fs) + 1) : i \in 1..Len(fs) \/ i = Len(fs) + 1
    BY <2>1
  <2>3. \A i \in 1..Len(fs) : i \in 1..(Len(fs) + 1)
    BY <2>1
  <2>4. Len(fs) + 1 \in 1..(Len(fs) + 1)
    BY <2>1
  <2> HIDE DEF v
  <2> QED
    BY <2>1, <2>2, <2>3, <2>4 DEF Range
<1> HIDE DEF v
<1>2. LostIn(v) = LostIn(fs) \cup (IF Refused(r) THEN {} ELSE Span(r))
  BY <1>1 DEF LostIn
<1> QED
  BY <1>2 DEF v

-----------------------------------------------------------------------------
(* Consequences of the invariant, and of the next state's *)

(* The view of the next state as an operator on its segments.                *)
LEMMA ViewNext ==
  /\ CacheView' = View(segments')
  /\ \A o : SegmentCovering(o)' = Covering(segments', o)
<1>1. \A o : SegmentCovering(o)' = Covering(segments', o)
  BY DEF SegmentCovering, Covering, SelectInSeq
<1>2. CacheView' = View(segments')
  BY <1>1 DEF CacheView, View
<1> QED
  BY <1>1, <1>2

(* The property the run checks is the operator the lemmas are about ...      *)
LEMMA CanonicalIs ==
  TypeOK => (SegmentsCanonical <=> Canonical(segments))
BY DEF TypeOK, SegmentsCanonical, Canonical, Proper

(* ... in the next state too.                                                *)
LEMMA CanonicalNext ==
  TypeOK' => (SegmentsCanonical' <=> Canonical(segments'))
BY DEF TypeOK, SegmentsCanonical, Canonical, Proper

(* What the invariant says of the cache.                                     *)
LEMMA StateFacts ==
  ASSUME IInv
  PROVE  /\ Canonical(segments)
         /\ \A o \in Offset : CacheView[o] = Missing <=> SegmentCovering(o) = 0
         /\ CacheView \in [Offset -> Byte \cup {Missing}]
         /\ Lost = LostIn(failures)
         /\ call.offset \in Nat /\ call.length \in Nat /\ End \in Nat
         /\ \A o : o \in Span(call) <=> o \in Nat /\ call.offset <= o /\ o < End
         /\ ~Refused(call) => call.offset < End /\ End <= U32Max /\ Span(call) \subseteq Offset
         /\ \A o : o \in Offset <=> o \in Nat /\ o < U32Max
<1>1. Canonical(segments)
  BY CanonicalIs DEF IInv
<1>2. \A o \in Offset : CacheView[o] = Missing <=> SegmentCovering(o) = 0
  BY <1>1, ViewOfSegments, ViewShows
<1>3. CacheView \in [Offset -> Byte \cup {Missing}]
  <2>1. \A o \in Offset : View(segments)[o] \in Byte \cup {Missing}
    BY <1>1, ViewShows
  <2>2. View(segments) = [o \in Offset |-> View(segments)[o]]
    BY DEF View
  <2> QED
    BY <2>1, <2>2, ViewOfSegments
<1>4. Lost = LostIn(failures)
  BY DEF Lost, LostIn
<1>5. call.offset \in Nat /\ call.length \in Nat /\ End \in Nat
  BY WidthAssumption DEF IInv, TypeOK, End
<1>6. \A o : o \in Span(call) <=> o \in Nat /\ call.offset <= o /\ o < End
  BY WidthAssumption DEF IInv, TypeOK, Span, End
<1>7. \A o : o \in Offset <=> o \in Nat /\ o < U32Max
  BY WidthAssumption DEF Offset
<1>8. ~Refused(call) => call.offset < End /\ End <= U32Max
  BY WidthAssumption DEF IInv, TypeOK, Refused, End
<1>9. ~Refused(call) => Span(call) \subseteq Offset
  BY <1>5, <1>6, <1>7, <1>8, WidthAssumption
<1> QED
  BY <1>1, <1>2, <1>3, <1>4, <1>5, <1>6, <1>7, <1>8, <1>9

(* The offsets still to visit belong to the call. *)
LEMMA RemainingFacts ==
  ASSUME IInv
  PROVE  /\ pc = "idle" => Remaining = {}
         /\ pc = "loop" => Remaining = cursor..(End - 1)
         /\ pc = "range" => Remaining = WorkSpan(work) \cup gapEnd..(End - 1)
         /\ pc # "idle" => Remaining \subseteq Span(call)
         /\ pc = "range" =>
              /\ \A o \in WorkSpan(work) :
                   o \in Nat /\ cursor <= o /\ o < gapEnd /\ SegmentCovering(o) = 0
              /\ cursor \in Nat /\ gapEnd \in 0..U32Max
<1>1. pc \in {"idle", "loop", "range"} /\ cursor \in Nat /\ gapEnd \in 0..U32Max
      /\ gapEnd \in Nat
  BY WidthAssumption DEF IInv, TypeOK
<1>2. pc = "idle" => Remaining = {}
  BY DEF Remaining
<1>3. pc = "loop" => Remaining = cursor..(End - 1)
  BY DEF Remaining
<1>4. pc = "range" => Remaining = WorkSpan(work) \cup gapEnd..(End - 1)
  <2> SUFFICES ASSUME pc = "range"
               PROVE  Remaining = WorkSpan(work) \cup gapEnd..(End - 1)
    OBVIOUS
  <2>1. pc # "idle" /\ pc # "loop"
    OBVIOUS
  <2> QED
    BY <2>1, Zenon DEF Remaining, WorkSpan
<1>5. pc = "range" => \A o \in WorkSpan(work) :
                        o \in Nat /\ cursor <= o /\ o < gapEnd /\ SegmentCovering(o) = 0
  <2> SUFFICES ASSUME pc = "range", NEW o \in WorkSpan(work)
               PROVE  o \in Nat /\ cursor <= o /\ o < gapEnd /\ SegmentCovering(o) = 0
    OBVIOUS
  <2>1. Ordered(work, cursor, gapEnd) /\ WorkTilesGap
    BY DEF IInv, CursorInv
  <2>2. PICK i \in DOMAIN work : o \in Span(work[i])
    BY DEF WorkSpan
  <2>3. work[i] \in Ranges /\ cursor <= work[i].offset /\ BlockEnd(work[i]) <= gapEnd
    BY <2>1 DEF Ordered
  <2>4. SegmentCovering(o) = 0
    BY <2>1, <2>2 DEF WorkTilesGap
  <2>5. o \in Nat /\ work[i].offset <= o /\ o < BlockEnd(work[i])
    BY <2>2, <2>3, RangeFacts
  <2>6. work[i].offset \in Nat /\ BlockEnd(work[i]) \in Nat
    BY <2>3, RangeFacts
  <2> QED
    BY <1>1, <2>3, <2>4, <2>5, <2>6
<1>6. pc # "idle" => Remaining \subseteq Span(call)
  <2>1. /\ call.offset \in Nat /\ End \in Nat
        /\ \A o : o \in Span(call) <=> o \in Nat /\ call.offset <= o /\ o < End
    BY StateFacts
  <2>2. CASE pc = "loop"
    <3>1. call.offset <= cursor
      BY <2>2 DEF IInv, CursorInv
    <3>2. \A o \in cursor..(End - 1) : o \in Nat /\ call.offset <= o /\ o < End
      BY <1>1, <2>1, <3>1
    <3> QED
      BY <1>3, <2>1, <2>2, <3>2
  <2>3. CASE pc = "range"
    <3>1. call.offset <= cursor /\ cursor < gapEnd /\ gapEnd <= End
      BY <2>3 DEF IInv, CursorInv
    <3>2. \A o \in gapEnd..(End - 1) : o \in Nat /\ call.offset <= o /\ o < End
      BY <1>1, <2>1, <3>1
    <3>3. \A o \in WorkSpan(work) : o \in Nat /\ call.offset <= o /\ o < End
      BY <1>1, <1>5, <2>1, <2>3, <3>1
    <3> QED
      BY <1>4, <2>1, <2>3, <3>2, <3>3
  <2> QED
    BY <1>1, <2>2, <2>3
<1> QED
  BY <1>1, <1>2, <1>3, <1>4, <1>5, <1>6

(* A step that moves on over cached bytes only changes neither the cache    *)
(* nor what is pending.                                                     *)
LEMMA QuietStep ==
  ASSUME IInv, UNCHANGED <<segments, failures, call, failedYet, calls, reply>>,
         pc # "idle", pc' # "idle",
         Remaining' \subseteq Remaining,
         \A o \in Remaining \ Remaining' : CacheView[o] # Missing
  PROVE  /\ SegmentsCanonical' /\ ReadReturnsCache' /\ FailedInv' /\ FirstFetchInv'
         /\ (CallInv /\ CallInv')
         /\ UNCHANGED Cache!vars
<1>1. CacheView' = CacheView /\ Lost' = Lost /\ Span(call)' = Span(call)
      /\ Refused(call)' = Refused(call)
  BY ViewOfSegments, ViewNext DEF Lost, Span, Refused
<1>2. Remaining \subseteq Span(call)
  BY RemainingFacts
<1>3. SegmentsCanonical'
  BY DEF IInv, SegmentsCanonical, SegmentEnd
<1>4. ReadReturnsCache'
  BY DEF ReadReturnsCache
<1>5. CallInv /\ CallInv'
  BY DEF IInv, CallInv, Refused
<1>6. FailedInv'
  <2>1. failedYet <=> \E o \in Visited : CacheView[o] = Missing
    BY DEF IInv, FailedInv
  <2>2. Visited \subseteq Visited' /\ \A o \in Visited' \ Visited : CacheView[o] # Missing
    BY <1>1, <1>2 DEF Visited
  <2> QED
    BY <1>1, <2>1, <2>2 DEF FailedInv
<1>7. FirstFetchInv'
  <2> SUFFICES ASSUME calls = 1, ~Refused(call)
               PROVE  FirstFetchInv'
    BY <1>1 DEF FirstFetchInv
  <2>1. FirstFetchInv /\ Span(call) \subseteq Offset
    BY StateFacts DEF IInv
  <2>2. Remaining = Remaining'
    BY <1>2, <2>1 DEF FirstFetchInv, Visited
  <2>3. Visited' = Visited
    BY <1>1, <2>2 DEF Visited
  <2> QED
    BY <1>1, <2>1, <2>3 DEF FirstFetchInv, Refused, Span
<1>8. UNCHANGED Cache!vars
  <2>1. {o \in Remaining : CacheView[o] = Missing}' = {o \in Remaining : CacheView[o] = Missing}
    BY <1>1
  <2>2. calls # 0
    BY DEF IInv, CallInv
  <2> QED
    BY <1>1, <2>1, <2>2 DEF Cache!vars
<1> QED
  BY <1>3, <1>4, <1>5, <1>6, <1>7, <1>8

-----------------------------------------------------------------------------
(* One lemma per action: it keeps the invariant, and it is a step of        *)
(* ConfigCache or changes nothing ConfigCache sees.                         *)

(* An empty cache is the initial cache of ConfigCache.                       *)
LEMMA InitIInv ==
  ASSUME Init
  PROVE  IInv /\ Cache!Init
<1>1. segments = << >> /\ failures = << >> /\ work = << >> /\ DOMAIN segments = {}
      /\ DOMAIN failures = {} /\ DOMAIN work = {}
  BY DEF Init
<1>2. TypeOK
  <2>1. segments \in Seq(Segment) /\ failures \in Seq(Ranges) /\ work \in Seq(Ranges)
    BY <1>1
  <2>2. call \in [op: {"none", "fetch", "read"}, offset: 0..U32Max, length: 0..U32Max]
    BY WidthAssumption DEF Init, None
  <2>3. reply \in [verdict: {"none", "ok", "err"}, bytes: Seq(Byte)]
    BY DEF Init, Reply
  <2>4. cursor \in 0..U32Max /\ gapEnd \in 0..U32Max /\ calls \in 0..MaxCalls /\ gen \in 0..MaxGen
    BY WidthAssumption DEF Init
  <2> QED
    BY <2>1, <2>2, <2>3, <2>4 DEF Init, TypeOK
<1>3. SegmentsCanonical /\ WorkTilesGap
  BY <1>1 DEF Init, SegmentsCanonical, WorkTilesGap
<1>4. ReadReturnsCache /\ CallInv /\ CursorInv /\ FailedInv /\ FirstFetchInv
  BY <1>1 DEF Init, None, ReadReturnsCache, CallInv, CursorInv, FailedInv, FirstFetchInv
<1>5. IInv
  BY <1>2, <1>3, <1>4 DEF IInv
<1>6. CacheView = [o \in Offset |-> Missing]
  <2>1. \A o \in Offset : CacheView[o] = Missing
    <3>1. \A o \in Offset : SegmentCovering(o) = 0
      <4>1. segments \in Seq(Segment)
        BY <1>2 DEF TypeOK
      <4> QED
        BY <1>1, <4>1, ViewOfSegments, CoveringCovers
    <3> QED
      BY <1>5, <3>1, StateFacts
  <2> QED
    BY <2>1 DEF CacheView
<1>7. Lost = {}
  BY <1>1 DEF Lost, Range
<1>8. Refused(call) /\ Remaining = {} /\ calls = 0 /\ pc = "idle"
  BY DEF Init, None, Refused, Remaining
<1>9. {o \in Remaining : CacheView[o] = Missing} = {}
  BY <1>8
<1> QED
  BY <1>5, <1>6, <1>7, <1>8, <1>9 DEF Cache!Init

(* A refused call records a failure of a range that covers no byte: the     *)
(* abstract fetch is refused.                                               *)
LEMMA RefuseCallStep ==
  ASSUME IInv, NEW op \in {"fetch", "read"}, NEW o \in 0..U32Max, NEW n \in 0..U32Max,
         RefuseCall(op, o, n)
  PROVE  IInv' /\ Cache!Refuse
<1> DEFINE r == [offset |-> o, length |-> n]
<1>1. r \in Ranges /\ Refused(r) /\ call' = [op |-> op, offset |-> o, length |-> n]
      /\ Refused(call') /\ failures' = Append(failures, r)
  BY DEF RefuseCall, RecordFailure, Ranges, Refused
<1> HIDE DEF r
<1>2. TypeOK'
  BY <1>1, WidthAssumption DEF IInv, TypeOK, RefuseCall, Reply
<1>3. CacheView' = CacheView
  BY ViewOfSegments, ViewNext DEF RefuseCall
<1>4. Lost' = Lost
  <2>1. LostIn(failures') = LostIn(failures)
    BY <1>1, LostAppend DEF IInv, TypeOK
  <2> QED
    BY <2>1 DEF Lost, LostIn
<1>5. SegmentsCanonical' /\ WorkTilesGap' /\ ReadReturnsCache' /\ CursorInv' /\ FailedInv'
  BY <1>1 DEF IInv, RefuseCall, SegmentsCanonical, SegmentEnd, WorkTilesGap, ReadReturnsCache,
              Refused, CursorInv, FailedInv
<1>6. CallInv' /\ calls' # 0 /\ FirstFetchInv'
  BY <1>1, WidthAssumption DEF IInv, TypeOK, RefuseCall, CallInv, Reply, FirstFetchInv, Refused
<1>7. Remaining = {} /\ Remaining' = {} /\ Refused(call)'
  BY <1>1, RemainingFacts DEF RefuseCall, Remaining, Refused
<1>8. Cache!Refuse
  <2>1. {x \in Remaining : CacheView[x] = Missing} = {}
        /\ {x \in Remaining : CacheView[x] = Missing}' = {}
    BY <1>7
  <2> QED
    BY <1>3, <1>4, <1>6, <1>7, <2>1 DEF Cache!Refuse, RefuseCall, Reply, IInv, CallInv
<1> QED
  BY <1>2, <1>5, <1>6, <1>8 DEF IInv

(* A call that starts begins a call of ConfigCache, for the offsets it misses. *)
LEMMA StartCallStep ==
  ASSUME IInv, NEW op \in {"fetch", "read"}, NEW o \in 0..U32Max, NEW n \in 0..U32Max,
         StartCall(op, o, n)
  PROVE  IInv' /\ \E R \in SUBSET Offset : Cache!Begin(R)
<1>1. /\ call' = [op |-> op, offset |-> o, length |-> n]
      /\ ~Refused(call)' /\ End' = o + n /\ cursor' = o /\ pc' = "loop" /\ pc = "idle"
      /\ n # 0 /\ o + n <= U32Max
  BY WidthAssumption DEF StartCall, Refused, End
<1>2. TypeOK'
  <2>1. calls' \in 0..MaxCalls
    BY WidthAssumption DEF IInv, TypeOK, StartCall
  <2>2. call' \in [op: {"none", "fetch", "read"}, offset: 0..U32Max, length: 0..U32Max]
        /\ cursor' \in 0..U32Max
    BY <1>1
  <2>3. reply' \in [verdict: {"none", "ok", "err"}, bytes: Seq(Byte)]
    BY DEF StartCall, Reply
  <2> QED
    BY <1>1, <2>1, <2>2, <2>3 DEF IInv, TypeOK, StartCall, snapshot
<1>3. CacheView' = CacheView /\ Lost' = Lost
  BY ViewOfSegments, ViewNext DEF StartCall, snapshot, Lost, Refused, Span
<1>4. /\ Remaining' = o..(o + n - 1) /\ Span(call)' = o..(o + n - 1)
      /\ o..(o + n - 1) \subseteq Offset /\ o \in o..(o + n - 1)
      /\ Remaining = {}
  <2>1. Remaining' = o..((o + n) - 1)
    BY <1>1 DEF Remaining
  <2>2. o..((o + n) - 1) = o..(o + n - 1)
    BY WidthAssumption
  <2>3. Span(call)' = o..(o + n - 1)
    BY <1>1 DEF Span
  <2> QED
    BY <1>1, <2>1, <2>2, <2>3, RemainingFacts, WidthAssumption DEF Offset
<1>5. SegmentsCanonical' /\ WorkTilesGap' /\ ReadReturnsCache'
  BY <1>1 DEF IInv, StartCall, snapshot, SegmentsCanonical, SegmentEnd, WorkTilesGap,
              ReadReturnsCache
<1>6. CallInv' /\ CursorInv'
  <2>1. calls' # 0
    BY WidthAssumption DEF IInv, TypeOK, StartCall
  <2>2. o <= o + n
    BY WidthAssumption
  <2> QED
    BY <1>1, <2>1, <2>2 DEF CallInv, CursorInv, Refused
<1>7. FailedInv'
  <2>1. Visited' = {} /\ failedYet' = FALSE
    BY <1>4 DEF Visited, StartCall
  <2> QED
    BY <2>1 DEF FailedInv
<1>8. FirstFetchInv'
  <2> SUFFICES ASSUME calls' = 1 PROVE FirstFetchInv'
    BY DEF FirstFetchInv
  <2>1. calls = 0
    BY WidthAssumption DEF IInv, TypeOK, StartCall
  <2>2. segments = << >> /\ failures = << >> /\ failures' = << >>
    BY <2>1 DEF IInv, CallInv, StartCall, snapshot
  <2>3. Visited' = {}
    BY <1>4 DEF Visited
  <2>4. DOMAIN segments = {} /\ DOMAIN failures' = {}
    BY <2>2
  <2>5. Lost' = {}
    BY <1>3, <2>2 DEF Lost, Range
  <2>6. \A x \in Offset : CacheView'[x] = Missing
    <3>1. segments \in Seq(Segment)
      BY DEF IInv, TypeOK
    <3>2. \A x \in Offset : SegmentCovering(x) = 0
      BY <2>4, <3>1, ViewOfSegments, CoveringCovers
    <3> QED
      BY <1>3, <3>2, StateFacts
  <2> QED
    BY <2>3, <2>4, <2>5, <2>6 DEF FirstFetchInv
<1>9. Cache!Begin(o..(o + n - 1))
  <2>1. {x \in Remaining : CacheView[x] = Missing}' = {x \in o..(o + n - 1) : CacheView[x] # Missing => FALSE}
    BY <1>3, <1>4
  <2>2. calls' # 0
    BY WidthAssumption DEF IInv, TypeOK, StartCall
  <2> QED
    BY <1>1, <1>3, <1>4, <2>1, <2>2 DEF Cache!Begin, Cache!Cached, IInv, CallInv
<1> QED
  BY <1>2, <1>4, <1>5, <1>6, <1>7, <1>8, <1>9 DEF IInv

(* The bytes up to the end of the segment are cached. *)
LEMMA SkipCoveredStep ==
  ASSUME IInv, SkipCovered
  PROVE  IInv' /\ UNCHANGED Cache!vars
<1> DEFINE k == SegmentCovering(cursor)
<1>1. /\ pc = "loop" /\ pc' = "loop" /\ cursor < End /\ k # 0 /\ End' = End
      /\ UNCHANGED <<segments, failures, call, failedYet, calls, reply>>
  BY DEF SkipCovered, snapshot, End
<1>2. /\ Canonical(segments) /\ End \in Nat /\ cursor \in Nat /\ End <= U32Max
      /\ call.offset <= cursor /\ ~Refused(call) /\ call.offset \in Nat
  BY <1>1, StateFacts, WidthAssumption DEF IInv, TypeOK, CallInv, CursorInv
<1>3. k \in DOMAIN segments /\ Covers(segments[k], cursor)
  <2>1. segments \in Seq(Segment)
    BY <1>2 DEF Canonical
  <2> QED
    BY <1>1, <2>1, ViewOfSegments, CoveringCovers
<1> DEFINE e == SegmentEnd(segments[k])
<1>4. e \in Nat /\ cursor < e /\ segments[k].offset <= cursor /\ segments[k].offset \in Nat
      /\ segments[k] \in Segment
  <2>1. Proper(segments[k])
    BY <1>2, <1>3 DEF Canonical
  <2> QED
    BY <1>3, <2>1, ProperEnd DEF Covers
<1>5. cursor' = IF e <= End THEN e ELSE End
  BY <1>2, <1>4, MinOfTwo DEF SkipCovered
<1>6. \A o \in cursor..(cursor' - 1) : Covers(segments[k], o)
  <2> TAKE o \in cursor..(cursor' - 1)
  <2>1. cursor <= o /\ o < e /\ o \in Nat
    <3> HIDE DEF e
    <3> QED
      BY <1>2, <1>4, <1>5
  <2>2. segments[k].offset <= o
    <3> HIDE DEF k, e
    <3> QED
      BY <1>2, <1>4, <2>1 DEF Segment
  <2> QED
    BY <2>1, <2>2 DEF Covers
<1> HIDE DEF e, k
<1>7. cursor' \in Nat /\ cursor < cursor' /\ cursor' <= End
  BY <1>1, <1>2, <1>4, <1>5
<1>8. /\ Remaining = cursor..(End - 1) /\ Remaining' = cursor'..(End - 1)
      /\ Remaining' \subseteq Remaining
      /\ \A o \in Remaining \ Remaining' : o \in cursor..(cursor' - 1)
  BY <1>1, <1>2, <1>7 DEF Remaining
<1>9. \A o \in Remaining \ Remaining' : CacheView[o] # Missing
  <2> TAKE o \in Remaining \ Remaining'
  <2>1. o \in Offset /\ Covers(segments[k], o)
    BY <1>2, <1>6, <1>8, WidthAssumption DEF Offset
  <2> QED
    BY <1>2, <1>3, <2>1, ViewOfSegments, ViewShows
<1>10. /\ SegmentsCanonical' /\ ReadReturnsCache' /\ FailedInv' /\ FirstFetchInv'
       /\ CallInv' /\ UNCHANGED Cache!vars
  BY <1>1, <1>8, <1>9, QuietStep
<1>11. TypeOK'
  BY <1>1, <1>2, <1>7, WidthAssumption DEF IInv, TypeOK, SkipCovered, snapshot
<1>12. WorkTilesGap' /\ CursorInv'
  BY <1>1, <1>2, <1>7 DEF WorkTilesGap, CursorInv
<1> QED
  BY <1>10, <1>11, <1>12 DEF IInv

(* The gap ends before the next segment: it has no cached byte. *)
LEMMA GapIsUncovered ==
  ASSUME IInv, cursor \in Nat, cursor < End, SegmentCovering(cursor) = 0,
         NEW g, g = Min(NextSegmentStart(cursor) \cup {End})
  PROVE  /\ g \in Nat /\ cursor < g /\ g <= End
         /\ \A o \in cursor..(g - 1) : SegmentCovering(o) = 0
<1> DEFINE I == {i \in 1..Len(segments) : segments[i].offset > cursor}
           first == IF I # {} THEN Min(I) ELSE 0
<1>1. /\ segments \in Seq(Segment) /\ DOMAIN segments = 1..Len(segments) /\ Len(segments) \in Nat
      /\ Canonical(segments) /\ End \in Nat
  BY StateFacts DEF IInv, TypeOK
<1>2. \A i \in DOMAIN segments : /\ segments[i].offset \in Nat /\ SegmentEnd(segments[i]) \in Nat
                                 /\ segments[i].offset < SegmentEnd(segments[i])
                                 /\ segments[i] \in Segment
  BY <1>1, ProperEnd DEF Canonical
<1>3. \A i \in DOMAIN segments : ~Covers(segments[i], cursor)
  <2>1. 0 \notin DOMAIN segments
    BY <1>1
  <2> QED
    BY <1>1, <2>1, ViewOfSegments, CoveringCovers
<1>4. NextSegmentStart(cursor) = IF first = 0 THEN {} ELSE {segments[first].offset}
  BY DEF NextSegmentStart, SelectInSeq
<1>5. I \in SUBSET Nat
  BY <1>1
<1>6. \A i \in DOMAIN segments : i \notin I => SegmentEnd(segments[i]) <= cursor
  <2> TAKE i \in DOMAIN segments
  <2> HAVE i \notin I
  <2>1. ~(segments[i].offset > cursor)
    BY <1>1
  <2> QED
    BY <1>2, <1>3, <2>1 DEF Covers, Segment
<1>7. SUFFICES /\ g \in Nat /\ cursor < g /\ g <= End
               /\ \A i \in DOMAIN segments :
                    SegmentEnd(segments[i]) <= cursor \/ g <= segments[i].offset
  <2> SUFFICES ASSUME g \in Nat, cursor < g, g <= End,
                      \A i \in DOMAIN segments :
                        SegmentEnd(segments[i]) <= cursor \/ g <= segments[i].offset,
                      NEW o \in cursor..(g - 1)
               PROVE  SegmentCovering(o) = 0
    BY <1>1
  <2>1. o \in Nat /\ cursor <= o /\ o < g
    OBVIOUS
  <2>2. \A i \in DOMAIN segments : ~Covers(segments[i], o)
    <3> TAKE i \in DOMAIN segments
    <3>1. SegmentEnd(segments[i]) <= cursor \/ g <= segments[i].offset
      OBVIOUS
    <3>2. /\ segments[i].offset \in Nat /\ SegmentEnd(segments[i]) \in Nat
          /\ segments[i] \in Segment
      BY <1>2
    <3> QED
      BY <2>1, <3>1, <3>2 DEF Covers, Segment
  <2> QED
    BY <1>1, <2>2, ViewOfSegments, CoveringCovers
<1>8. CASE I = {}
  <2>1. NextSegmentStart(cursor) \cup {End} = {End} /\ {End} \in SUBSET Nat /\ {End} # {}
    BY <1>1, <1>4, <1>8
  <2>2. g = End
    BY <2>1, MinIsLeast
  <2> QED
    BY <1>1, <1>6, <1>8, <2>2
<1>9. CASE I # {}
  <2>1. first \in I /\ \A i \in I : first <= i
    <3> HIDE DEF I
    <3> QED
      BY <1>5, <1>9, MinIsLeast
  <2>2. first \in DOMAIN segments /\ cursor < segments[first].offset /\ first # 0
    BY <1>1, <2>1
  <2> HIDE DEF first
  <2> DEFINE T == {segments[first].offset, End}
  <2>3. NextSegmentStart(cursor) \cup {End} = T /\ T \in SUBSET Nat /\ T # {}
    BY <1>1, <1>2, <1>4, <2>2
  <2>4. g \in T /\ \A y \in T : g <= y
    <3> HIDE DEF T
    <3> QED
      BY <2>3, MinIsLeast
  <2>5. g \in Nat /\ cursor < g /\ g <= End /\ g <= segments[first].offset
    BY <2>2, <2>3, <2>4
  <2>6. ASSUME NEW i \in DOMAIN segments
        PROVE  SegmentEnd(segments[i]) <= cursor \/ g <= segments[i].offset
    <3>1. CASE i \notin I
      BY <1>6, <3>1
    <3>2. CASE i \in I
      <4>1. first <= i /\ i \in Nat /\ first \in Nat
        BY <1>1, <2>1, <2>2, <3>2
      <4>2. first = i \/ SegmentEnd(segments[first]) < segments[i].offset
        BY <1>1, <2>2, <4>1 DEF Canonical
      <4>3. /\ segments[first].offset \in Nat /\ SegmentEnd(segments[first]) \in Nat
            /\ segments[first].offset < SegmentEnd(segments[first])
            /\ segments[i].offset \in Nat /\ segments[first] \in Segment /\ segments[i] \in Segment
        BY <1>2, <2>2
      <4> HIDE DEF T
      <4> QED
        BY <2>5, <4>2, <4>3 DEF Segment
    <3> QED
      BY <3>1, <3>2
  <2> QED
    BY <2>5, <2>6
<1> QED
  BY <1>8, <1>9

(* The block between two offsets.                                            *)
LEMMA BlockBetween ==
  ASSUME NEW lo \in Nat, NEW hi \in Nat, lo < hi, hi <= U32Max
  PROVE  LET b == [offset |-> lo, length |-> hi - lo]
         IN  /\ b \in Ranges /\ b.length # 0 /\ BlockEnd(b) = hi /\ b.offset = lo
             /\ Span(b) = lo..(hi - 1)
<1> DEFINE b == [offset |-> lo, length |-> hi - lo]
<1>1. b \in Ranges /\ b.length # 0 /\ b.offset = lo
  BY WidthAssumption DEF Ranges
<1>2. BlockEnd(b) = hi
  BY DEF BlockEnd
<1> HIDE DEF b
<1>3. \A o : o \in Span(b) <=> o \in Nat /\ lo <= o /\ o < hi
  BY <1>1, <1>2, RangeFacts
<1>4. \A o : o \in lo..(hi - 1) <=> o \in Nat /\ lo <= o /\ o < hi
  OBVIOUS
<1>5. Span(b) \subseteq Nat /\ lo..(hi - 1) \subseteq Nat
  BY <1>3
<1>6. Span(b) = lo..(hi - 1)
  <2>1. \A o : o \in Span(b) <=> o \in lo..(hi - 1)
    BY <1>3, <1>4, Zenon
  <2> QED
    BY <2>1, Zenon
<1> QED
  BY <1>1, <1>2, <1>6 DEF b

(* The next gap is ready to be read: ConfigCache sees nothing of it.         *)
LEMMA OpenGapStep ==
  ASSUME IInv, OpenGap
  PROVE  IInv' /\ UNCHANGED Cache!vars
<1> DEFINE b == [offset |-> cursor, length |-> gapEnd' - cursor]
<1>1. /\ pc = "loop" /\ pc' = "range" /\ cursor < End /\ End' = End /\ cursor' = cursor
      /\ UNCHANGED <<segments, failures, call, failedYet, calls, reply>>
      /\ SegmentCovering(cursor) = 0 /\ work' = <<b>>
  BY DEF OpenGap, snapshot, End
<1>2. /\ End \in Nat /\ cursor \in Nat /\ End <= U32Max
      /\ call.offset <= cursor /\ ~Refused(call) /\ call.offset \in Nat
  BY <1>1, StateFacts, WidthAssumption DEF IInv, TypeOK, CallInv, CursorInv
<1>3. /\ gapEnd' \in Nat /\ cursor < gapEnd' /\ gapEnd' <= End
      /\ \A o \in cursor..(gapEnd' - 1) : SegmentCovering(o) = 0
  BY <1>1, <1>2, GapIsUncovered DEF OpenGap
<1>4. /\ b \in Ranges /\ b.length # 0 /\ BlockEnd(b) = gapEnd' /\ b.offset = cursor
      /\ Span(b) = cursor..(gapEnd' - 1)
  <2>1. cursor \in Nat /\ gapEnd' \in Nat /\ cursor < gapEnd' /\ gapEnd' <= U32Max
    BY <1>2, <1>3, WidthAssumption
  <2> QED
    BY <2>1, BlockBetween
<1> HIDE DEF b
<1>6. work' \in Seq(Ranges) /\ Len(work') = 1 /\ DOMAIN work' = {1} /\ work'[1] = b
  BY <1>1, <1>4
<1>7. Remaining = cursor..(End - 1) /\ Remaining' = cursor..(End - 1)
  <2>1. Remaining = cursor..(End - 1)
    BY <1>1, RemainingFacts
  <2>2. Remaining' = (UNION {Span(work'[i]) : i \in DOMAIN work'}) \cup (gapEnd'..(End - 1))
    <3>1. pc' # "idle" /\ pc' # "loop"
      BY <1>1
    <3>2. \A i : Span(work[i])' = Span(work'[i])
      BY DEF Span
    <3> QED
      BY <1>1, <3>1, <3>2 DEF Remaining
  <2>3. Remaining' = Span(b) \cup (gapEnd'..(End - 1))
    BY <1>6, <2>2
  <2>4. \A o : o \in cursor..(End - 1) <=> o \in cursor..(gapEnd' - 1) \/ o \in gapEnd'..(End - 1)
    BY <1>2, <1>3
  <2> QED
    BY <1>4, <2>1, <2>3, <2>4
<1>8. /\ SegmentsCanonical' /\ ReadReturnsCache' /\ FailedInv' /\ FirstFetchInv'
      /\ CallInv' /\ UNCHANGED Cache!vars
  BY <1>1, <1>7, QuietStep
<1>9. TypeOK'
  BY <1>1, <1>2, <1>3, <1>6, WidthAssumption DEF IInv, TypeOK, OpenGap, snapshot
<1>10. CursorInv'
  <2>1. Ordered(work', cursor', gapEnd')
    BY <1>1, <1>2, <1>3, <1>4, <1>6 DEF Ordered
  <2> QED
    BY <1>1, <1>2, <1>3, <2>1 DEF CursorInv
<1>11. WorkTilesGap'
  <2>1. \A o : SegmentCovering(o)' = SegmentCovering(o)
    BY <1>1, ViewOfSegments, ViewNext
  <2>2. Last(work') = b
    BY <1>6 DEF Last
  <2>3. Span(b) = Span(work'[1])
    BY <1>6
  <2>4. \A o \in Span(b) : SegmentCovering(o)' = 0
    BY <1>3, <1>4, <2>1
  <2>5. ~\E i : i \in 1..(Len(work') - 1)
    BY <1>6
  <2>6. Last(work').offset + Last(work').length = gapEnd'
    BY <1>4, <2>2 DEF BlockEnd
  <2>7. \A i \in DOMAIN work' : work'[i].length # 0 /\ \A o \in Span(work'[i]) : SegmentCovering(o)' = 0
    BY <1>4, <1>6, <2>4
  <2> QED
    BY <2>5, <2>6, <2>7 DEF WorkTilesGap, Span
<1> QED
  BY <1>8, <1>9, <1>10, <1>11 DEF IInv

(* A gap is done: ConfigCache sees nothing of it.                            *)
LEMMA CloseGapStep ==
  ASSUME IInv, CloseGap
  PROVE  IInv' /\ UNCHANGED Cache!vars
<1>1. /\ pc = "range" /\ pc' = "loop" /\ End' = End /\ cursor' = gapEnd /\ work = << >>
      /\ UNCHANGED <<segments, failures, call, failedYet, calls, reply>>
  BY DEF CloseGap, snapshot, End
<1>2. /\ End \in Nat /\ cursor \in Nat /\ End <= U32Max /\ gapEnd \in 0..U32Max /\ gapEnd <= End
      /\ call.offset <= cursor /\ ~Refused(call) /\ call.offset \in Nat /\ cursor < gapEnd
  BY <1>1, StateFacts, WidthAssumption DEF IInv, TypeOK, CallInv, CursorInv
<1>3. Remaining = gapEnd..(End - 1) /\ Remaining' = gapEnd..(End - 1)
  <2>1. WorkSpan(work) = {}
    BY <1>1 DEF WorkSpan
  <2>2. Remaining' = gapEnd..(End - 1)
    BY <1>1 DEF Remaining
  <2> QED
    BY <1>1, <2>1, <2>2, RemainingFacts
<1>4. /\ SegmentsCanonical' /\ ReadReturnsCache' /\ FailedInv' /\ FirstFetchInv'
      /\ CallInv' /\ UNCHANGED Cache!vars
  BY <1>1, <1>3, QuietStep
<1>5. TypeOK'
  BY <1>1, <1>2 DEF IInv, TypeOK, CloseGap, snapshot
<1>6. CursorInv' /\ WorkTilesGap'
  BY <1>1, <1>2, WidthAssumption DEF CursorInv, WorkTilesGap
<1> QED
  BY <1>4, <1>5, <1>6 DEF IInv

(* Both halves have bytes, as a block that is split has two or more.        *)
LEMMA SplitBlockStep ==
  ASSUME IInv, SplitBlock
  PROVE  IInv' /\ UNCHANGED Cache!vars
<1> DEFINE left == Head(work).length \div 2
           a == [offset |-> Head(work).offset, length |-> left]
           b == [offset |-> Head(work).offset + left, length |-> Head(work).length - left]
           v == <<a, b>> \o Tail(work)
<1>1. /\ pc = "range" /\ pc' = "range" /\ End' = End /\ cursor' = cursor /\ gapEnd' = gapEnd
      /\ UNCHANGED <<segments, failures, call, failedYet, calls, reply>>
      /\ work # << >> /\ Head(work).length > MinReadBlock /\ work' = v
  BY DEF SplitBlock, snapshot, End
<1>2. /\ cursor \in Nat /\ gapEnd \in 0..U32Max /\ gapEnd \in Nat /\ Ordered(work, cursor, gapEnd)
      /\ WorkTilesGap
  BY <1>1, WidthAssumption DEF IInv, TypeOK, CursorInv
<1>3. /\ Head(work) \in Ranges /\ Head(work) = work[1] /\ 1 \in DOMAIN work
      /\ DOMAIN work = 1..Len(work) /\ Len(work) \in Nat \ {0}
  BY <1>1, <1>2, WorkPop DEF Ordered
<1>4. /\ left \in Nat \ {0} /\ left < Head(work).length /\ Head(work).length \in Nat
      /\ Head(work).offset \in Nat
  BY <1>1, <1>3, WidthAssumption DEF Ranges
<1>5. BlockEnd(Head(work)) <= U32Max /\ BlockEnd(Head(work)) = Head(work).offset + Head(work).length
  <2>1. BlockEnd(work[1]) <= gapEnd
    BY <1>2, <1>3 DEF Ordered
  <2>2. BlockEnd(work[1]) \in Nat /\ BlockEnd(work[1]) = work[1].offset + work[1].length
    BY <1>3, RangeFacts
  <2> QED
    BY <1>2, <1>3, <2>1, <2>2, WidthAssumption
<1>6. /\ a \in Ranges /\ b \in Ranges /\ a.length # 0 /\ b.length # 0
      /\ a.offset = Head(work).offset /\ BlockEnd(a) = b.offset
      /\ BlockEnd(b) = BlockEnd(Head(work))
  <2> DEFINE o == Head(work).offset
             n == Head(work).length
  <2>1. o \in Nat /\ n \in Nat /\ left \in Nat \ {0} /\ left < n /\ o + n <= U32Max
    BY <1>4, <1>5
  <2> HIDE DEF o, n, left
  <2>2. /\ o \in 0..U32Max /\ left \in 0..U32Max /\ o + left \in 0..U32Max
        /\ n - left \in 0..U32Max /\ n - left # 0 /\ (o + left) + (n - left) = o + n
    BY <2>1, WidthAssumption
  <2>3. a = [offset |-> o, length |-> left] /\ b = [offset |-> o + left, length |-> n - left]
    BY DEF o, n
  <2> HIDE DEF a, b
  <2>4. a \in Ranges /\ b \in Ranges
    BY <2>2, <2>3 DEF Ranges
  <2>5. BlockEnd(a) = o + left /\ BlockEnd(b) = o + n
    BY <2>2, <2>3 DEF BlockEnd
  <2> QED
    BY <1>5, <2>1, <2>2, <2>3, <2>4, <2>5 DEF o, n
<1> HIDE DEF a, b, left
<1>7. /\ Ordered(v, cursor, gapEnd) /\ WorkSpan(v) = WorkSpan(work)
      /\ Len(v) = Len(work) + 1 /\ v[1] = a /\ v[2] = b
      /\ \A i \in 3..Len(v) : v[i] = work[i - 1] /\ i - 1 \in DOMAIN work /\ i - 1 # 1
  <2>1. /\ cursor \in Nat /\ gapEnd \in 0..U32Max /\ Ordered(work, cursor, gapEnd)
        /\ work # << >>
    BY <1>1, <1>2
  <2>2. Halves(a, b, Head(work))
    BY <1>6 DEF Halves
  <2>3. Ordered(v, cursor, gapEnd) /\ SplitOf(v, work, a, b)
    BY <2>1, <2>2, WorkSplit, Zenon
  <2> HIDE DEF v
  <2> QED
    BY <2>3 DEF SplitOf
<1> HIDE DEF v
<1>8. Remaining' = Remaining
  <2>1. Remaining' = WorkSpan(work') \cup (gapEnd..(End - 1))
    <3>1. pc' # "idle" /\ pc' # "loop"
      BY <1>1
    <3>2. \A i : Span(work[i])' = Span(work'[i])
      BY DEF Span
    <3> QED
      BY <1>1, <3>1, <3>2 DEF Remaining, WorkSpan
  <2> QED
    BY <1>1, <1>7, <2>1, RemainingFacts
<1>9. /\ SegmentsCanonical' /\ ReadReturnsCache' /\ FailedInv' /\ FirstFetchInv'
      /\ CallInv' /\ UNCHANGED Cache!vars
  BY <1>1, <1>8, QuietStep
<1>10. work' \in Seq(Ranges)
  BY <1>1, <1>7 DEF Ordered
<1>11. TypeOK'
  BY <1>1, <1>10 DEF IInv, TypeOK, SplitBlock, snapshot
<1>12. CursorInv'
  BY <1>1, <1>7 DEF IInv, CursorInv
<1>13. WorkTilesGap'
  <2>1. /\ DOMAIN v = 1..(Len(work) + 1) /\ v \in Seq(Ranges)
    BY <1>7 DEF Ordered
  <2>2. ASSUME NEW i \in 1..(Len(v) - 1)
        PROVE  BlockEnd(v[i]) = v[i + 1].offset
    <3>1. i = 1 \/ i = 2 \/ (i \in 3..Len(v) /\ i + 1 \in 3..Len(v))
      BY <1>3, <1>7
    <3>2. CASE i = 1
      BY <1>6, <1>7, <3>2
    <3>3. CASE i = 2
      <4>1. v[3] = work[2] /\ 1 \in 1..(Len(work) - 1)
        BY <1>3, <1>7, <3>3
      <4>2. BlockEnd(work[1]) = work[2].offset
        BY <1>1, <1>2, <4>1 DEF WorkTilesGap, BlockEnd
      <4> QED
        BY <1>3, <1>6, <1>7, <3>3, <4>1, <4>2
    <3>4. CASE i \in 3..Len(v) /\ i + 1 \in 3..Len(v)
      <4>1. v[i] = work[i - 1] /\ v[i + 1] = work[i] /\ i - 1 \in 1..(Len(work) - 1)
        BY <1>3, <1>7, <3>4
      <4>2. BlockEnd(work[i - 1]) = work[(i - 1) + 1].offset
        BY <1>1, <1>2, <4>1 DEF WorkTilesGap, BlockEnd
      <4> QED
        BY <4>1, <4>2
    <3> QED
      BY <3>1, <3>2, <3>3, <3>4
  <2>3. BlockEnd(Last(v)) = gapEnd
    <3>1. BlockEnd(Last(work)) = gapEnd
      BY <1>1, <1>2 DEF WorkTilesGap, BlockEnd
    <3>2. CASE Len(work) = 1
      BY <1>3, <1>6, <1>7, <3>1, <3>2 DEF Last
    <3>3. CASE Len(work) # 1
      <4>1. Len(v) \in 3..Len(v) /\ Len(v) - 1 = Len(work)
        BY <1>3, <1>7, <3>3
      <4> QED
        BY <1>7, <3>1, <4>1 DEF Last
    <3> QED
      BY <3>2, <3>3
  <2>4. \A i \in DOMAIN v : v[i].length # 0
    BY <1>7 DEF Ordered
  <2>5. ASSUME NEW i \in DOMAIN v, NEW o \in Span(v[i]) PROVE SegmentCovering(o) = 0
    <3>1. o \in WorkSpan(work)
      BY <1>7 DEF WorkSpan
    <3> QED
      BY <1>1, <3>1, RemainingFacts
  <2>6. \A o : SegmentCovering(o)' = SegmentCovering(o)
    BY <1>1, ViewOfSegments, ViewNext
  <2> QED
    BY <1>1, <2>2, <2>3, <2>4, <2>5, <2>6 DEF WorkTilesGap, BlockEnd, Span
<1> QED
  BY <1>9, <1>11, <1>12, <1>13 DEF IInv

-----------------------------------------------------------------------------
(* The block on top leaves the work stack: read, or given up. *)

Tiles(w, end) ==
  /\ \A i \in 1..(Len(w) - 1) : BlockEnd(w[i]) = w[i + 1].offset
  /\ w # << >> => BlockEnd(Last(w)) = end

(* What tiles a gap still does without its first block.                      *)
LEMMA TailTiles ==
  ASSUME NEW w \in Seq(Ranges), w # << >>, NEW end, Tiles(w, end)
  PROVE  Tiles(Tail(w), end)
<1> DEFINE t == Tail(w)
<1>1. /\ Len(w) \in Nat \ {0} /\ Len(t) = Len(w) - 1 /\ t \in Seq(Ranges)
      /\ \A i \in 1..(Len(w) - 1) : t[i] = w[i + 1]
  OBVIOUS
<1> HIDE DEF t
<1>2. ASSUME NEW i \in 1..(Len(t) - 1) PROVE BlockEnd(t[i]) = t[i + 1].offset
  <2>1. /\ i \in 1..(Len(w) - 1) /\ i + 1 \in 1..(Len(w) - 1)
        /\ t[i] = w[i + 1] /\ t[i + 1] = w[(i + 1) + 1]
    BY <1>1
  <2> QED
    BY <2>1 DEF Tiles
<1>3. ASSUME t # << >> PROVE BlockEnd(Last(t)) = end
  <2>1. Len(t) \in 1..(Len(w) - 1) /\ Len(t) + 1 = Len(w)
    BY <1>1, <1>3
  <2>2. Last(t) = Last(w)
    BY <1>1, <2>1 DEF Last
  <2> QED
    BY <2>2 DEF Tiles
<1>4. Tiles(t, end)
  BY <1>2, <1>3 DEF Tiles
<1> QED
  BY <1>4 DEF t

(* The block taken from the work stack has not been read, and is not cached. *)
LEMMA PopBlock ==
  ASSUME IInv, pc = "range", work # << >>, work' = Tail(work),
         UNCHANGED <<call, cursor, gapEnd, pc>>
  PROVE  /\ Head(work) \in Ranges /\ Head(work).length # 0
         /\ BlockEnd(Head(work)) <= U32Max
         /\ Span(Head(work)) # {} /\ Span(Head(work)) \subseteq Remaining
         /\ Span(Head(work)) \subseteq Offset
         /\ \A o \in Span(Head(work)) : SegmentCovering(o) = 0 /\ CacheView[o] = Missing
         /\ Remaining' = Remaining \ Span(Head(work))
         /\ Visited' = Visited \cup Span(Head(work))
         /\ Visited \cap Span(Head(work)) = {}
         /\ CursorInv' /\ work' \in Seq(Ranges) /\ Tiles(work', gapEnd)
         /\ \A i \in DOMAIN work' : work'[i].length # 0
         /\ \A o \in WorkSpan(work') : SegmentCovering(o) = 0 /\ o \notin Span(Head(work))
         /\ WorkSpan(work') \subseteq Remaining'
         /\ Span(call)' = Span(call) /\ Span(call) \subseteq Offset /\ ~Refused(call)
<1> DEFINE h == Head(work)
<1>1. /\ cursor \in Nat /\ gapEnd \in 0..U32Max /\ gapEnd \in Nat /\ Ordered(work, cursor, gapEnd)
      /\ WorkTilesGap /\ ~Refused(call) /\ End \in Nat /\ gapEnd <= End
  BY StateFacts, WidthAssumption DEF IInv, TypeOK, CursorInv, CallInv
<1>2. /\ h \in Ranges /\ h = work[1] /\ 1 \in DOMAIN work
      /\ Ordered(work', cursor, gapEnd)
      /\ Span(h) \subseteq WorkSpan(work)
      /\ WorkSpan(work') = WorkSpan(work) \ Span(h)
  BY <1>1, WorkPop
<1>3. h.length # 0 /\ BlockEnd(h) <= gapEnd
  BY <1>1, <1>2 DEF Ordered
<1> HIDE DEF h
<1>4. /\ h.offset \in Nat /\ h.length \in Nat /\ BlockEnd(h) = h.offset + h.length
      /\ \A o : o \in Span(h) <=> o \in Nat /\ h.offset <= o /\ o < BlockEnd(h)
  BY <1>2, RangeFacts
<1>5. BlockEnd(h) <= U32Max /\ h.offset \in Span(h)
  BY <1>1, <1>2, <1>3, <1>4, WidthAssumption DEF Ranges
<1>6. /\ Remaining = WorkSpan(work) \cup gapEnd..(End - 1)
      /\ Remaining \subseteq Span(call)
      /\ \A o \in WorkSpan(work) : o \in Nat /\ cursor <= o /\ o < gapEnd /\ SegmentCovering(o) = 0
  BY RemainingFacts
<1>7. Remaining' = WorkSpan(work') \cup gapEnd..(End - 1)
  <2>1. pc' # "idle" /\ pc' # "loop" /\ End' = End
    BY DEF End
  <2>2. \A i : Span(work[i])' = Span(work'[i])
    BY DEF Span
  <2> QED
    BY <2>1, <2>2 DEF Remaining, WorkSpan
<1>8. \A o \in Span(h) : o \notin gapEnd..(End - 1)
  BY <1>1, <1>2, <1>6
<1>9. Remaining' = Remaining \ Span(h)
  BY <1>2, <1>6, <1>7, <1>8
<1>10. Span(call)' = Span(call) /\ Span(call) \subseteq Offset
  BY <1>1, StateFacts DEF Span
<1>11. Span(h) \subseteq Remaining
  BY <1>2, <1>6
<1>12. Visited' = Visited \cup Span(h) /\ Visited \cap Span(h) = {}
  BY <1>6, <1>9, <1>10, <1>11 DEF Visited
<1>13. CursorInv'
  <2>1. End' = End
    BY DEF End
  <2> QED
    BY <1>2, <2>1 DEF IInv, CursorInv
<1>14. Tiles(work', gapEnd)
  <2>1. Tiles(work, gapEnd)
    BY <1>1 DEF WorkTilesGap, Tiles, BlockEnd
  <2> QED
    BY <1>1, <2>1, TailTiles DEF Ordered
<1>15. \A o \in Span(h) : SegmentCovering(o) = 0 /\ CacheView[o] = Missing
  BY <1>2, <1>6, <1>10, <1>11, StateFacts
<1>16. work' \in Seq(Ranges) /\ \A i \in DOMAIN work' : work'[i].length # 0
  BY <1>2 DEF Ordered
<1>17. \A o \in WorkSpan(work') : SegmentCovering(o) = 0 /\ o \notin Span(h)
  BY <1>2, <1>6
<1>18. Span(h) # {} /\ Span(h) \subseteq Offset
  BY <1>5, <1>6, <1>10, <1>11
<1>19. WorkSpan(work') \subseteq Remaining'
  BY <1>7
<1> QED
  BY <1>1, <1>2, <1>3, <1>5, <1>9, <1>10, <1>11, <1>12, <1>13, <1>14, <1>15, <1>16, <1>17,
     <1>18, <1>19 DEF h

(* The block enters the cache, each byte at its offset. *)
LEMMA BlockSegment ==
  ASSUME NEW r \in Ranges, r.length # 0, BlockEnd(r) <= U32Max, gen \in 0..MaxGen
  PROVE  LET s == [offset |-> r.offset, bytes |-> Block(r)]
         IN  /\ Proper(s) /\ s.offset = r.offset
             /\ \A o : o \in Nat => (Covers(s, o) <=> o \in Span(r))
             /\ \A o \in Span(r) : s.bytes[o - s.offset + 1] = <<o, gen>>
<1> DEFINE s == [offset |-> r.offset, bytes |-> Block(r)]
<1>1. /\ r.offset \in Nat /\ r.length \in Nat /\ BlockEnd(r) = r.offset + r.length
      /\ r.offset \in 0..U32Max
      /\ \A o : o \in Span(r) <=> o \in Nat /\ r.offset <= o /\ o < BlockEnd(r)
  BY RangeFacts DEF Ranges
<1>2. \A i \in 1..r.length : <<r.offset + i - 1, gen>> \in Byte
  <2> TAKE i \in 1..r.length
  <2>1. r.offset + i - 1 \in Offset
    BY <1>1, WidthAssumption DEF Offset, Ranges
  <2> QED
    BY <2>1 DEF Byte
<1>3. Block(r) = [i \in 1..r.length |-> <<r.offset + i - 1, gen>>]
  BY DEF Block
<1>4. Block(r) \in Seq(Byte) /\ Len(Block(r)) = r.length
  BY <1>1, <1>2, <1>3
<1>5. s.offset = r.offset /\ s.bytes = Block(r) /\ s \in Segment
  BY <1>1, <1>4 DEF Segment
<1> HIDE DEF s
<1>6. SegmentEnd(s) = BlockEnd(r)
  BY <1>1, <1>4, <1>5 DEF SegmentEnd
<1>7. Proper(s)
  <2>1. s.bytes # << >>
    BY <1>1, <1>4, <1>5
  <2> QED
    BY <2>1, <1>5, <1>6 DEF Proper
<1>8. \A o : o \in Nat => (Covers(s, o) <=> o \in Span(r))
  BY <1>1, <1>5, <1>6, Zenon DEF Covers
<1>9. \A o \in Span(r) : s.bytes[o - s.offset + 1] = <<o, gen>>
  <2> TAKE o \in Span(r)
  <2>1. o - r.offset + 1 \in 1..r.length /\ r.offset + (o - r.offset + 1) - 1 = o
    BY <1>1 DEF Ranges
  <2> QED
    BY <1>3, <1>5, <2>1
<1> QED
  BY <1>5, <1>7, <1>8, <1>9 DEF s

(* A block that can be read is loaded into the cache of ConfigCache.         *)
LEMMA ReadBlockStep ==
  ASSUME IInv, ReadBlock
  PROVE  IInv' /\ \E B \in SUBSET {o \in Remaining : CacheView[o] = Missing} : Cache!Load(B)
<1> DEFINE h == Head(work)
           new == [offset |-> h.offset, bytes |-> Block(h)]
           B == Span(h)
<1>1. /\ pc = "range" /\ pc' = "range" /\ work # << >> /\ work' = Tail(work)
      /\ UNCHANGED <<failures, call, cursor, gapEnd, failedYet, pc, reply, calls, gen>>
      /\ segments' = InsertSegment(segments, new)
  BY DEF ReadBlock
<1>2. /\ h \in Ranges /\ h.length # 0 /\ BlockEnd(h) <= U32Max
      /\ B # {} /\ B \subseteq Remaining /\ B \subseteq Offset
      /\ \A o \in B : SegmentCovering(o) = 0 /\ CacheView[o] = Missing
      /\ Remaining' = Remaining \ B /\ Visited' = Visited \cup B /\ Visited \cap B = {}
      /\ CursorInv' /\ work' \in Seq(Ranges) /\ Tiles(work', gapEnd)
      /\ \A i \in DOMAIN work' : work'[i].length # 0
      /\ \A o \in WorkSpan(work') : SegmentCovering(o) = 0 /\ o \notin B
      /\ Span(call)' = Span(call) /\ Span(call) \subseteq Offset /\ ~Refused(call)
  BY <1>1, PopBlock
<1> HIDE DEF h
<1>3. /\ Proper(new) /\ \A o : o \in Nat => (Covers(new, o) <=> o \in B)
      /\ \A o \in B : new.bytes[o - new.offset + 1] = <<o, gen>>
  <2>1. gen \in 0..MaxGen
    BY DEF IInv, TypeOK
  <2> QED
    BY <1>2, <2>1, BlockSegment, Zenon
<1> HIDE DEF new, B
<1>4. Canonical(segments) /\ segments \in Seq(Segment)
  BY StateFacts DEF Canonical
<1>5. \A o \in Nat : Covers(new, o) => \A i \in DOMAIN segments : ~Covers(segments[i], o)
  <2>1. 0 \notin DOMAIN segments
    BY <1>4
  <2>2. \A o \in B : \A i \in DOMAIN segments : ~Covers(segments[i], o)
    BY <1>2, <1>4, <2>1, ViewOfSegments, CoveringCovers
  <2> QED
    BY <1>3, <2>2
<1>6. /\ Canonical(segments')
      /\ \A o \in Offset : View(segments')[o] = IF o \in B THEN <<o, gen>> ELSE CacheView[o]
  <2>1. /\ Canonical(segments')
        /\ \A o \in Offset : View(segments')[o] =
             IF Covers(new, o) THEN new.bytes[o - new.offset + 1] ELSE View(segments)[o]
    BY <1>1, <1>3, <1>4, <1>5, InsertView
  <2>2. \A o \in Offset : o \in Nat
    BY WidthAssumption DEF Offset
  <2> QED
    BY <1>3, <2>1, <2>2, ViewOfSegments
<1>7. \A o \in Offset : CacheView'[o] = IF o \in B THEN <<o, gen>> ELSE CacheView[o]
  BY <1>6, ViewNext
<1>8. \A o \in B : <<o, gen>> \in Byte /\ <<o, gen>> # Missing
  BY <1>2, MissingAssumption DEF Byte, IInv, TypeOK
<1>9. TypeOK'
  BY <1>1, <1>2, <1>6 DEF IInv, TypeOK, Canonical
<1>10. SegmentsCanonical'
  BY <1>6, <1>9, CanonicalNext
<1>11. \A o \in Offset : SegmentCovering(o)' = 0 <=> SegmentCovering(o) = 0 /\ o \notin B
  <2>1. \A o \in Offset : SegmentCovering(o)' = 0 <=> CacheView'[o] = Missing
    BY <1>6, ViewNext, ViewShows
  <2>2. \A o \in Offset : SegmentCovering(o) = 0 <=> CacheView[o] = Missing
    BY StateFacts
  <2> QED
    BY <1>2, <1>7, <1>8, <2>1, <2>2
<1>12. WorkTilesGap'
  <2>1. \A o \in WorkSpan(work') : o \in Offset
    <3>1. WorkSpan(work') \subseteq Remaining'
      BY <1>1, PopBlock
    <3> QED
      BY <1>1, <1>2, <3>1, RemainingFacts
  <2>2. \A o \in WorkSpan(work') : SegmentCovering(o)' = 0
    BY <1>2, <1>11, <2>1
  <2>3. \A i \in DOMAIN work' : \A o \in Span(work'[i]) : o \in WorkSpan(work')
    BY DEF WorkSpan
  <2>4. Tiles(work', gapEnd')
    BY <1>1, <1>2
  <2> QED
    BY <1>2, <2>2, <2>3, <2>4 DEF WorkTilesGap, Tiles, BlockEnd, Span
<1>13. ReadReturnsCache'
  BY <1>1 DEF ReadReturnsCache
<1>14. CallInv'
  <2>1. calls # 0 /\ call.op # "none" /\ ~Refused(call)'
    BY <1>1, <1>2 DEF IInv, CallInv, Refused
  <2> QED
    BY <1>1, <2>1 DEF CallInv
<1>15. Lost' = Lost
  BY <1>1 DEF Lost, Refused, Span
<1>16. FailedInv'
  <2>1. failedYet <=> \E o \in Visited : CacheView[o] = Missing
    BY <1>1 DEF IInv, FailedInv
  <2>2. Visited \subseteq Offset
    BY <1>2 DEF Visited
  <2>3. (\E o \in Visited' : CacheView'[o] = Missing) <=> \E o \in Visited : CacheView[o] = Missing
    BY <1>2, <1>7, <1>8, <2>2
  <2> QED
    BY <1>1, <2>1, <2>3 DEF FailedInv
<1>17. FirstFetchInv'
  <2> SUFFICES ASSUME calls = 1 PROVE FirstFetchInv'
    BY <1>1 DEF FirstFetchInv
  <2>1. /\ \A o \in Visited : CacheView[o] # Missing <=> o \notin Lost
        /\ \A o \in Offset \ Visited : CacheView[o] = Missing /\ o \notin Lost
        /\ \A i \in DOMAIN failures : ~Refused(failures[i]) /\ failures[i].length <= MinReadBlock
        /\ \A i, j \in DOMAIN failures : i # j => Span(failures[i]) \cap Span(failures[j]) = {}
    BY <1>2 DEF IInv, FirstFetchInv
  <2>2. Visited \subseteq Offset
    BY <1>2 DEF Visited
  <2>3. \A o \in Visited' : CacheView'[o] # Missing <=> o \notin Lost'
    BY <1>2, <1>7, <1>8, <1>15, <2>1, <2>2
  <2>4. \A o \in Offset \ Visited' : CacheView'[o] = Missing /\ o \notin Lost'
    BY <1>2, <1>7, <1>15, <2>1
  <2> QED
    BY <1>1, <2>1, <2>3, <2>4 DEF FirstFetchInv, Refused, Span
<1>18. Cache!Load(B)
  <2>1. CacheView' \in [Offset -> Byte \cup {Missing}]
    <3>1. \A o \in Offset : View(segments')[o] \in Byte \cup {Missing}
      BY <1>6, ViewShows
    <3>2. View(segments') = [o \in Offset |-> View(segments')[o]]
      BY DEF View
    <3> QED
      BY <3>1, <3>2, ViewNext
  <2>2. \A o \in B : CacheView'[o] \in [x \in Offset |-> {x} \X (0..MaxGen)][o]
    <3> TAKE o \in B
    <3>1. o \in Offset /\ CacheView'[o] = <<o, gen>> /\ gen \in 0..MaxGen
      BY <1>2, <1>7 DEF IInv, TypeOK
    <3> QED
      BY <3>1
  <2>3. \A o \in Offset \ B : CacheView'[o] = CacheView[o]
    BY <1>7
  <2>4. {o \in Remaining : CacheView[o] = Missing}' = {o \in Remaining : CacheView[o] = Missing} \ B
    <3>1. Remaining \subseteq Offset
      BY <1>1, <1>2, RemainingFacts
    <3> QED
      BY <1>2, <1>7, <3>1
  <2>5. calls # 0 /\ calls' = calls /\ pc' # "idle" /\ pc # "idle"
    BY <1>1 DEF IInv, CallInv
  <2>6. Refused(call)' = Refused(call)
    BY <1>1 DEF Refused
  <2> QED
    BY <1>2, <1>15, <2>1, <2>2, <2>3, <2>4, <2>5, <2>6 DEF Cache!Load
<1>19. B \in SUBSET {o \in Remaining : CacheView[o] = Missing}
  BY <1>2
<1>20. IInv'
  BY <1>2, <1>9, <1>10, <1>12, <1>13, <1>14, <1>16, <1>17 DEF IInv
<1> QED
  BY <1>18, <1>19, <1>20, Zenon DEF Cache!Load

(* A block given up covers bytes no earlier failure of the fetch covers. *)
LEMMA GiveUpBlockStep ==
  ASSUME IInv, GiveUpBlock
  PROVE  IInv' /\ \E B \in SUBSET {o \in Remaining : CacheView[o] = Missing} : Cache!GiveUp(B)
<1> DEFINE h == Head(work)
           B == Span(h)
<1>1. /\ pc = "range" /\ pc' = "range" /\ work # << >> /\ work' = Tail(work)
      /\ UNCHANGED <<segments, call, cursor, gapEnd, pc, reply, calls, gen>>
      /\ failures' = Append(failures, h) /\ failedYet' = TRUE /\ h.length <= MinReadBlock
  BY DEF GiveUpBlock, RecordFailure
<1>2. /\ h \in Ranges /\ h.length # 0 /\ BlockEnd(h) <= U32Max
      /\ B # {} /\ B \subseteq Remaining /\ B \subseteq Offset
      /\ \A o \in B : SegmentCovering(o) = 0 /\ CacheView[o] = Missing
      /\ Remaining' = Remaining \ B /\ Visited' = Visited \cup B /\ Visited \cap B = {}
      /\ CursorInv' /\ work' \in Seq(Ranges) /\ Tiles(work', gapEnd)
      /\ \A i \in DOMAIN work' : work'[i].length # 0
      /\ \A o \in WorkSpan(work') : SegmentCovering(o) = 0 /\ o \notin B
      /\ Span(call)' = Span(call) /\ Span(call) \subseteq Offset /\ ~Refused(call)
  BY <1>1, PopBlock
<1> HIDE DEF h
<1>3. ~Refused(h)
  BY <1>2, WidthAssumption DEF Refused, BlockEnd, Ranges
<1> HIDE DEF B
<1>4. failures \in Seq(Ranges) /\ failures' \in Seq(Ranges)
  BY <1>1, <1>2 DEF IInv, TypeOK
<1>5. Lost' = Lost \cup B
  <2>1. LostIn(failures') = LostIn(failures) \cup B
    BY <1>1, <1>2, <1>3, <1>4, LostAppend DEF B
  <2> QED
    BY <2>1 DEF Lost, LostIn, Refused, Span
<1>6. CacheView' = CacheView /\ \A o : SegmentCovering(o)' = SegmentCovering(o)
  BY <1>1, ViewOfSegments, ViewNext
<1>7. TypeOK'
  BY <1>1, <1>2, <1>4 DEF IInv, TypeOK
<1>8. SegmentsCanonical'
  BY <1>1 DEF IInv, SegmentsCanonical, SegmentEnd
<1>9. WorkTilesGap'
  <2>1. \A i \in DOMAIN work' : \A o \in Span(work'[i]) : o \in WorkSpan(work')
    BY DEF WorkSpan
  <2>2. Tiles(work', gapEnd')
    BY <1>1, <1>2
  <2> QED
    BY <1>2, <1>6, <2>1, <2>2 DEF WorkTilesGap, Tiles, BlockEnd, Span
<1>10. ReadReturnsCache'
  BY <1>1 DEF ReadReturnsCache
<1>11. CallInv'
  <2>1. calls # 0 /\ call.op # "none" /\ ~Refused(call)'
    BY <1>1, <1>2 DEF IInv, CallInv, Refused
  <2> QED
    BY <1>1, <2>1 DEF CallInv
<1>12. FailedInv'
  BY <1>1, <1>2, <1>6 DEF FailedInv
<1>13. FirstFetchInv'
  <2> SUFFICES ASSUME calls = 1 PROVE FirstFetchInv'
    BY <1>1 DEF FirstFetchInv
  <2>1. /\ \A o \in Visited : CacheView[o] # Missing <=> o \notin Lost
        /\ \A o \in Offset \ Visited : CacheView[o] = Missing /\ o \notin Lost
        /\ \A i \in DOMAIN failures : ~Refused(failures[i]) /\ failures[i].length <= MinReadBlock
        /\ \A i, j \in DOMAIN failures : i # j => Span(failures[i]) \cap Span(failures[j]) = {}
    BY <1>2 DEF IInv, FirstFetchInv
  <2>2. /\ Len(failures) \in Nat /\ DOMAIN failures = 1..Len(failures)
        /\ DOMAIN failures' = 1..(Len(failures) + 1) /\ failures'[Len(failures) + 1] = h
        /\ \A i \in DOMAIN failures : failures'[i] = failures[i]
    BY <1>1, <1>2, <1>4
  <2>3. \A i \in DOMAIN failures' : i \in DOMAIN failures \/ i = Len(failures) + 1
    BY <2>2
  <2>4. \A i \in DOMAIN failures' : ~Refused(failures'[i]) /\ failures'[i].length <= MinReadBlock
    BY <1>1, <1>3, <2>1, <2>2, <2>3
  <2>5. \A i \in DOMAIN failures : Span(failures[i]) \cap Span(h) = {}
    <3>1. \A i \in DOMAIN failures : Span(failures[i]) \subseteq Lost
      BY <2>1 DEF Lost, Range
    <3>2. \A o \in B : o \notin Lost
      BY <1>2, <2>1
    <3> QED
      BY <3>1, <3>2 DEF B
  <2>6. \A i, j \in DOMAIN failures' : i # j => Span(failures'[i]) \cap Span(failures'[j]) = {}
    BY <2>1, <2>2, <2>3, <2>5
  <2>7. \A o \in Visited' : CacheView'[o] # Missing <=> o \notin Lost'
    BY <1>2, <1>5, <1>6, <2>1
  <2>8. \A o \in Offset \ Visited' : CacheView'[o] = Missing /\ o \notin Lost'
    BY <1>2, <1>5, <1>6, <2>1
  <2> QED
    BY <2>4, <2>6, <2>7, <2>8 DEF FirstFetchInv, Refused, Span
<1>14. Cache!GiveUp(B)
  <2>1. {o \in Remaining : CacheView[o] = Missing}' = {o \in Remaining : CacheView[o] = Missing} \ B
    BY <1>2, <1>6
  <2>2. calls # 0 /\ calls' = calls /\ pc' # "idle" /\ pc # "idle"
    BY <1>1 DEF IInv, CallInv
  <2>3. Refused(call)' = Refused(call)
    BY <1>1 DEF Refused
  <2> QED
    BY <1>2, <1>5, <1>6, <2>1, <2>2, <2>3 DEF Cache!GiveUp
<1>15. B \in SUBSET {o \in Remaining : CacheView[o] = Missing}
  BY <1>2
<1>16. IInv'
  BY <1>2, <1>7, <1>8, <1>9, <1>10, <1>11, <1>12, <1>13 DEF IInv
<1> QED
  BY <1>14, <1>15, <1>16, Zenon DEF Cache!GiveUp

(* The loop is over: every byte of the call has been visited.  first_failure *)
(* is set iff one of them is not cached, so that read's second ? never fails. *)
LEMMA ReturnStep ==
  ASSUME IInv, Return
  PROVE  IInv' /\ Cache!Return
<1> DEFINE bytes == SnapshotRead(call.offset, call.length)
<1>1. /\ pc = "loop" /\ pc' = "idle" /\ cursor = End
      /\ UNCHANGED <<segments, failures, call, cursor, gapEnd, work, failedYet, calls, gen>>
      /\ reply' = IF failedYet \/ (call.op = "read" /\ bytes = << >>)
                  THEN Reply("err", << >>)
                  ELSE Reply("ok", IF call.op = "read" THEN bytes ELSE << >>)
  BY DEF Return, snapshot, frame
<1>2. /\ ~Refused(call) /\ call.op # "none" /\ calls # 0 /\ Span(call) \subseteq Offset
      /\ call.offset \in Nat /\ call.length \in Nat /\ call.length # 0
      /\ call.offset + call.length <= U32Max /\ Canonical(segments)
      /\ End = call.offset + call.length /\ End \in Nat
  BY <1>1, StateFacts, WidthAssumption DEF IInv, CallInv, Refused, End
<1>3. Remaining = {} /\ Remaining' = {} /\ Visited = Span(call) /\ Visited' = Span(call)
  <2>1. Remaining = cursor..(End - 1)
    BY <1>1, RemainingFacts
  <2>2. Remaining = {}
    BY <1>1, <1>2, <2>1
  <2>3. Remaining' = {}
    BY <1>1 DEF Remaining
  <2>4. Span(call)' = Span(call)
    BY <1>1 DEF Span
  <2> QED
    BY <2>2, <2>3, <2>4 DEF Visited
<1>4. CacheView' = CacheView /\ Lost' = Lost
  BY <1>1, ViewOfSegments, ViewNext DEF Lost, Refused, Span
<1>5. failedYet <=> \E o \in Span(call) : CacheView[o] = Missing
  BY <1>1, <1>3 DEF IInv, FailedInv
<1>6. ~failedYet => bytes = Bytes(call.offset, call.offset + call.length)
  <2> SUFFICES ASSUME ~failedYet
               PROVE  bytes = Bytes(call.offset, call.offset + call.length)
    OBVIOUS
  <2>1. \A o \in Span(call) : SegmentCovering(o) # 0
    BY <1>2, <1>5, StateFacts
  <2>2. Span(call) = call.offset..(call.offset + call.length - 1)
    BY DEF Span
  <2> QED
    BY <1>2, <2>1, <2>2, SnapshotReadReturns
<1>7. Len(Bytes(call.offset, call.offset + call.length)) = call.length
      /\ Bytes(call.offset, call.offset + call.length) =
           [i \in 1..call.length |-> CacheView[call.offset + i - 1]]
  <2>1. (call.offset + call.length) - call.offset = call.length
    BY <1>2
  <2>2. Bytes(call.offset, call.offset + call.length) =
           [i \in 1..call.length |-> CacheView[call.offset + i - 1]]
    BY <2>1, ViewOfSegments DEF Bytes
  <2> QED
    BY <1>2, <2>2
<1> HIDE DEF bytes
<1>8. ~failedYet => bytes # << >>
  BY <1>2, <1>6, <1>7
<1>9. ~failedYet => bytes \in Seq(Byte)
  <2> SUFFICES ASSUME ~failedYet
               PROVE  [i \in 1..call.length |-> CacheView[call.offset + i - 1]] \in Seq(Byte)
    BY <1>6, <1>7
  <2>1. \A i \in 1..call.length : call.offset + i - 1 \in Span(call)
    BY <1>2 DEF Span
  <2>2. \A i \in 1..call.length : CacheView[call.offset + i - 1] \in Byte
    BY <1>2, <1>5, <2>1, StateFacts
  <2> QED
    BY <1>2, <2>2
<1>10. /\ failedYet => reply' = Reply("err", << >>)
       /\ ~failedYet => reply' = Reply("ok", IF call.op = "read" THEN bytes ELSE << >>)
  BY <1>1, <1>8
<1>11. /\ reply'.verdict = IF failedYet THEN "err" ELSE "ok"
       /\ ~failedYet /\ call.op = "read" => reply'.bytes = bytes
       /\ reply' \in [verdict: {"none", "ok", "err"}, bytes: Seq(Byte)]
  <2>1. CASE failedYet
    <3>1. reply' = [verdict |-> "err", bytes |-> << >>]
      BY <1>10, <2>1 DEF Reply
    <3> QED
      BY <2>1, <3>1
  <2>2. CASE ~failedYet
    <3> DEFINE given == IF call.op = "read" THEN bytes ELSE << >>
    <3>1. given \in Seq(Byte) /\ (call.op = "read" => given = bytes)
      BY <1>9, <2>2
    <3>2. reply' = [verdict |-> "ok", bytes |-> given]
      BY <1>10, <2>2 DEF Reply
    <3> HIDE DEF given
    <3> QED
      BY <2>2, <3>1, <3>2
  <2> QED
    BY <2>1, <2>2
<1>12. TypeOK'
  BY <1>1, <1>11 DEF IInv, TypeOK
<1>13. SegmentsCanonical' /\ WorkTilesGap' /\ CursorInv' /\ FailedInv'
  BY <1>1 DEF IInv, SegmentsCanonical, SegmentEnd, WorkTilesGap, CursorInv, FailedInv
<1>14. ReadReturnsCache'
  <2>1. reply'.verdict = "err" <=> failedYet
    BY <1>11
  <2> QED
    BY <1>1, <1>4, <1>6, <1>7, <1>11, <2>1 DEF ReadReturnsCache
<1>15. CallInv'
  BY <1>1, <1>2, <1>11 DEF CallInv
<1>16. FirstFetchInv'
  BY <1>1, <1>2, <1>3, <1>4 DEF IInv, FirstFetchInv, Refused, Span
<1>17. Cache!Return
  <2>1. {o \in Remaining : CacheView[o] = Missing} = {}
        /\ {o \in Remaining : CacheView[o] = Missing}' = {}
    BY <1>3
  <2>2. Refused(call)' = Refused(call) /\ Span(call)' = Span(call)
    BY <1>1 DEF Refused, Span
  <2>3. reply'.verdict = IF \A o \in Span(call) : CacheView[o] # Missing THEN "ok" ELSE "err"
    BY <1>5, <1>11
  <2> QED
    BY <1>1, <1>2, <1>4, <2>1, <2>2, <2>3 DEF Cache!Return, Cache!Cached
<1> QED
  BY <1>12, <1>13, <1>14, <1>15, <1>16, <1>17 DEF IInv

(* The reader sees what the device shows only when it reads a block. *)
LEMMA DeviceChangesStep ==
  ASSUME IInv, DeviceChanges \/ UNCHANGED vars
  PROVE  IInv' /\ UNCHANGED Cache!vars
<1>1. /\ gen' \in 0..MaxGen
      /\ UNCHANGED <<segments, failures, call, cursor, gapEnd, work, failedYet, pc, reply, calls>>
  BY WidthAssumption DEF DeviceChanges, vars, snapshot, frame, IInv, TypeOK
<1>2. /\ CacheView' = CacheView /\ Lost' = Lost /\ Remaining' = Remaining
      /\ Visited' = Visited /\ Span(call)' = Span(call) /\ Refused(call)' = Refused(call)
      /\ \A o : SegmentCovering(o)' = SegmentCovering(o)
  BY <1>1, ViewOfSegments, ViewNext DEF Lost, Refused, Span, Remaining, Visited, End
<1>3. UNCHANGED Cache!vars
  <2>1. {o \in Remaining : CacheView[o] = Missing}' = {o \in Remaining : CacheView[o] = Missing}
    BY <1>2
  <2> QED
    BY <1>1, <1>2, <2>1 DEF Cache!vars
<1>4. TypeOK' /\ SegmentsCanonical' /\ ReadReturnsCache' /\ CallInv' /\ CursorInv'
  BY <1>1, <1>2 DEF IInv, TypeOK, SegmentsCanonical, SegmentEnd, ReadReturnsCache, CallInv,
                    CursorInv, End, Refused
<1>5. WorkTilesGap' /\ FailedInv' /\ FirstFetchInv'
  BY <1>1, <1>2 DEF IInv, WorkTilesGap, FailedInv, FirstFetchInv, Span, Refused
<1> QED
  BY <1>3, <1>4, <1>5 DEF IInv

-----------------------------------------------------------------------------
(* The theorems *)

(* Every step keeps the invariant, and is a step of ConfigCache or changes  *)
(* nothing ConfigCache sees.                                                *)
LEMMA NextStep ==
  ASSUME IInv, [Next]_vars
  PROVE  IInv' /\ [Cache!Next]_(Cache!vars)
<1>1. CASE \E op \in {"fetch", "read"}, r \in Requests : RefuseCall(op, r[1], r[2])
  <2>1. PICK op \in {"fetch", "read"}, r \in Requests : RefuseCall(op, r[1], r[2])
    BY <1>1
  <2>2. r[1] \in 0..U32Max /\ r[2] \in 0..U32Max
    BY WidthAssumption
  <2>3. IInv' /\ Cache!Refuse
    BY <2>1, <2>2, RefuseCallStep
  <2> QED
    BY <2>3 DEF Cache!Next
<1>2. CASE \E op \in {"fetch", "read"}, r \in Requests : StartCall(op, r[1], r[2])
  <2>1. PICK op \in {"fetch", "read"}, r \in Requests : StartCall(op, r[1], r[2])
    BY <1>2
  <2>2. r[1] \in 0..U32Max /\ r[2] \in 0..U32Max
    BY WidthAssumption
  <2>3. IInv' /\ \E R \in SUBSET Offset : Cache!Begin(R)
    BY <2>1, <2>2, StartCallStep
  <2> QED
    BY <2>3 DEF Cache!Next
<1>3. CASE SkipCovered
  BY <1>3, SkipCoveredStep
<1>4. CASE OpenGap
  BY <1>4, OpenGapStep
<1>5. CASE ReadBlock
  BY <1>5, ReadBlockStep DEF Cache!Next
<1>6. CASE SplitBlock
  BY <1>6, SplitBlockStep
<1>7. CASE GiveUpBlock
  BY <1>7, GiveUpBlockStep DEF Cache!Next
<1>8. CASE CloseGap
  BY <1>8, CloseGapStep
<1>9. CASE Return
  BY <1>9, ReturnStep DEF Cache!Next
<1>10. CASE DeviceChanges \/ UNCHANGED vars
  BY <1>10, DeviceChangesStep
<1> QED
  BY <1>1, <1>2, <1>3, <1>4, <1>5, <1>6, <1>7, <1>8, <1>9, <1>10 DEF Next, ReaderStep

(* The inductive invariant holds in every reachable state of the reader,    *)
(* whatever the device refuses and however its bytes change.                *)
THEOREM Invariant == Spec => []IInv
<1>1. Init => IInv
  BY InitIInv
<1>2. IInv /\ [Next]_vars => IInv'
  BY NextStep
<1> QED
  BY <1>1, <1>2, PTL DEF Spec

(* The variables have their types: in particular no cursor, gap end or      *)
(* block of read_range passes the largest u32.                              *)
THEOREM TypeCorrect == Spec => []TypeOK
<1>1. IInv => TypeOK
  BY DEF IInv
<1> QED
  BY <1>1, Invariant, PTL

(* insert_segment keeps the segments sorted, non-empty and apart, although  *)
(* it may join a new one with the neighbour on each side.                   *)
THEOREM SegmentsStayCanonical == Spec => []SegmentsCanonical
<1>1. IInv => SegmentsCanonical
  BY DEF IInv
<1> QED
  BY <1>1, Invariant, PTL

(* Whatever was refused and split, the blocks on read_range's stack tile    *)
(* what is left of the gap, and none of their bytes is cached.              *)
THEOREM WorkAlwaysTilesGap == Spec => []WorkTilesGap
<1>1. IInv => WorkTilesGap
  BY DEF IInv
<1> QED
  BY <1>1, Invariant, PTL

(* read returns the cached bytes of its range in order, and fails only if   *)
(* a block of this very fetch was given up.                                 *)
THEOREM ReadsReturnCache == Spec => []ReadReturnsCache
<1>1. IInv => ReadReturnsCache
  BY DEF IInv
<1> QED
  BY <1>1, Invariant, PTL

(* After the one fetch of Session::read_config the segments and the         *)
(* failures share out the requested range without an overlap.               *)
THEOREM FirstFetchSharesOut == Spec => []FirstFetchPartitions
<1>1. ASSUME IInv PROVE FirstFetchPartitions
  <2> SUFFICES ASSUME pc = "idle", calls = 1, ~Refused(call) PROVE FirstFetchPartitions
    BY DEF FirstFetchPartitions
  <2>1. Visited = Span(call)
    BY <1>1, RemainingFacts DEF Visited
  <2> QED
    BY <1>1, <2>1 DEF IInv, FirstFetchInv, FirstFetchPartitions
<1> QED
  BY <1>1, Invariant, PTL

(* The hex dump has each cached byte once, in the row and the column of its  *)
(* offset, and no other, wherever refused blocks cut the segments and       *)
(* however long a row is.                                                   *)
THEOREM DumpAlwaysShowsCache == Spec => []DumpShowsCache
<1>1. IInv => DumpShowsCache
  <2>1. IInv => Canonical(segments)
    BY CanonicalIs DEF IInv
  <2> QED
    BY <2>1, DumpRenders
<1> QED
  BY <1>1, Invariant, PTL

(* Segments, cursor and work stack keep ConfigCache's promise: each step of *)
(* the reader is a step of ConfigCache, or leaves what it promises alone.   *)
THEOREM Refinement == Spec => RefinesCache
<1>1. Init => Cache!Init
  BY InitIInv
<1>2. IInv /\ [Next]_vars => [Cache!Next]_(Cache!vars)
  BY NextStep
<1> QED
  BY <1>1, <1>2, Invariant, PTL DEF Spec, RefinesCache

(* First read wins, of the reader itself: no later block, merge or retry    *)
(* drops or replaces a cached byte, and no recorded failure is withdrawn.   *)
THEOREM FirstReadWins == Spec => Cache!CachedForever
<1> DEFINE Keeps == /\ \A o \in Offset : CacheView[o] # Missing => CacheView'[o] = CacheView[o]
                    /\ Lost \subseteq Lost'
<1>1. ASSUME IInv, [Next]_vars PROVE [Keeps]_(Cache!vars)
  <2>1. [Cache!Next]_(Cache!vars)
    BY <1>1, NextStep
  <2> SUFFICES ASSUME Cache!Next PROVE Keeps
    BY <2>1
  <2>2. CASE \E R \in SUBSET Offset : Cache!Begin(R)
    BY <2>2 DEF Cache!Begin
  <2>3. CASE Cache!Refuse
    BY <2>3 DEF Cache!Refuse
  <2>4. CASE \E B \in SUBSET {o \in Remaining : CacheView[o] = Missing} : Cache!Load(B)
    <3>1. PICK B \in SUBSET {o \in Remaining : CacheView[o] = Missing} : Cache!Load(B)
      BY <2>4
    <3>2. \A o \in Offset \ B : CacheView'[o] = CacheView[o]
      BY <3>1 DEF Cache!Load
    <3>3. Lost' = Lost
      BY <3>1 DEF Cache!Load
    <3> QED
      BY <3>2, <3>3
  <2>5. CASE \E B \in SUBSET {o \in Remaining : CacheView[o] = Missing} : Cache!GiveUp(B)
    BY <2>5 DEF Cache!GiveUp
  <2>6. CASE Cache!Return
    BY <2>6 DEF Cache!Return
  <2> QED
    BY <2>2, <2>3, <2>4, <2>5, <2>6 DEF Cache!Next
<1>2. [Keeps]_(Cache!vars) => [/\ \A o \in Offset : Cache!Cached(o) => CacheView'[o] = CacheView[o]
                               /\ Lost \subseteq Lost']_(Cache!vars)
  BY DEF Cache!Cached
<1> QED
  BY <1>1, <1>2, Invariant, PTL DEF Spec, Cache!CachedForever
=============================================================================
