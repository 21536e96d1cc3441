---------------------------- MODULE TuiAppProofs ----------------------------
(***************************************************************************)
(* Proofs about TuiApp: the list on the screen is the one that the filter  *)
(* and the unfolded rows call for, the detail pane follows the cursor, the *)
(* cursor is on the screen and stays on its row when one is folded, and    *)
(* the terminal is restored, for every forest of rows and every height.    *)
(* The pane shows the plain report, and in colours what failed in red, for *)
(* every report that inspecting a device can give.                         *)
(*                                                                         *)
(* visible_rows jumps over whole subtrees by depth alone.  The proof that  *)
(* it finds the right rows goes from depths to ancestors: in a forest in   *)
(* preorder, the rows before the next sibling of a row are the row and     *)
(* those it is an ancestor of.                                             *)
(*                                                                         *)
(* The pane is scanned from text with escape sequences.  The proof gives   *)
(* each part of a line a meaning that does not depend on where the part    *)
(* stands: the text it shows, the style of each piece of it and the style  *)
(* it leaves behind.  The meaning of a line follows from those of its      *)
(* parts, and shows it to be the plain line with its failure, if any, red. *)
(***************************************************************************)
EXTENDS TuiApp, SequenceTheorems, WellFoundedInduction, TLAPS

-----------------------------------------------------------------------------
(* Least elements, and induction stated about a set of numbers: to show    *)
(* P(n) for all n, apply Induct to {n \in Nat : P(n)}.                      *)

(* A non-empty set of natural numbers has a least element.                 *)
LEMMA Least ==
  ASSUME NEW T \in SUBSET Nat, T # {}
  PROVE  \E x \in T : \A y \in T : x <= y
<1> DEFINE R == OpToRel(<, Nat)
<1>1. IsWellFoundedOn(R, Nat)
  BY NatLessThanWellFounded
<1>2. \A x, y \in Nat : x < y => <<x, y>> \in R
  BY DEF OpToRel
<1> HIDE DEF R
<1>3. PICK x \in T : \A y \in T : ~ (<<y, x>> \in R)
  BY <1>1, WFMin
<1>4. \A y \in T : ~ (y < x)
  BY <1>2, <1>3
<1>5. \A y \in T : x <= y
  BY <1>4
<1> QED
  BY <1>5, Zenon

(* A set with 0 and with the successor of each of its members is all of Nat. *)
LEMMA Induct ==
  ASSUME NEW S, 0 \in S, \A n \in Nat : n \in S => n + 1 \in S
  PROVE  \A n \in Nat : n \in S
<1> DEFINE T == {n \in Nat : n \notin S}
<1> SUFFICES ASSUME T # {} PROVE FALSE
  OBVIOUS
<1>1. PICK x \in T : \A y \in T : x <= y
  <2>1. T \in SUBSET Nat
    OBVIOUS
  <2> HIDE DEF T
  <2> QED
    BY <2>1, Least
<1>2. x # 0 /\ x \in Nat /\ x \notin S
  BY <1>1
<1>3. x - 1 \in Nat /\ x - 1 \in S
  BY <1>1, <1>2
<1> QED
  BY <1>2, <1>3

(* A set that has each number whenever it has all below it is all of Nat.   *)
LEMMA StrongInduct ==
  ASSUME NEW S, \A n \in Nat : (\A m \in 0..(n - 1) : m \in S) => n \in S
  PROVE  \A n \in Nat : n \in S
<1> DEFINE T == {n \in Nat : n \notin S}
<1> SUFFICES ASSUME T # {} PROVE FALSE
  OBVIOUS
<1>1. PICK x \in T : \A y \in T : x <= y
  <2>1. T \in SUBSET Nat
    OBVIOUS
  <2> HIDE DEF T
  <2> QED
    BY <2>1, Least
<1>2. \A m \in 0..(x - 1) : m \in S
  BY <1>1
<1> QED
  BY <1>1, <1>2

(* The operator Min returns the least member of a set of naturals.          *)
LEMMA MinIsLeast ==
  ASSUME NEW T \in SUBSET Nat, T # {}
  PROVE  /\ Min(T) \in T
         /\ \A y \in T : Min(T) <= y
BY Least DEF Min

-----------------------------------------------------------------------------
(* Sequences that list a set of numbers in increasing order. *)

Lists(s, A) ==
  /\ s \in Seq(Nat)
  /\ \A k, l \in DOMAIN s : k < l => s[k] < s[l]
  /\ \A k \in DOMAIN s : s[k] \in A
  /\ \A x \in A : \E k \in DOMAIN s : s[k] = x

From(A, i) == {x \in A : i <= x}

(* A smaller number in front of such a list.                               *)
LEMMA Prepend ==
  ASSUME NEW i \in Nat, NEW A \in SUBSET Nat, NEW s, Lists(s, A), \A x \in A : i < x
  PROVE  Lists(<<i>> \o s, {i} \cup A)
<1> DEFINE h == <<i>>
           t == h \o s
<1>1. s \in Seq(Nat) /\ Len(s) \in Nat /\ DOMAIN s = 1..Len(s)
  BY DEF Lists
<1>2. h \in Seq(Nat) /\ Len(h) = 1 /\ h[1] = i
  OBVIOUS
<1> HIDE DEF h
<1>3. /\ t \in Seq(Nat) /\ Len(t) = 1 + Len(s)
      /\ \A k \in 1..(1 + Len(s)) : t[k] = IF k <= 1 THEN h[k] ELSE s[k - 1]
  <2>1. /\ h \o s \in Seq(Nat) /\ Len(h \o s) = Len(h) + Len(s)
        /\ \A k \in 1..(Len(h) + Len(s)) :
             (h \o s)[k] = IF k <= Len(h) THEN h[k] ELSE s[k - Len(h)]
    BY <1>1, <1>2, ConcatProperties
  <2> QED
    BY <1>2, <2>1
<1> HIDE DEF t
<1>4. DOMAIN t = 1..(1 + Len(s)) /\ t[1] = i
  BY <1>1, <1>2, <1>3
<1>5. \A k \in 2..(1 + Len(s)) : t[k] = s[k - 1] /\ k - 1 \in DOMAIN s
  BY <1>1, <1>3
<1>6. \A k \in DOMAIN t : k = 1 \/ k \in 2..(1 + Len(s))
  BY <1>1, <1>4
<1>7. \A k \in DOMAIN s : s[k] \in A
  BY DEF Lists
<1>8. \A k \in DOMAIN t : t[k] \in {i} \cup A
  BY <1>4, <1>5, <1>6, <1>7
<1>9. ASSUME NEW k \in DOMAIN t, NEW l \in DOMAIN t, k < l PROVE t[k] < t[l]
  <2>1. l \in 2..(1 + Len(s))
    BY <1>1, <1>4, <1>9
  <2>2. CASE k = 1
    BY <1>4, <1>5, <1>7, <2>1, <2>2
  <2>3. CASE k \in 2..(1 + Len(s))
    <3>1. k - 1 \in DOMAIN s /\ l - 1 \in DOMAIN s /\ k - 1 < l - 1
      BY <1>1, <1>5, <1>9, <2>1, <2>3
    <3>2. s[k - 1] < s[l - 1]
      BY <3>1 DEF Lists
    <3> QED
      BY <1>5, <2>1, <2>3, <3>2
  <2> QED
    BY <1>6, <2>2, <2>3
<1>10. ASSUME NEW x \in {i} \cup A PROVE \E k \in DOMAIN t : t[k] = x
  <2>1. CASE x = i
    BY <1>1, <1>4, <2>1
  <2>2. CASE x \in A
    <3>1. PICK k \in DOMAIN s : s[k] = x
      BY <2>2 DEF Lists
    <3>2. k + 1 \in 2..(1 + Len(s)) /\ (k + 1) - 1 = k
      BY <1>1
    <3>3. t[k + 1] = x /\ k + 1 \in DOMAIN t
      BY <1>1, <1>4, <1>5, <3>1, <3>2
    <3> QED
      BY <3>3
  <2> QED
    BY <2>1, <2>2
<1>11. Lists(t, {i} \cup A)
  BY <1>3, <1>8, <1>9, <1>10 DEF Lists
<1> QED
  BY <1>11 DEF t, h

(* Two such lists of sets that agree up to i have i at the same place. *)
LEMMA SamePlace ==
  ASSUME NEW A \in SUBSET Nat, NEW B \in SUBSET Nat, NEW s, NEW t, Lists(s, A), Lists(t, B),
         NEW i \in Nat, \A x \in 0..i : x \in A <=> x \in B,
         NEW k \in DOMAIN s, s[k] = i
  PROVE  k \in DOMAIN t /\ t[k] = i
<1>1. /\ s \in Seq(Nat) /\ Len(s) \in Nat /\ DOMAIN s = 1..Len(s)
      /\ t \in Seq(Nat) /\ Len(t) \in Nat /\ DOMAIN t = 1..Len(t)
  BY DEF Lists
<1>2. /\ \A m \in DOMAIN s : s[m] \in Nat /\ s[m] \in A
      /\ \A m \in DOMAIN t : t[m] \in Nat /\ t[m] \in B
      /\ \A m, l \in DOMAIN s : m < l => s[m] < s[l]
      /\ \A m, l \in DOMAIN t : m < l => t[m] < t[l]
      /\ \A x \in A : \E m \in DOMAIN s : s[m] = x
      /\ \A x \in B : \E m \in DOMAIN t : t[m] = x
  BY DEF Lists
<1> DEFINE D == {n \in Nat : n \in DOMAIN s /\ s[n] <= i => n \in DOMAIN t /\ t[n] = s[n]}
<1>3. ASSUME NEW n \in Nat, \A m \in 0..(n - 1) : m \in D PROVE n \in D
  <2> SUFFICES ASSUME n \in DOMAIN s, s[n] <= i PROVE n \in DOMAIN t /\ t[n] = s[n]
    OBVIOUS
  <2>1. \A m \in 1..(n - 1) : m \in DOMAIN s /\ m \in DOMAIN t /\ t[m] = s[m] /\ s[m] < s[n]
    <3> TAKE m \in 1..(n - 1)
    <3>1. m \in DOMAIN s /\ m \in 0..(n - 1) /\ m < n
      BY <1>1
    <3>2. s[m] < s[n] /\ s[m] \in Nat /\ s[n] \in Nat
      BY <1>2, <3>1
    <3> QED
      BY <1>3, <3>1, <3>2
  <2>2. s[n] \in B
    BY <1>2
  <2>3. PICK l \in DOMAIN t : t[l] = s[n]
    BY <1>2, <2>2
  <2>4. n <= l
    <3>1. ~(l \in 1..(n - 1))
      BY <1>2, <2>1, <2>3
    <3> QED
      BY <1>1, <3>1
  <2>5. n \in DOMAIN t
    BY <1>1, <2>4
  <2>6. t[n] <= s[n] /\ t[n] \in Nat
    <3>1. n # l => t[n] < t[l]
      <4>1. n # l => n < l
        BY <1>1, <2>4
      <4> QED
        BY <1>2, <2>5, <4>1
    <3>2. t[n] \in Nat /\ t[l] \in Nat
      BY <1>2, <2>5
    <3> QED
      BY <2>3, <3>1, <3>2
  <2>7. t[n] \in A
    BY <1>2, <2>5, <2>6
  <2>8. PICK m \in DOMAIN s : s[m] = t[n]
    BY <1>2, <2>7
  <2>9. n <= m
    <3>1. m \in 1..(n - 1) => t[m] = t[n] /\ m \in DOMAIN t /\ m < n
      BY <2>1, <2>8
    <3>2. ~(m \in 1..(n - 1))
      BY <1>2, <2>5, <3>1
    <3> QED
      BY <1>1, <3>2
  <2>10. s[n] <= s[m] /\ s[n] \in Nat /\ s[m] \in Nat
    <3>1. n # m => s[n] < s[m]
      <4>1. n # m => n < m
        BY <1>1, <2>9
      <4> QED
        BY <1>2, <4>1
    <3>2. s[n] \in Nat /\ s[m] \in Nat
      BY <1>2
    <3> QED
      BY <3>1, <3>2
  <2> QED
    BY <1>2, <2>5, <2>6, <2>8, <2>10
<1> HIDE DEF D
<1>4. \A n \in Nat : n \in D
  BY <1>3, StrongInduct
<1> QED
  BY <1>1, <1>4 DEF D

-----------------------------------------------------------------------------
(* Functions defined by recursion on a smaller or a greater number.        *)

(* A walk from i to 1 along par, which leads down. *)
LEMMA DownExists ==
  ASSUME NEW n \in Nat, NEW par, \A j \in 1..n : par[j] \in 0..(j - 1)
  PROVE  \E f : f = [j \in 0..n |-> IF j = 0 THEN {} ELSE {j} \cup f[par[j]]]
<1> DEFINE Turn(g, j) == IF j = 0 THEN {} ELSE {j} \cup g[par[j]]
           Rec(g, k) == g = [j \in 0..k |-> Turn(g, j)]
           D == {k \in Nat : k <= n => \E g : Rec(g, k)}
<1>1. 0 \in D
  <2>1. Rec([j \in 0..0 |-> {}], 0)
    OBVIOUS
  <2> QED
    BY <2>1
<1>2. ASSUME NEW k \in Nat, k \in D PROVE k + 1 \in D
  <2> SUFFICES ASSUME k + 1 <= n PROVE \E h : Rec(h, k + 1)
    OBVIOUS
  <2>1. PICK g : Rec(g, k)
    <3> HIDE DEF Rec
    <3> QED
      BY <1>2
  <2> DEFINE h == [j \in 0..(k + 1) |-> IF j = k + 1 THEN Turn(g, k + 1) ELSE g[j]]
  <2>2. \A j \in 1..(k + 1) : par[j] \in 0..k /\ par[j] # k + 1
    <3> TAKE j \in 1..(k + 1)
    <3>1. par[j] \in 0..(j - 1)
      OBVIOUS
    <3> QED
      BY <3>1
  <2>3. \A j \in 0..(k + 1) : Turn(h, j) = Turn(g, j)
    <3> TAKE j \in 0..(k + 1)
    <3>1. j # 0 => h[par[j]] = g[par[j]]
      BY <2>2
    <3> HIDE DEF h
    <3> QED
      BY <3>1
  <2>4. \A j \in 0..k : g[j] = Turn(g, j)
    <3> HIDE DEF Turn
    <3> QED
      BY <2>1
  <2>5. \A j \in 0..(k + 1) : h[j] = Turn(h, j)
    <3> TAKE j \in 0..(k + 1)
    <3>1. h[j] = IF j = k + 1 THEN Turn(g, k + 1) ELSE g[j]
      OBVIOUS
    <3>2. j # k + 1 => j \in 0..k
      OBVIOUS
    <3>3. h[j] = Turn(g, j)
      <4> HIDE DEF Turn, h
      <4> QED
        BY <2>4, <3>1, <3>2
    <3> HIDE DEF Turn, h
    <3> QED
      BY <2>3, <3>3
  <2>6. h = [j \in 0..(k + 1) |-> h[j]]
    OBVIOUS
  <2> HIDE DEF Turn, h
  <2>7. Rec(h, k + 1)
    BY <2>5, <2>6
  <2> HIDE DEF Rec
  <2> QED
    BY <2>7
<1> HIDE DEF D
<1>3. n \in D
  BY <1>1, <1>2, Induct
<1> QED
  BY <1>3 DEF D

(* A walk from i to the end n + 1 along next, which leads up, collecting C. *)
Collects(f, n, next, C) ==
  f = [i \in 1..(n + 1) |-> IF i > n THEN << >> ELSE C[i] \o f[next[i]]]

(* Each such walk has an end, so the function collecting C exists.          *)
LEMMA UpExists ==
  ASSUME NEW n \in Nat, NEW next, NEW C, \A i \in 1..n : next[i] \in (i + 1)..(n + 1)
  PROVE  \E f : Collects(f, n, next, C)
<1> DEFINE Turn(g, i) == IF i > n THEN << >> ELSE C[i] \o g[next[i]]
           Rec(g, k) == g = [i \in ((n + 1) - k)..(n + 1) |-> Turn(g, i)]
           D == {k \in Nat : k <= n => \E g : Rec(g, k)}
<1>1. 0 \in D
  <2>1. (n + 1) - 0 = n + 1 /\ \A i \in (n + 1)..(n + 1) : i > n
    OBVIOUS
  <2>2. Rec([i \in (n + 1)..(n + 1) |-> << >>], 0)
    BY <2>1
  <2> QED
    BY <2>2
<1>2. ASSUME NEW k \in Nat, k \in D PROVE k + 1 \in D
  <2> SUFFICES ASSUME k + 1 <= n PROVE \E h : Rec(h, k + 1)
    <3>1. k + 1 \in Nat
      OBVIOUS
    <3> HIDE DEF Rec
    <3> QED
      BY <3>1
  <2> DEFINE a == (n + 1) - (k + 1)
  <2>0. a \in 1..n /\ (n + 1) - k = a + 1 /\ a + 1 \in 1..(n + 1)
    OBVIOUS
  <2> HIDE DEF a
  <2>1. PICK g : Rec(g, k)
    <3> HIDE DEF Rec
    <3> QED
      BY <1>2
  <2> DEFINE h == [i \in a..(n + 1) |-> IF i = a THEN Turn(g, a) ELSE g[i]]
  <2>2. \A i \in a..n : next[i] \in (a + 1)..(n + 1) /\ next[i] # a /\ next[i] \in a..(n + 1)
    <3> TAKE i \in a..n
    <3>1. i \in 1..n
      BY <2>0
    <3>2. next[i] \in (i + 1)..(n + 1)
      BY <3>1
    <3> QED
      BY <2>0, <3>2
  <2>3. \A i \in a..(n + 1) : Turn(h, i) = Turn(g, i)
    <3> TAKE i \in a..(n + 1)
    <3>1. i <= n => h[next[i]] = g[next[i]]
      BY <2>0, <2>2
    <3> HIDE DEF h
    <3> QED
      BY <2>0, <3>1
  <2>4. \A i \in (a + 1)..(n + 1) : g[i] = Turn(g, i)
    <3> HIDE DEF Turn
    <3> QED
      BY <2>0, <2>1
  <2>5. \A i \in a..(n + 1) : h[i] = Turn(h, i)
    <3> TAKE i \in a..(n + 1)
    <3>1. h[i] = IF i = a THEN Turn(g, a) ELSE g[i]
      OBVIOUS
    <3>2. i # a => i \in (a + 1)..(n + 1)
      BY <2>0
    <3>3. h[i] = Turn(g, i)
      <4> HIDE DEF Turn, h
      <4> QED
        BY <2>4, <3>1, <3>2
    <3> HIDE DEF Turn, h
    <3> QED
      BY <2>3, <3>3
  <2>6. h = [i \in a..(n + 1) |-> h[i]]
    OBVIOUS
  <2> HIDE DEF Turn, h
  <2>7. h = [i \in a..(n + 1) |-> Turn(h, i)]
    BY <2>5, <2>6
  <2>8. Rec(h, k + 1)
    BY <2>7 DEF a
  <2> HIDE DEF Rec
  <2> QED
    BY <2>8
<1> HIDE DEF D
<1>3. n \in D
  BY <1>1, <1>2, Induct
<1>4. CASE n = 0
  <2>1. \A i \in 1..(n + 1) : i > n
    BY <1>4
  <2> DEFINE f == [i \in 1..(n + 1) |-> << >>]
  <2>2. f = [i \in 1..(n + 1) |-> Turn(f, i)]
    BY <2>1
  <2> QED
    BY <2>2 DEF Collects
<1>5. CASE n # 0
  <2>1. PICK g : Rec(g, n)
    <3> HIDE DEF Rec
    <3> QED
      BY <1>3 DEF D
  <2>2. (n + 1) - n = 1
    OBVIOUS
  <2>3. g = [i \in 1..(n + 1) |-> Turn(g, i)]
    <3> HIDE DEF Turn
    <3> QED
      BY <2>1, <2>2
  <2> QED
    BY <2>3 DEF Collects
<1> QED
  BY <1>4, <1>5

(* A walk from row to row, keeping the rows of K on its way, lists the rows  *)
(* of K from where it starts: it passes over none of them.                  *)
LEMMA WalkLists ==
  ASSUME NEW n \in Nat, NEW K \in SUBSET (1..n), NEW R, NEW next, NEW f,
         \A i \in 1..(n + 1) : i \in R =>
           f[i] = IF i > n THEN << >> ELSE (IF i \in K THEN <<i>> ELSE << >>) \o f[next[i]],
         \A i \in 1..n : i \in R => /\ next[i] \in (i + 1)..(n + 1) /\ next[i] \in R
                                    /\ \A j \in K : i < j => next[i] <= j
  PROVE  \A i \in 1..(n + 1) : i \in R => Lists(f[i], From(K, i))
<1> DEFINE D == {k \in Nat : \A i \in 1..(n + 1) : i = (n + 1) - k /\ i \in R => Lists(f[i], From(K, i))}
<1>1. ASSUME NEW k \in Nat, \A m \in 0..(k - 1) : m \in D PROVE k \in D
  <2> SUFFICES ASSUME NEW i \in 1..(n + 1), i = (n + 1) - k, i \in R
               PROVE  Lists(f[i], From(K, i))
    OBVIOUS
  <2>1. CASE i > n
    <3>1. f[i] = << >>
      BY <2>1
    <3>2. From(K, i) = {}
      <4>1. \A x \in K : ~(i <= x)
        BY <2>1
      <4> QED
        BY <4>1, Zenon DEF From
    <3>3. << >> \in Seq(Nat) /\ DOMAIN << >> = {}
      BY EmptySeq
    <3>4. Lists(<< >>, {})
      BY <3>3 DEF Lists
    <3> QED
      BY <3>1, <3>2, <3>4
  <2>2. CASE ~(i > n)
    <3> DEFINE m == next[i]
    <3>1. /\ i \in 1..n /\ m \in (i + 1)..(n + 1) /\ m \in R
          /\ \A j \in K : i < j => m <= j
      BY <2>2
    <3>2. f[i] = (IF i \in K THEN <<i>> ELSE << >>) \o f[m]
      BY <2>2
    <3> HIDE DEF m
    <3>3. Lists(f[m], From(K, m))
      <4>1. (n + 1) - m \in 0..(k - 1) /\ m = (n + 1) - ((n + 1) - m) /\ m \in 1..(n + 1)
        BY <3>1
      <4>2. (n + 1) - m \in D
        BY <1>1, <4>1
      <4> QED
        BY <3>1, <4>1, <4>2
    <3>4. From(K, m) \in SUBSET Nat /\ \A x \in From(K, m) : i < x
      <4>1. \A x \in K : x \in Nat /\ (m <= x => i < x)
        BY <3>1
      <4> QED
        BY <4>1, Zenon DEF From
    <3>5. From(K, i) = IF i \in K THEN {i} \cup From(K, m) ELSE From(K, m)
      <4>1. \A j \in K : j \in Nat /\ (i <= j <=> j = i \/ m <= j)
        BY <3>1
      <4> QED
        BY <4>1, Zenon DEF From
    <3>6. CASE i \in K
      <4>1. Lists(<<i>> \o f[m], {i} \cup From(K, m))
        BY <3>3, <3>4, Prepend
      <4> QED
        BY <3>2, <3>5, <3>6, <4>1
    <3>7. CASE i \notin K
      <4>1. << >> \o f[m] = f[m]
        BY <3>3, ConcatEmptySeq DEF Lists
      <4> QED
        BY <3>2, <3>3, <3>5, <3>7, <4>1
    <3> QED
      BY <3>6, <3>7
  <2> QED
    BY <2>1, <2>2
<1> HIDE DEF D
<1>2. \A k \in Nat : k \in D
  BY <1>1, StrongInduct
<1> SUFFICES ASSUME NEW i \in 1..(n + 1), i \in R PROVE Lists(f[i], From(K, i))
  OBVIOUS
<1>3. (n + 1) - i \in Nat /\ i = (n + 1) - ((n + 1) - i)
  OBVIOUS
<1>4. (n + 1) - i \in D
  BY <1>2, <1>3
<1> QED
  BY <1>3, <1>4 DEF D

-----------------------------------------------------------------------------
(* Forests in preorder: n rows with the depths d, the parents p (0 of a     *)
(* root), the next siblings ns; a gives a row and its ancestors.            *)

Forest(n, d, p, ns, a) ==
  /\ n \in Nat
  /\ \A i \in 1..n : d[i] \in Nat /\ p[i] \in 0..(i - 1) /\ (d[i] = 0 => p[i] = 0)
  /\ \A i \in 1..n : d[i] # 0 =>
       /\ p[i] # 0 /\ d[p[i]] = d[i] - 1
       /\ \A j \in (p[i] + 1)..(i - 1) : d[j] > d[p[i]]
  /\ \A i \in 1..n : ns[i] \in (i + 1)..(n + 1)
  /\ \A i \in 1..n : \A j \in (i + 1)..(ns[i] - 1) : d[j] > d[i]
  /\ \A i \in 1..n : ns[i] <= n => d[ns[i]] <= d[i]
  /\ a[0] = {}
  /\ \A j \in 1..n : a[j] = {j} \cup a[p[j]]

(* i is an ancestor of j iff j comes after i and before i's next sibling.   *)
LEMMA AncestorsAround ==
  ASSUME NEW n, NEW d, NEW p, NEW ns, NEW a, Forest(n, d, p, ns, a)
  PROVE  \A j \in 1..n : \A i \in Nat :
           i \in a[p[j]] <=> i \in 1..n /\ i < j /\ j < ns[i]
<1>1. /\ n \in Nat
      /\ \A i \in 1..n : d[i] \in Nat /\ p[i] \in 0..(i - 1) /\ (d[i] = 0 => p[i] = 0)
      /\ \A i \in 1..n : d[i] # 0 =>
           /\ p[i] # 0 /\ d[p[i]] = d[i] - 1
           /\ \A j \in (p[i] + 1)..(i - 1) : d[j] > d[p[i]]
      /\ \A i \in 1..n : ns[i] \in (i + 1)..(n + 1)
      /\ \A i \in 1..n : \A j \in (i + 1)..(ns[i] - 1) : d[j] > d[i]
      /\ \A i \in 1..n : ns[i] <= n => d[ns[i]] <= d[i]
      /\ a[0] = {}
      /\ \A j \in 1..n : a[j] = {j} \cup a[p[j]]
  BY DEF Forest
<1> DEFINE Around(i, j) == i \in a[p[j]] <=> i \in 1..n /\ i < j /\ j < ns[i]
           D == {j \in Nat : j \in 1..n => \A i \in Nat : Around(i, j)}
<1>2. ASSUME NEW j \in Nat, \A m \in 0..(j - 1) : m \in D PROVE j \in D
  <2> SUFFICES ASSUME j \in 1..n, NEW i \in Nat PROVE Around(i, j)
    OBVIOUS
  <2> DEFINE q == p[j]
  <2>1. /\ q \in 0..(j - 1) /\ d[j] \in Nat /\ (d[j] = 0 => q = 0)
        /\ d[j] # 0 => /\ q # 0 /\ d[q] = d[j] - 1
                       /\ \A m \in (q + 1)..(j - 1) : d[m] > d[q]
    BY <1>1
  <2> HIDE DEF q
  <2>2. CASE q = 0
    <3>1. d[j] = 0 /\ a[q] = {}
      BY <1>1, <2>1, <2>2
    <3>2. ~(i \in 1..n /\ i < j /\ j < ns[i])
      <4> SUFFICES ASSUME i \in 1..n, i < j, j < ns[i] PROVE FALSE
        OBVIOUS
      <4>1. j \in (i + 1)..(ns[i] - 1) /\ d[i] \in Nat
        BY <1>1
      <4>2. d[j] > d[i]
        BY <1>1, <4>1
      <4> QED
        BY <3>1, <4>1, <4>2
    <3> QED
      BY <3>1, <3>2 DEF q
  <2>3. CASE q # 0
    <3>1. /\ q \in 1..n /\ q \in 0..(j - 1) /\ q < j /\ d[q] \in Nat /\ d[j] = d[q] + 1
          /\ \A m \in (q + 1)..j : d[m] > d[q]
      <4>1. q \in 1..n /\ q < j /\ q \in 0..(j - 1)
        BY <1>1, <2>1, <2>3
      <4>2. d[q] \in Nat /\ d[j] = d[q] + 1
        BY <1>1, <2>1, <2>3, <4>1
      <4>3. \A m \in (q + 1)..j : m = j \/ m \in (q + 1)..(j - 1)
        BY <4>1
      <4>4. \A m \in (q + 1)..(j - 1) : d[m] > d[q]
        BY <2>1, <4>2
      <4>5. d[j] > d[q]
        BY <4>2
      <4> QED
        BY <4>1, <4>2, <4>3, <4>4, <4>5
    <3>2. a[q] = {q} \cup a[p[q]]
      BY <1>1, <3>1
    <3>3. Around(i, q)
      BY <1>2, <3>1
    <3>4. ASSUME i \in a[q] PROVE i \in 1..n /\ i < j /\ j < ns[i]
      <4>1. i \in 1..n /\ i <= q /\ q < ns[i] /\ ns[i] \in (i + 1)..(n + 1)
        <5>1. CASE i = q
          BY <1>1, <3>1, <5>1
        <5>2. CASE i # q
          BY <1>1, <3>1, <3>2, <3>3, <3>4, <5>2
        <5> QED
          BY <5>1, <5>2
      <4>2. d[i] <= d[q] /\ d[i] \in Nat
        <5>1. i # q => q \in (i + 1)..(ns[i] - 1)
          BY <3>1, <4>1
        <5>2. i # q => d[q] > d[i]
          BY <1>1, <4>1, <5>1
        <5>3. d[i] \in Nat
          BY <1>1, <4>1
        <5> QED
          BY <3>1, <5>2, <5>3
      <4>3. j < ns[i]
        <5> SUFFICES ASSUME ~(j < ns[i]) PROVE FALSE
          OBVIOUS
        <5>1. ns[i] \in (q + 1)..j /\ ns[i] \in 1..n /\ ns[i] <= n
          <6> DEFINE x == ns[i]
          <6>1. /\ x \in (i + 1)..(n + 1) /\ q < x /\ ~(j < x)
                /\ n \in Nat /\ q \in 0..(j - 1) /\ i \in Nat
            BY <1>1, <3>1, <4>1
          <6> HIDE DEF x
          <6>2. x \in (q + 1)..j /\ x \in 1..n /\ x <= n
            BY <6>1
          <6> QED
            BY <6>2 DEF x
        <5>2. d[ns[i]] > d[q] /\ d[ns[i]] <= d[i] /\ d[ns[i]] \in Nat
          BY <1>1, <3>1, <4>1, <5>1
        <5> QED
          BY <3>1, <4>2, <5>2
      <4> QED
        BY <3>1, <4>1, <4>3
    <3>5. ASSUME i \in 1..n, i < j, j < ns[i] PROVE i \in a[q]
      <4>1. d[j] > d[i] /\ d[i] \in Nat
        <5>1. j \in (i + 1)..(ns[i] - 1)
          BY <1>1, <3>5
        <5> QED
          BY <1>1, <3>5, <5>1
      <4>2. ~(i > q)
        <5> SUFFICES ASSUME i > q PROVE FALSE
          OBVIOUS
        <5>1. i \in (q + 1)..j
          BY <3>1, <3>5
        <5>2. d[i] > d[q]
          BY <3>1, <5>1
        <5> QED
          BY <3>1, <4>1, <5>2
      <4>3. CASE i = q
        BY <3>2, <4>3
      <4>4. CASE i < q
        <5>1. q < ns[i]
          BY <1>1, <3>1, <3>5
        <5> QED
          BY <3>2, <3>3, <3>5, <4>4, <5>1
      <4> QED
        BY <3>1, <4>2, <4>3, <4>4
    <3> QED
      BY <3>4, <3>5 DEF q
  <2> QED
    BY <2>2, <2>3
<1> HIDE DEF D
<1>3. \A j \in Nat : j \in D
  BY <1>2, StrongInduct
<1> QED
  BY <1>1, <1>3 DEF D


(* Ancestors come before their descendants. *)
LEMMA AncestorsBefore ==
  ASSUME NEW n, NEW d, NEW p, NEW ns, NEW a, Forest(n, d, p, ns, a)
  PROVE  \A j \in 0..n : a[j] \subseteq 1..j
<1>1. /\ n \in Nat /\ a[0] = {}
      /\ \A i \in 1..n : p[i] \in 0..(i - 1) /\ a[i] = {i} \cup a[p[i]]
  BY DEF Forest
<1> DEFINE D == {j \in Nat : j \in 0..n => a[j] \subseteq 1..j}
<1>2. ASSUME NEW j \in Nat, \A m \in 0..(j - 1) : m \in D PROVE j \in D
  <2> SUFFICES ASSUME j \in 0..n PROVE a[j] \subseteq 1..j
    OBVIOUS
  <2>1. CASE j = 0
    BY <1>1, <2>1
  <2>2. CASE j # 0
    <3> DEFINE q == p[j]
    <3>1. q \in 0..(j - 1) /\ a[j] = {j} \cup a[q]
      BY <1>1, <2>2
    <3> HIDE DEF q
    <3>2. a[q] \subseteq 1..q
      BY <1>1, <1>2, <3>1
    <3>3. 1..q \subseteq 1..j /\ j \in 1..j
      BY <2>2, <3>1
    <3> QED
      BY <3>1, <3>2, <3>3
  <2> QED
    BY <2>1, <2>2
<1> HIDE DEF D
<1>3. \A j \in Nat : j \in D
  BY <1>2, StrongInduct
<1> QED
  BY <1>1, <1>3 DEF D

(* The rows below row i end where those below an ancestor of it end, or     *)
(* before.                                                                  *)
LEMMA Nested ==
  ASSUME NEW n, NEW d, NEW p, NEW ns, NEW a, Forest(n, d, p, ns, a),
         NEW i \in 1..n, NEW j \in 1..n, i < j, j < ns[i]
  PROVE  ns[j] <= ns[i]
<1> DEFINE x == ns[i]
           y == ns[j]
<1>1. /\ n \in Nat /\ x \in (i + 1)..(n + 1) /\ y \in (j + 1)..(n + 1)
      /\ \A m \in (i + 1)..(x - 1) : d[m] > d[i]
      /\ \A m \in (j + 1)..(y - 1) : d[m] > d[j]
      /\ x <= n => d[x] <= d[i]
      /\ j < x
      /\ \A m \in 1..n : d[m] \in Nat
  BY DEF Forest
<1> HIDE DEF x, y
<1> SUFFICES ASSUME x < y PROVE FALSE
  BY <1>1 DEF x, y
<1>2. x \in (j + 1)..(y - 1) /\ x \in 1..n /\ j \in (i + 1)..(x - 1)
  BY <1>1
<1>3. d[x] > d[j] /\ d[j] > d[i] /\ d[x] <= d[i]
  BY <1>1, <1>2
<1> QED
  BY <1>1, <1>2, <1>3

Above(n, ns, M) == {i \in 1..n : \E j \in i..(ns[i] - 1) : j \in M}

(* The rows from whose subtree the set M has a member are those of M and    *)
(* their ancestors, and no row is among them in a subtree whose root is not. *)
LEMMA KeptRows ==
  ASSUME NEW n, NEW d, NEW p, NEW ns, NEW a, Forest(n, d, p, ns, a),
         NEW M \in SUBSET (1..n)
  PROVE  /\ Above(n, ns, M) = UNION {{m} \cup a[p[m]] : m \in M}
         /\ \A i \in 1..n : i \notin Above(n, ns, M) =>
              \A j \in Above(n, ns, M) : i < j => ns[i] <= j
<1> DEFINE K == Above(n, ns, M)
<1>1. /\ n \in Nat
      /\ \A i \in 1..n : p[i] \in 0..(i - 1) /\ ns[i] \in (i + 1)..(n + 1)
  BY DEF Forest
<1>2. \A j \in 1..n : \A i \in Nat : i \in a[p[j]] <=> i \in 1..n /\ i < j /\ j < ns[i]
  BY AncestorsAround
<1>3. \A j \in 1..n : a[p[j]] \subseteq 1..n
  <2> TAKE j \in 1..n
  <2>1. p[j] \in 0..n /\ p[j] <= n
    BY <1>1
  <2>2. a[p[j]] \subseteq 1..p[j]
    BY <2>1, AncestorsBefore
  <2> QED
    BY <1>1, <2>1, <2>2
<1>4. \A i \in 1..n, m \in 1..n : m \in i..(ns[i] - 1) <=> i \in {m} \cup a[p[m]]
  <2> TAKE i \in 1..n, m \in 1..n
  <2>1. ns[i] \in (i + 1)..(n + 1)
    BY <1>1
  <2>2. i \in a[p[m]] <=> i < m /\ m < ns[i]
    BY <1>1, <1>2
  <2> DEFINE x == ns[i]
  <2>3. x \in (i + 1)..(n + 1) /\ (i \in a[p[m]] <=> i < m /\ m < x)
    BY <2>1, <2>2
  <2> HIDE DEF x
  <2>4. m \in i..(x - 1) <=> i = m \/ i \in a[p[m]]
    BY <1>1, <2>3
  <2> QED
    BY <2>4 DEF x
<1>5. \A i : i \in K <=> i \in 1..n /\ \E m \in M : m \in i..(ns[i] - 1)
  BY DEF Above
<1> HIDE DEF K
<1>6. \A i : i \in K <=> \E m \in M : i \in {m} \cup a[p[m]]
  <2>1. \A m \in M : {m} \cup a[p[m]] \subseteq 1..n
    BY <1>3
  <2> QED
    BY <1>4, <1>5, <2>1
<1>7. K = UNION {{m} \cup a[p[m]] : m \in M}
  BY <1>6
<1>8. ASSUME NEW i \in 1..n, i \notin K, NEW j \in K, i < j, j < ns[i] PROVE FALSE
  <2>1. j \in 1..n /\ ns[j] <= ns[i]
    BY <1>5, <1>8, Nested
  <2>2. PICK m \in M : m \in j..(ns[j] - 1)
    BY <1>5
  <2>3. ns[i] \in (i + 1)..(n + 1) /\ ns[j] \in (j + 1)..(n + 1)
    BY <1>1, <2>1
  <2> DEFINE x == ns[i]
             y == ns[j]
  <2>4. /\ x \in (i + 1)..(n + 1) /\ y \in (j + 1)..(n + 1) /\ y <= x
        /\ m \in j..(y - 1)
    BY <2>1, <2>2, <2>3
  <2> HIDE DEF x, y
  <2>5. m \in i..(x - 1)
    BY <1>1, <1>8, <2>1, <2>4
  <2> QED
    BY <1>5, <1>8, <2>5 DEF x
<1>9. \A i \in 1..n : i \notin K => \A j \in K : i < j => ns[i] <= j
  <2> SUFFICES ASSUME NEW i \in 1..n, i \notin K, NEW j \in K, i < j PROVE ns[i] <= j
    OBVIOUS
  <2>1. ns[i] \in (i + 1)..(n + 1) /\ j \in 1..n
    BY <1>1, <1>5
  <2>2. ~(j < ns[i])
    BY <1>8
  <2> QED
    BY <1>1, <2>1, <2>2
<1> QED
  BY <1>7, <1>9 DEF K

Unfolded(n, p, a, E) == {i \in 1..n : a[p[i]] \subseteq E}

Following(i, E, ns) == IF i \in E THEN i + 1 ELSE ns[i]

(* The rows whose ancestors are all in E: from one of them the next one is  *)
(* the following row if the row is in E, and otherwise the next sibling.    *)
LEMMA UnfoldedRows ==
  ASSUME NEW n, NEW d, NEW p, NEW ns, NEW a, Forest(n, d, p, ns, a),
         NEW E, NEW i \in Unfolded(n, p, a, E)
  PROVE  /\ Following(i, E, ns) \in (i + 1)..(n + 1)
         /\ Following(i, E, ns) \in Unfolded(n, p, a, E) \cup {n + 1}
         /\ \A j \in Unfolded(n, p, a, E) : i < j => Following(i, E, ns) <= j
<1> DEFINE V == Unfolded(n, p, a, E)
           x == Following(i, E, ns)
<1>0. /\ V = {l \in 1..n : a[p[l]] \subseteq E} /\ i \in V
      /\ x = IF i \in E THEN i + 1 ELSE ns[i]
  BY DEF Unfolded, Following
<1> HIDE DEF V, x
<1>1. /\ n \in Nat
      /\ \A j \in 1..n : p[j] \in 0..(j - 1) /\ ns[j] \in (j + 1)..(n + 1)
  BY DEF Forest
<1>2. \A j \in 1..n : \A l \in Nat : l \in a[p[j]] <=> l \in 1..n /\ l < j /\ j < ns[l]
  BY AncestorsAround
<1>3. \A j \in 1..n : a[p[j]] \subseteq 1..(j - 1)
  <2> TAKE j \in 1..n
  <2>1. p[j] \in 0..n /\ p[j] <= j - 1
    BY <1>1
  <2>2. a[p[j]] \subseteq 1..p[j]
    BY <2>1, AncestorsBefore
  <2> QED
    BY <1>1, <2>1, <2>2
<1>4. i \in 1..n /\ a[p[i]] \subseteq E
  BY <1>0
<1>5. x \in (i + 1)..(n + 1)
  <2>1. ns[i] \in (i + 1)..(n + 1)
    BY <1>1, <1>4
  <2> QED
    BY <1>0, <1>1, <1>4, <2>1
<1>6. ASSUME x <= n, NEW l \in a[p[x]] PROVE l \in E
  <2>1. x \in 1..n /\ l \in 1..(x - 1) /\ l \in Nat
    BY <1>1, <1>3, <1>4, <1>5, <1>6
  <2>2. l \in 1..n /\ l < x /\ x < ns[l]
    BY <1>2, <1>6, <2>1
  <2>3. ns[l] \in (l + 1)..(n + 1)
    BY <1>1, <2>2
  <2>4. CASE l < i
    <3>1. l \in a[p[i]]
      <4>1. i < ns[l]
        <5> DEFINE y == ns[l]
        <5>1. y \in (l + 1)..(n + 1) /\ x < y
          BY <2>2, <2>3
        <5> HIDE DEF y
        <5>2. i < y
          BY <1>1, <1>4, <1>5, <2>1, <2>2, <5>1
        <5> QED
          BY <5>2 DEF y
      <4> QED
        BY <1>2, <1>4, <2>2, <2>1, <2>4, <4>1
    <3> QED
      BY <1>4, <3>1
  <2>5. CASE l = i
    <3>1. i \in E
      <4> SUFFICES ASSUME i \notin E PROVE FALSE
        OBVIOUS
      <4>1. x = ns[i]
        BY <1>0
      <4> QED
        BY <1>1, <1>4, <1>5, <2>2, <2>5, <4>1
    <3> QED
      BY <2>5, <3>1
  <2>6. CASE l > i
    <3>1. i \notin E
      BY <1>0, <1>4, <1>5, <2>2, <2>6
    <3>2. x = ns[i]
      BY <1>0, <3>1
    <3>3. ns[l] <= ns[i]
      BY <1>4, <2>2, <2>6, <3>2, Nested
    <3> QED
      BY <1>1, <1>5, <2>2, <2>3, <3>2, <3>3
  <2> QED
    BY <1>4, <2>1, <2>4, <2>5, <2>6
<1>7. x \in V \cup {n + 1}
  <2>1. CASE x <= n
    BY <1>0, <1>1, <1>4, <1>5, <1>6, <2>1
  <2>2. CASE ~(x <= n)
    BY <1>1, <1>4, <1>5, <2>2
  <2> QED
    BY <2>1, <2>2
<1>8. ASSUME NEW j \in V, i < j PROVE x <= j
  <2>1. j \in 1..n /\ a[p[j]] \subseteq E
    BY <1>0
  <2>2. CASE i \in E
    BY <1>0, <1>1, <1>4, <1>8, <2>1, <2>2
  <2>3. CASE i \notin E
    <3>1. x = ns[i] /\ i \in Nat
      BY <1>0, <1>4, <2>3
    <3>2. ~(j < ns[i])
      BY <1>2, <1>4, <1>8, <2>1, <2>3, <3>1
    <3> QED
      BY <1>1, <1>5, <2>1, <3>1, <3>2
  <2> QED
    BY <2>2, <2>3
<1> QED
  BY <1>5, <1>7, <1>8 DEF V, x


-----------------------------------------------------------------------------
(* The rows of the browser are such a forest.                              *)

Depths   == [i \in DOMAIN rows |-> rows[i].depth]
Parents  == [i \in DOMAIN rows |-> rows[i].parent]
Siblings == [i \in DOMAIN rows |-> NextSibling(i)]
Up == CHOOSE up : up = [j \in 0..Len(rows) |-> IF j = 0 THEN {} ELSE {j} \cup up[rows[j].parent]]

(* A tree of Trees is a sequence of rows, each root its own parent 0.      *)
LEMMA TreeRows ==
  rows \in Trees =>
    /\ Len(rows) \in Nat /\ DOMAIN rows = 1..Len(rows) /\ rows \in Seq(Range(rows))
    /\ \A i \in 1..Len(rows) :
         /\ rows[i].depth \in Nat /\ rows[i].parent \in 0..(i - 1)
         /\ rows[i].depth = 0 => rows[i].parent = 0 /\ rows[i].expandable
         /\ rows[i].depth # 0 =>
              /\ rows[i].parent # 0 /\ rows[rows[i].parent].depth = rows[i].depth - 1
              /\ \A j \in (rows[i].parent + 1)..(i - 1) : rows[j].depth > rows[rows[i].parent].depth
<1> SUFFICES ASSUME rows \in Trees
             PROVE  /\ Len(rows) \in Nat /\ DOMAIN rows = 1..Len(rows) /\ rows \in Seq(Range(rows))
                    /\ \A i \in 1..Len(rows) :
                       /\ rows[i].depth \in Nat /\ rows[i].parent \in 0..(i - 1)
                       /\ rows[i].depth = 0 => rows[i].parent = 0 /\ rows[i].expandable
                       /\ rows[i].depth # 0 =>
                            /\ rows[i].parent # 0 /\ rows[rows[i].parent].depth = rows[i].depth - 1
                            /\ \A j \in (rows[i].parent + 1)..(i - 1) :
                                 rows[j].depth > rows[rows[i].parent].depth
  OBVIOUS
<1>1. rows \in Seq(Range(rows)) /\ Preorder(rows)
  BY TreesAssumption
<1>2. Len(rows) \in Nat /\ DOMAIN rows = 1..Len(rows)
  BY <1>1
<1>3. ASSUME NEW i \in 1..Len(rows)
      PROVE  /\ rows[i].depth \in Nat
             /\ rows[i].depth = 0 => rows[i].parent = 0 /\ rows[i].expandable
             /\ rows[i].depth # 0 =>
                  /\ rows[i].parent \in 1..(i - 1)
                  /\ rows[rows[i].parent].depth = rows[i].depth - 1
                  /\ \A j \in (rows[i].parent + 1)..(i - 1) :
                       rows[j].depth > rows[rows[i].parent].depth
  BY <1>1, <1>2, Zenon DEF Preorder
<1>4. \A i \in 1..Len(rows) : rows[i].parent \in 0..(i - 1) /\ (rows[i].depth # 0 => rows[i].parent # 0)
  <2> TAKE i \in 1..Len(rows)
  <2> DEFINE q == rows[i].parent
  <2>1. (rows[i].depth = 0 => q = 0) /\ (rows[i].depth # 0 => q \in 1..(i - 1)) /\ i \in 1..Len(rows)
    BY <1>3
  <2> HIDE DEF q
  <2>2. q \in 0..(i - 1) /\ (rows[i].depth # 0 => q # 0)
    BY <1>2, <2>1
  <2> QED
    BY <2>2 DEF q
<1> QED
  BY <1>1, <1>2, <1>3, <1>4

(* NextSibling is the least row after i that is not below it.              *)
LEMMA SiblingIsNext ==
  rows \in Trees =>
    \A i \in 1..Len(rows) :
      /\ NextSibling(i) \in (i + 1)..(Len(rows) + 1)
      /\ \A j \in (i + 1)..(NextSibling(i) - 1) : rows[j].depth > rows[i].depth
      /\ NextSibling(i) <= Len(rows) => rows[NextSibling(i)].depth <= rows[i].depth
<1> SUFFICES ASSUME rows \in Trees, NEW i \in 1..Len(rows)
             PROVE  /\ NextSibling(i) \in (i + 1)..(Len(rows) + 1)
                    /\ \A j \in (i + 1)..(NextSibling(i) - 1) : rows[j].depth > rows[i].depth
                    /\ NextSibling(i) <= Len(rows) => rows[NextSibling(i)].depth <= rows[i].depth
  OBVIOUS
<1>1. Len(rows) \in Nat /\ \A j \in 1..Len(rows) : rows[j].depth \in Nat
  BY TreeRows
<1> DEFINE n == Len(rows)
           T == {j \in (i + 1)..n : rows[j].depth <= rows[i].depth} \cup {n + 1}
           x == Min(T)
<1>2. T \in SUBSET Nat /\ T # {} /\ n + 1 \in T
  BY <1>1
<1>3. x \in T /\ \A y \in T : x <= y
  <2> HIDE DEF T
  <2> QED
    BY <1>2, MinIsLeast
<1>4. NextSibling(i) = x
  BY DEF NextSibling
<1> HIDE DEF x
<1>5. x \in (i + 1)..(n + 1) /\ x \in Nat
  BY <1>1, <1>3
<1>6. x <= n => rows[x].depth <= rows[i].depth
  BY <1>1, <1>3
<1>7. ASSUME NEW j \in (i + 1)..(x - 1) PROVE rows[j].depth > rows[i].depth
  <2>1. j \in (i + 1)..n /\ ~(x <= j) /\ j \in 1..n
    BY <1>1, <1>5
  <2>2. j \notin T
    BY <1>3, <2>1
  <2>3. ~(rows[j].depth <= rows[i].depth)
    BY <2>1, <2>2
  <2> QED
    BY <1>1, <2>1, <2>3
<1> QED
  BY <1>4, <1>5, <1>6, <1>7

(* The rows with their siblings and ancestors are a forest.                *)
LEMMA RowsForest ==
  rows \in Trees =>
    /\ Forest(Len(rows), Depths, Parents, Siblings, Up)
    /\ \A i \in 1..Len(rows) : Ancestors(i) = Up[Parents[i]]
<1> SUFFICES ASSUME rows \in Trees
             PROVE  /\ Forest(Len(rows), Depths, Parents, Siblings, Up)
                    /\ \A i \in 1..Len(rows) : Ancestors(i) = Up[Parents[i]]
  OBVIOUS
<1> DEFINE n == Len(rows)
<1>1. /\ n \in Nat /\ DOMAIN rows = 1..n
      /\ \A i \in 1..n :
         /\ rows[i].depth \in Nat /\ rows[i].parent \in 0..(i - 1)
         /\ rows[i].depth = 0 => rows[i].parent = 0 /\ rows[i].expandable
         /\ rows[i].depth # 0 =>
              /\ rows[i].parent # 0 /\ rows[rows[i].parent].depth = rows[i].depth - 1
              /\ \A j \in (rows[i].parent + 1)..(i - 1) : rows[j].depth > rows[rows[i].parent].depth
  BY TreeRows
<1>0. n \in Nat
  BY <1>1
<1>2. \A i \in 1..n :
        Depths[i] = rows[i].depth /\ Parents[i] = rows[i].parent /\ Siblings[i] = NextSibling(i)
  BY <1>1 DEF Depths, Parents, Siblings
<1>3. Up = [j \in 0..n |-> IF j = 0 THEN {} ELSE {j} \cup Up[rows[j].parent]]
  <2>1. \A j \in 1..n : Parents[j] \in 0..(j - 1)
    BY <1>1, <1>2
  <2>2. PICK g : g = [j \in 0..n |-> IF j = 0 THEN {} ELSE {j} \cup g[Parents[j]]]
    <3> HIDE DEF n
    <3> QED
      BY <1>1, <2>1, DownExists
  <2>3. \A j \in 1..n : Parents[j] = rows[j].parent
    BY <1>2
  <2> HIDE DEF n
  <2>4. \A j \in 0..n : g[j] = IF j = 0 THEN {} ELSE {j} \cup g[rows[j].parent]
    <3> TAKE j \in 0..n
    <3>1. g[j] = IF j = 0 THEN {} ELSE {j} \cup g[Parents[j]]
      BY <2>2
    <3>2. j = 0 \/ j \in 1..n
      BY <1>0
    <3> QED
      BY <2>3, <3>1, <3>2
  <2>5. g = [j \in 0..n |-> g[j]]
    BY <2>2
  <2>6. g = [j \in 0..n |-> IF j = 0 THEN {} ELSE {j} \cup g[rows[j].parent]]
    BY <2>4, <2>5
  <2> QED
    BY <2>6, Zenon DEF Up, n
<1>4. Up[0] = {} /\ \A j \in 1..n : Up[j] = {j} \cup Up[rows[j].parent]
  <2> HIDE DEF n
  <2>1. PICK u : u = Up
    OBVIOUS
  <2>2. u = [j \in 0..n |-> IF j = 0 THEN {} ELSE {j} \cup u[rows[j].parent]]
    BY <1>3, <2>1
  <2>3. \A j \in 0..n : u[j] = IF j = 0 THEN {} ELSE {j} \cup u[rows[j].parent]
    BY <2>2
  <2> HIDE DEF n
  <2>4. 0 \in 0..n /\ \A j \in 1..n : j \in 0..n /\ j # 0
    BY <1>0
  <2>5. u[0] = {} /\ \A j \in 1..n : u[j] = {j} \cup u[rows[j].parent]
    BY <2>3, <2>4
  <2> QED
    BY <2>1, <2>5
<1>5. \A i \in 1..n :
      /\ NextSibling(i) \in (i + 1)..(n + 1)
      /\ \A j \in (i + 1)..(NextSibling(i) - 1) : rows[j].depth > rows[i].depth
      /\ NextSibling(i) <= n => rows[NextSibling(i)].depth <= rows[i].depth
  BY SiblingIsNext
<1> HIDE DEF n
<1>6. \A i \in 1..n : Depths[i] # 0 =>
        /\ Parents[i] # 0 /\ Depths[Parents[i]] = Depths[i] - 1
        /\ \A j \in (Parents[i] + 1)..(i - 1) : Depths[j] > Depths[Parents[i]]
  <2> SUFFICES ASSUME NEW i \in 1..n, Depths[i] # 0
               PROVE  /\ Parents[i] # 0 /\ Depths[Parents[i]] = Depths[i] - 1
                      /\ \A j \in (Parents[i] + 1)..(i - 1) : Depths[j] > Depths[Parents[i]]
    OBVIOUS
  <2> DEFINE q == rows[i].parent
  <2>1. /\ q # 0 /\ q \in 0..(i - 1) /\ rows[q].depth = rows[i].depth - 1
        /\ \A j \in (q + 1)..(i - 1) : rows[j].depth > rows[q].depth
    BY <1>1, <1>2
  <2>2. Parents[i] = q /\ Depths[i] = rows[i].depth
    BY <1>2
  <2> HIDE DEF q
  <2>3. q \in 1..n /\ \A j \in (q + 1)..(i - 1) : j \in 1..n
    BY <1>1, <2>1
  <2>4. Depths[q] = rows[q].depth /\ \A j \in (q + 1)..(i - 1) : Depths[j] = rows[j].depth
    BY <1>2, <2>3
  <2> QED
    BY <2>1, <2>2, <2>4
<1>7. \A i \in 1..n : \A j \in (i + 1)..(Siblings[i] - 1) : Depths[j] > Depths[i]
  <2> SUFFICES ASSUME NEW i \in 1..n, NEW j \in (i + 1)..(NextSibling(i) - 1)
               PROVE  Depths[j] > Depths[i]
    BY <1>2
  <2>1. NextSibling(i) \in (i + 1)..(n + 1)
    BY <1>5
  <2>2. j \in 1..n
    BY <1>1, <2>1
  <2> QED
    BY <1>2, <1>5, <2>2
<1>8. \A i \in 1..n : Siblings[i] <= n => Depths[Siblings[i]] <= Depths[i]
  <2> SUFFICES ASSUME NEW i \in 1..n, NextSibling(i) <= n
               PROVE  Depths[NextSibling(i)] <= Depths[i]
    BY <1>2
  <2>1. NextSibling(i) \in 1..n
    BY <1>1, <1>5
  <2> QED
    BY <1>2, <1>5, <2>1
<1>9. Forest(n, Depths, Parents, Siblings, Up)
  <2>1. \A i \in 1..n : Depths[i] \in Nat /\ Parents[i] \in 0..(i - 1) /\ (Depths[i] = 0 => Parents[i] = 0)
    BY <1>1, <1>2
  <2>2. \A i \in 1..n : Siblings[i] \in (i + 1)..(n + 1)
    BY <1>2, <1>5
  <2>3. \A j \in 1..n : Up[j] = {j} \cup Up[Parents[j]]
    BY <1>2, <1>4
  <2> QED
    BY <1>1, <1>4, <1>6, <1>7, <1>8, <2>1, <2>2, <2>3, Zenon DEF Forest
<1>10. \A i \in 1..n : Ancestors(i) = Up[Parents[i]]
  BY <1>2 DEF Ancestors, Up, n
<1> QED
  BY <1>9, <1>10 DEF n


-----------------------------------------------------------------------------
(* What visible_rows finds.                                                *)

Matching == {j \in DOMAIN rows : Holds(rows[j].text, filter)}

Showing ==
  IF filter # << >> THEN UNION {{i} \cup Ancestors(i) : i \in Matching}
  ELSE {i \in DOMAIN rows : Ancestors(i) \subseteq expanded}

Unfoldable == \A i \in expanded : i \in DOMAIN rows /\ rows[i].expandable

Kept(i)      == ~(filter # << >>) \/ SubtreeHasMatch(i)
Descended(i) == IF filter # << >> THEN SubtreeHasMatch(i)
                ELSE rows[i].expandable /\ i \in expanded
After(i)     == IF Kept(i) /\ Descended(i) THEN i + 1 ELSE NextSibling(i)
Turn(g, i)   == IF i > Len(rows) THEN << >>
                ELSE (IF Kept(i) THEN <<i>> ELSE << >>) \o g[After(i)]

(* The walk of visible_rows exists, and VisibleRows is what it collects.   *)
LEMMA WalkExists ==
  rows \in Trees =>
    \E g : /\ \A i \in 1..(Len(rows) + 1) : g[i] = Turn(g, i)
           /\ VisibleRows = g[1]
<1> SUFFICES ASSUME rows \in Trees
             PROVE  \E g : /\ \A i \in 1..(Len(rows) + 1) : g[i] = Turn(g, i)
                           /\ VisibleRows = g[1]
  OBVIOUS
<1> DEFINE n == Len(rows)
           next == [i \in 1..n |-> After(i)]
           C == [i \in 1..n |-> IF Kept(i) THEN <<i>> ELSE << >>]
           f == CHOOSE g : g = [i \in 1..(n + 1) |-> Turn(g, i)]
<1>1. n \in Nat
  BY TreeRows
<1>2. \A i \in 1..n : next[i] \in (i + 1)..(n + 1)
  <2> TAKE i \in 1..n
  <2>1. NextSibling(i) \in (i + 1)..(n + 1)
    BY SiblingIsNext
  <2>2. i + 1 \in (i + 1)..(n + 1)
    BY <1>1
  <2> QED
    BY <2>1, <2>2 DEF After
<1>3. VisibleRows = f[1]
  BY DEF VisibleRows, Turn, After, Kept, Descended
<1> HIDE DEF n, next, C
<1>4. PICK g : g = [i \in 1..(n + 1) |-> IF i > n THEN << >> ELSE C[i] \o g[next[i]]]
  <2>1. PICK g : Collects(g, n, next, C)
    BY <1>1, <1>2, UpExists
  <2> QED
    BY <2>1, Zenon DEF Collects
<1>5. \A i \in 1..n : C[i] = (IF Kept(i) THEN <<i>> ELSE << >>) /\ next[i] = After(i)
  BY DEF C, next
<1>6. \A i \in 1..(n + 1) : g[i] = Turn(g, i)
  <2> TAKE i \in 1..(n + 1)
  <2>1. g[i] = IF i > n THEN << >> ELSE C[i] \o g[next[i]]
    BY <1>4
  <2>2. i > n \/ i \in 1..n
    BY <1>1
  <2> QED
    BY <1>5, <2>1, <2>2 DEF Turn, n
<1>7. g = [i \in 1..(n + 1) |-> g[i]]
  BY <1>4
<1>8. g = [i \in 1..(n + 1) |-> Turn(g, i)]
  BY <1>6, <1>7
<1>9. f = [i \in 1..(n + 1) |-> Turn(f, i)]
  BY <1>8, Zenon
<1>10. PICK u : u = f
  OBVIOUS
<1>11. u = [i \in 1..(n + 1) |-> Turn(u, i)]
  BY <1>9, <1>10
<1>12. \A i \in 1..(n + 1) : u[i] = Turn(u, i)
  BY <1>11
<1> HIDE DEF f
<1> QED
  BY <1>3, <1>10, <1>12 DEF n

(* visible_rows lists exactly the rows to be shown, in order.              *)
LEMMA ListIsShown ==
  rows \in Trees /\ Unfoldable => Lists(VisibleRows, Showing)
<1> SUFFICES ASSUME rows \in Trees, Unfoldable PROVE Lists(VisibleRows, Showing)
  OBVIOUS
<1> DEFINE n == Len(rows)
           d == Depths
           p == Parents
           ns == Siblings
           a == Up
           next == [i \in 1..n |-> After(i)]
<1>1. n \in Nat /\ DOMAIN rows = 1..n
  BY TreeRows
<1>2. Forest(n, d, p, ns, a) /\ \A i \in 1..n : Ancestors(i) = a[p[i]]
  BY RowsForest
<1>3. \A i \in 1..n : ns[i] = NextSibling(i) /\ ns[i] \in (i + 1)..(n + 1) /\ p[i] \in 0..(i - 1)
  BY <1>1, <1>2 DEF Siblings, Forest
<1>4. PICK g : (\A i \in 1..(n + 1) : g[i] = Turn(g, i)) /\ VisibleRows = g[1]
  BY WalkExists
<1>5. \A i \in 1..n : next[i] = After(i)
  OBVIOUS
<1> HIDE DEF n, d, p, ns, a, next
<1>6. \A i \in 1..(n + 1) : i > n \/ i \in 1..n
  BY <1>1
<1>7. ASSUME NEW K \in SUBSET (1..n), NEW R, 1 \in R,
             \A i \in 1..n : i \in R => (Kept(i) <=> i \in K),
             \A i \in 1..n : i \in R => /\ next[i] \in (i + 1)..(n + 1) /\ next[i] \in R
                                        /\ \A j \in K : i < j => next[i] <= j
      PROVE  Lists(VisibleRows, K)
  <2>1. \A i \in 1..(n + 1) : i \in R =>
           g[i] = IF i > n THEN << >> ELSE (IF i \in K THEN <<i>> ELSE << >>) \o g[next[i]]
    <3> TAKE i \in 1..(n + 1)
    <3> HAVE i \in R
    <3>1. g[i] = Turn(g, i)
      BY <1>4
    <3>2. CASE i > n
      BY <3>1, <3>2 DEF Turn, n
    <3>3. CASE i \in 1..n
      <4>1. next[i] = After(i) /\ (Kept(i) <=> i \in K)
        BY <1>5, <1>7, <3>3
      <4> QED
        BY <3>1, <4>1 DEF Turn, n
    <3> QED
      BY <1>6, <3>2, <3>3
  <2>2. 1 \in 1..(n + 1)
    BY <1>1
  <2>3. Lists(g[1], From(K, 1))
    BY <1>1, <1>7, <2>1, <2>2, WalkLists
  <2>4. From(K, 1) = K
    <3>1. \A i \in K : 1 <= i
      BY <1>1
    <3> QED
      BY <3>1, Zenon DEF From
  <2> QED
    BY <1>4, <2>3, <2>4
<1>8. CASE filter # << >>
  <2> DEFINE K == Above(n, ns, Matching)
             R == 1..(n + 1)
  <2>1. Matching \in SUBSET (1..n)
    BY <1>1 DEF Matching
  <2>2. /\ K = UNION {{m} \cup a[p[m]] : m \in Matching}
        /\ \A i \in 1..n : i \notin K => \A j \in K : i < j => ns[i] <= j
    BY <1>2, <2>1, KeptRows
  <2>3. \A i \in 1..n : SubtreeHasMatch(i) <=> i \in K
    <3> TAKE i \in 1..n
    <3>1. \A j \in i..(ns[i] - 1) : j \in 1..n
      <4>1. ns[i] \in (i + 1)..(n + 1)
        BY <1>3
      <4> QED
        BY <1>1, <4>1
    <3> QED
      BY <1>1, <1>3, <3>1 DEF SubtreeHasMatch, Matching, Above
  <2>4. \A i \in 1..n : (Kept(i) <=> i \in K) /\ (Descended(i) <=> i \in K)
    BY <1>8, <2>3 DEF Kept, Descended
  <2>5. K \in SUBSET (1..n)
    BY DEF Above
  <2>6. K = Showing
    <3>1. \A m \in Matching : Ancestors(m) = a[p[m]]
      BY <1>2, <2>1
    <3> HIDE DEF K
    <3> QED
      BY <1>8, <2>2, <3>1 DEF Showing
  <2> HIDE DEF K
  <2>7. \A i \in 1..n : /\ next[i] \in (i + 1)..(n + 1) /\ next[i] \in R
                        /\ \A j \in K : i < j => next[i] <= j
    <3> TAKE i \in 1..n
    <3>1. next[i] = IF i \in K THEN i + 1 ELSE ns[i]
      BY <1>3, <1>5, <2>4 DEF After
    <3>2. ns[i] \in (i + 1)..(n + 1)
      BY <1>3
    <3>3. CASE i \in K
      BY <1>1, <2>5, <3>1, <3>3
    <3>4. CASE i \notin K
      BY <1>1, <2>2, <3>1, <3>2, <3>4
    <3> QED
      BY <3>3, <3>4
  <2>8. 1 \in R
    BY <1>1
  <2> HIDE DEF R
  <2>9. Lists(VisibleRows, K)
    BY <1>7, <2>4, <2>5, <2>7, <2>8
  <2> QED
    BY <2>6, <2>9
<1>9. CASE filter = << >>
  <2> DEFINE K == Unfolded(n, p, a, expanded)
             R == K \cup {n + 1}
  <2>1. \A i \in 1..n : Kept(i) /\ (Descended(i) <=> i \in expanded)
    BY <1>9 DEF Kept, Descended, Unfoldable
  <2>2. K = Showing
    BY <1>1, <1>2, <1>9 DEF Showing, Unfolded
  <2>3. K \in SUBSET (1..n)
    BY DEF Unfolded
  <2>4. 1 \in R
    <3>1. CASE n = 0
      BY <3>1
    <3>2. CASE n # 0
      <4>1. 1 \in 1..n
        BY <1>1, <3>2
      <4>2. p[1] = 0
        BY <1>3, <4>1
      <4>3. a[p[1]] = {}
        BY <1>2, <4>2 DEF Forest
      <4> QED
        BY <4>1, <4>3 DEF Unfolded
    <3> QED
      BY <3>1, <3>2
  <2>5. \A i \in 1..n : i \in R => i \in K
    BY <1>1
  <2>6. R = K \cup {n + 1}
    OBVIOUS
  <2> HIDE DEF R
  <2>7. ASSUME NEW i \in K
        PROVE  /\ next[i] \in (i + 1)..(n + 1) /\ next[i] \in K \cup {n + 1}
               /\ \A j \in K : i < j => next[i] <= j
    <3>1. i \in 1..n
      BY <2>3
    <3>2. next[i] = Following(i, expanded, ns)
      BY <1>3, <1>5, <2>1, <3>1 DEF After, Following
    <3> QED
      BY <1>2, <3>2, UnfoldedRows
  <2> HIDE DEF K
  <2>8. Lists(VisibleRows, K)
    BY <1>7, <2>1, <2>3, <2>4, <2>5, <2>6, <2>7
  <2> QED
    BY <2>2, <2>8
<1> QED
  BY <1>8, <1>9


-----------------------------------------------------------------------------
(* The pane is a sequence of lines, so that it has a length.               *)

Sequence(s) == s \in Seq(Range(s))

(* A function on 1..n is a sequence. *)
LEMMA SequenceOf ==
  ASSUME NEW n \in Nat, NEW s, s = [i \in 1..n |-> s[i]]
  PROVE  Sequence(s) /\ Len(s) = n /\ DOMAIN s = 1..n
<1>1. DOMAIN s = 1..n /\ \A i \in 1..n : s[i] \in Range(s)
  BY Zenon DEF Range
<1>2. s \in [1..n -> Range(s)]
  BY <1>1
<1>3. s \in Seq(Range(s))
  BY <1>2
<1> QED
  BY <1>1, <1>3 DEF Sequence

(* Such a sequence has a length.                                           *)
LEMMA SequenceLen ==
  ASSUME NEW s, Sequence(s)
  PROVE  Len(s) \in Nat /\ DOMAIN s = 1..Len(s)
BY DEF Sequence

(* One sequence after another is a sequence.                               *)
LEMMA SequenceConcat ==
  ASSUME NEW s, NEW t, Sequence(s), Sequence(t)
  PROVE  Sequence(s \o t)
<1> DEFINE T == Range(s) \cup Range(t)
           c == s \o t
<1>1. s \in Seq(T) /\ t \in Seq(T)
  <2>1. Len(s) \in Nat /\ s \in [1..Len(s) -> Range(s)] /\ Len(t) \in Nat /\ t \in [1..Len(t) -> Range(t)]
    BY DEF Sequence
  <2> HIDE DEF T
  <2>2. Range(s) \subseteq T /\ Range(t) \subseteq T
    BY DEF T
  <2>3. s \in [1..Len(s) -> T] /\ t \in [1..Len(t) -> T]
    BY <2>1, <2>2
  <2> QED
    BY <2>1, <2>3
<1> HIDE DEF T
<1>2. c \in Seq(T)
  BY <1>1, ConcatProperties
<1> HIDE DEF c
<1>3. Len(c) \in Nat /\ c = [i \in 1..Len(c) |-> c[i]]
  BY <1>2
<1>4. Sequence(c)
  BY <1>3, SequenceOf
<1> QED
  BY <1>4 DEF c

(* A sequence with one element more is a sequence.                         *)
LEMMA SequenceAppend ==
  ASSUME NEW s, NEW x, Sequence(s)
  PROVE  Sequence(Append(s, x))
<1> DEFINE T == Range(s) \cup {x}
           c == Append(s, x)
<1>1. s \in Seq(T)
  <2>1. Len(s) \in Nat /\ s \in [1..Len(s) -> Range(s)]
    BY DEF Sequence
  <2>2. s \in [1..Len(s) -> T]
    BY <2>1
  <2> QED
    BY <2>1, <2>2
<1>2. x \in T
  OBVIOUS
<1> HIDE DEF T
<1>3. c \in Seq(T)
  BY <1>1, <1>2
<1> HIDE DEF c
<1>4. Len(c) \in Nat /\ c = [i \in 1..Len(c) |-> c[i]]
  BY <1>3
<1>5. Sequence(c)
  BY <1>4, SequenceOf
<1> QED
  BY <1>5 DEF c

(* Tuples are sequences.                                                   *)
LEMMA SequenceOne ==
  ASSUME NEW x PROVE Sequence(<<x>>)
<1> DEFINE s == <<x>>
<1>1. s = [i \in 1..1 |-> s[i]]
  OBVIOUS
<1> HIDE DEF s
<1>2. Sequence(s)
  BY <1>1, SequenceOf
<1> QED
  BY <1>2 DEF s

(* Two elements.                                                           *)
LEMMA SequenceTwo ==
  ASSUME NEW x, NEW y PROVE Sequence(<<x, y>>)
<1> DEFINE s == <<x, y>>
<1>1. s = [i \in 1..2 |-> s[i]]
  OBVIOUS
<1> HIDE DEF s
<1>2. Sequence(s)
  BY <1>1, SequenceOf
<1> QED
  BY <1>2 DEF s

(* Five elements.                                                          *)
LEMMA SequenceFive ==
  ASSUME NEW u, NEW v, NEW w, NEW x, NEW y PROVE Sequence(<<u, v, w, x, y>>)
<1> DEFINE s == <<u, v, w, x, y>>
<1>1. s = [i \in 1..5 |-> s[i]]
  OBVIOUS
<1> HIDE DEF s
<1>2. Sequence(s)
  BY <1>1, SequenceOf
<1> QED
  BY <1>2 DEF s

(* No element.                                                             *)
LEMMA SequenceEmpty == Sequence(<< >>)
BY EmptySeq DEF Sequence

(* A sequence without its last element.                                    *)
LEMMA SequenceFront ==
  ASSUME NEW s, Sequence(s), s # << >>
  PROVE  Sequence(Front(s))
<1>1. Len(s) \in Nat /\ s \in Seq(Range(s))
  BY DEF Sequence
<1>2. Len(s) # 0
  BY <1>1
<1> DEFINE m == Len(s) - 1
           f == SubSeq(s, 1, m)
<1>3. m \in Nat
  BY <1>1, <1>2
<1>4. f \in Seq(Range(s))
  BY <1>1, <1>3
<1> HIDE DEF f
<1>5. Len(f) \in Nat /\ f = [i \in 1..Len(f) |-> f[i]]
  BY <1>4
<1>6. Sequence(f)
  BY <1>5, SequenceOf
<1> QED
  BY <1>6 DEF f, Front

(* The sequences of a sequence, one after the other, are a sequence.       *)
LEMMA SequenceFlat ==
  ASSUME NEW s, Sequence(s), \A i \in DOMAIN s : Sequence(s[i])
  PROVE  Sequence(FlattenSeq(s))
<1> DEFINE n == Len(s)
           Step(g, i) == IF i = 1 THEN s[i] ELSE g[i - 1] \o s[i]
           Rec(g, k) == g = [i \in 1..k |-> Step(g, i)]
           D == {k \in Nat : k <= n => \E g : Rec(g, k)}
<1>1. n \in Nat /\ DOMAIN s = 1..n
  BY SequenceLen
<1>2. 0 \in D
  <2> DEFINE g == [i \in 1..0 |-> << >>]
  <2>1. \A i \in 1..0 : FALSE
    OBVIOUS
  <2>2. Rec(g, 0)
    BY <2>1
  <2> HIDE DEF Rec, g
  <2> QED
    BY <2>2
<1>3. ASSUME NEW k \in Nat, k \in D PROVE k + 1 \in D
  <2> SUFFICES ASSUME k + 1 <= n PROVE \E g : Rec(g, k + 1)
    <3>1. k + 1 \in Nat
      OBVIOUS
    <3> HIDE DEF Rec
    <3> QED
      BY <3>1
  <2>1. PICK g : Rec(g, k)
    <3>1. k <= n
      BY <1>1
    <3> HIDE DEF Rec
    <3> QED
      BY <1>3, <3>1
  <2> DEFINE h == [i \in 1..(k + 1) |-> IF i = k + 1 THEN Step(g, k + 1) ELSE g[i]]
  <2>2. \A i \in 1..(k + 1) : Step(h, i) = Step(g, i)
    <3> TAKE i \in 1..(k + 1)
    <3>1. i # 1 => h[i - 1] = g[i - 1]
      OBVIOUS
    <3> HIDE DEF h
    <3> QED
      BY <3>1
  <2>3. \A i \in 1..k : g[i] = Step(g, i)
    <3> HIDE DEF Step
    <3> QED
      BY <2>1
  <2>4. \A i \in 1..(k + 1) : h[i] = Step(h, i)
    <3> TAKE i \in 1..(k + 1)
    <3>1. h[i] = IF i = k + 1 THEN Step(g, k + 1) ELSE g[i]
      OBVIOUS
    <3>2. i # k + 1 => i \in 1..k
      OBVIOUS
    <3>3. h[i] = Step(g, i)
      <4> HIDE DEF Step, h
      <4> QED
        BY <2>3, <3>1, <3>2
    <3> HIDE DEF Step, h
    <3> QED
      BY <2>2, <3>3
  <2>5. h = [i \in 1..(k + 1) |-> h[i]]
    OBVIOUS
  <2> HIDE DEF Step, h
  <2>6. Rec(h, k + 1)
    BY <2>4, <2>5
  <2> HIDE DEF Rec
  <2> QED
    BY <2>6
<1> HIDE DEF D
<1>4. n \in D
  BY <1>1, <1>2, <1>3, Induct
<1>5. CASE n = 0
  BY <1>5 DEF FlattenSeq
<1>6. CASE n # 0
  <2>1. PICK g : Rec(g, n)
    <3> HIDE DEF Rec
    <3> QED
      BY <1>1, <1>4 DEF D
  <2>2. n \in 1..n
    BY <1>1, <1>6
  <2> DEFINE f == CHOOSE f : Rec(f, n)
  <2>3. Rec(f, n)
    <3> HIDE DEF Rec
    <3> QED
      BY <2>1
  <2>4. FlattenSeq(s) = f[n]
    BY <1>6 DEF FlattenSeq
  <2> HIDE DEF f
  <2>5. \A i \in 1..n : f[i] = Step(f, i)
    <3> HIDE DEF Step
    <3> QED
      BY <2>3
  <2> DEFINE B == {i \in Nat : i \in 1..n => Sequence(f[i])}
  <2>6. 0 \in B
    OBVIOUS
  <2>7. ASSUME NEW i \in Nat, i \in B PROVE i + 1 \in B
    <3> SUFFICES ASSUME i + 1 \in 1..n PROVE Sequence(f[i + 1])
      OBVIOUS
    <3>1. f[i + 1] = Step(f, i + 1) /\ Sequence(s[i + 1])
      BY <1>1, <2>5
    <3>2. CASE i = 0
      BY <3>1, <3>2
    <3>3. CASE i # 0
      <4>1. i \in 1..n /\ i + 1 # 1 /\ (i + 1) - 1 = i
        BY <1>1, <3>3
      <4>2. Sequence(f[i])
        BY <2>7, <4>1
      <4>3. Sequence(f[i] \o s[i + 1])
        BY <3>1, <4>2, SequenceConcat
      <4> QED
        BY <3>1, <4>1, <4>3
    <3> QED
      BY <3>2, <3>3
  <2> HIDE DEF B
  <2>8. n \in B
    BY <1>1, <2>6, <2>7, Induct
  <2> QED
    BY <2>2, <2>4, <2>8 DEF B
<1> QED
  BY <1>5, <1>6


(* The lines in the state of text_from_ansi.                               *)
LEMMA LinesField ==
  ASSUME NEW r, NEW l, NEW s, r = [lines |-> l, style |-> s]
  PROVE  r.lines = l
OBVIOUS

(* What text_from_ansi makes of a text has as many lines.                  *)
LEMMA AnsiLines ==
  ASSUME NEW text, Sequence(text)
  PROVE  Sequence(TextFromAnsi(text))
<1> DEFINE n == Len(text)
           Step(g, i) == IF i = 0 THEN [lines |-> << >>, style |-> DefaultStyle]
                         ELSE [lines |-> Append(g[i - 1].lines, ScanLine(text[i], g[i - 1].style).spans),
                               style |-> ScanLine(text[i], g[i - 1].style).style]
           Rec(g, k) == g = [i \in 0..k |-> Step(g, i)]
           D == {k \in Nat : k <= n => \E g : Rec(g, k)}
<1>1. n \in Nat
  BY SequenceLen
<1>2. 0 \in D
  <2> DEFINE g == [i \in 0..0 |-> [lines |-> << >>, style |-> DefaultStyle]]
  <2>1. \A i \in 0..0 : i = 0
    OBVIOUS
  <2>2. Rec(g, 0)
    BY <2>1
  <2> HIDE DEF Rec, g
  <2> QED
    BY <2>2
<1>3. ASSUME NEW k \in Nat, k \in D PROVE k + 1 \in D
  <2> SUFFICES ASSUME k + 1 <= n PROVE \E g : Rec(g, k + 1)
    <3>1. k + 1 \in Nat
      OBVIOUS
    <3> HIDE DEF Rec
    <3> QED
      BY <3>1
  <2>1. PICK g : Rec(g, k)
    <3>1. k <= n
      BY <1>1
    <3> HIDE DEF Rec
    <3> QED
      BY <1>3, <3>1
  <2> DEFINE h == [i \in 0..(k + 1) |-> IF i = k + 1 THEN Step(g, k + 1) ELSE g[i]]
  <2>2. \A i \in 0..(k + 1) : Step(h, i) = Step(g, i)
    <3> TAKE i \in 0..(k + 1)
    <3>1. i # 0 => h[i - 1] = g[i - 1]
      OBVIOUS
    <3> HIDE DEF h
    <3> QED
      BY <3>1
  <2>3. \A i \in 0..k : g[i] = Step(g, i)
    <3> HIDE DEF Step
    <3> QED
      BY <2>1
  <2>4. \A i \in 0..(k + 1) : h[i] = Step(h, i)
    <3> TAKE i \in 0..(k + 1)
    <3>1. h[i] = IF i = k + 1 THEN Step(g, k + 1) ELSE g[i]
      OBVIOUS
    <3>2. i # k + 1 => i \in 0..k
      OBVIOUS
    <3>3. h[i] = Step(g, i)
      <4> HIDE DEF Step, h
      <4> QED
        BY <2>3, <3>1, <3>2
    <3> HIDE DEF Step, h
    <3> QED
      BY <2>2, <3>3
  <2>5. h = [i \in 0..(k + 1) |-> h[i]]
    OBVIOUS
  <2> HIDE DEF Step, h
  <2>6. Rec(h, k + 1)
    BY <2>4, <2>5
  <2> HIDE DEF Rec
  <2> QED
    BY <2>6
<1> HIDE DEF D
<1>4. n \in D
  BY <1>1, <1>2, <1>3, Induct
<1>5. PICK g : Rec(g, n)
  <2> HIDE DEF Rec
  <2> QED
    BY <1>1, <1>4 DEF D
<1> DEFINE f == CHOOSE f : Rec(f, n)
<1>6. Rec(f, n)
  <2> HIDE DEF Rec
  <2> QED
    BY <1>5
<1>7. TextFromAnsi(text) = f[n].lines
  BY DEF TextFromAnsi
<1> HIDE DEF f
<1>8. \A i \in 0..n : f[i] = Step(f, i)
  <2> HIDE DEF Step
  <2> QED
    BY <1>6
<1> DEFINE B == {i \in Nat : i \in 0..n => Sequence(f[i].lines)}
<1>9. 0 \in B
  <2>1. 0 \in 0..n
    BY <1>1
  <2>2. f[0] = [lines |-> << >>, style |-> DefaultStyle]
    BY <1>8, <2>1
  <2>3. f[0].lines = << >>
    BY <2>2, LinesField, Zenon
  <2> QED
    BY <2>3, SequenceEmpty
<1>10. ASSUME NEW i \in Nat, i \in B PROVE i + 1 \in B
  <2> SUFFICES ASSUME i + 1 \in 0..n PROVE Sequence(f[i + 1].lines)
    OBVIOUS
  <2>1. i \in 0..n /\ i + 1 # 0 /\ (i + 1) - 1 = i
    BY <1>1
  <2>2. f[i + 1] = Step(f, i + 1)
    BY <1>8
  <2>3. Step(f, i + 1) = [lines |-> Append(f[i].lines, ScanLine(text[i + 1], f[i].style).spans),
                          style |-> ScanLine(text[i + 1], f[i].style).style]
    BY <2>1
  <2> HIDE DEF Step
  <2>4. f[i + 1].lines = Append(f[i].lines, ScanLine(text[i + 1], f[i].style).spans)
    <3> DEFINE r == f[i + 1]
               l == Append(f[i].lines, ScanLine(text[i + 1], f[i].style).spans)
               y == ScanLine(text[i + 1], f[i].style).style
    <3>1. r = [lines |-> l, style |-> y]
      BY <2>2, <2>3
    <3> HIDE DEF r, l, y
    <3>2. r.lines = l
      BY <3>1, LinesField
    <3> QED
      BY <3>2 DEF r, l
  <2>5. Sequence(f[i].lines)
    BY <1>10, <2>1
  <2> QED
    BY <2>4, <2>5, SequenceAppend
<1> HIDE DEF B
<1>11. n \in B
  BY <1>1, <1>9, <1>10, Induct
<1>12. n \in 0..n
  BY <1>1
<1> QED
  BY <1>7, <1>11, <1>12 DEF B

(* The text of a device is a sequence of lines, whatever it reports.       *)
LEMMA TextIsSequence ==
  ASSUME NEW report, NEW coloured
  PROVE  Sequence(DeviceText(report, coloured))
<1>1. Sequence(BridgeLines)
  <2>1. BridgeLines = [i \in 1..6 |-> Line(<<BridgeLabels[i]>>, <<"value">>)]
    <3>1. DOMAIN BridgeLabels = 1..6
      BY DEF BridgeLabels
    <3> QED
      BY <3>1, Zenon DEF BridgeLines
  <2> DEFINE e(i) == Line(<<BridgeLabels[i]>>, <<"value">>)
  <2>2. BridgeLines = [i \in 1..6 |-> e(i)]
    BY <2>1
  <2> HIDE DEF e
  <2>3. BridgeLines = [i \in 1..6 |-> BridgeLines[i]]
    BY <2>2
  <2> QED
    BY <2>3, SequenceOf
<1>2. \A f, details : Sequence(FieldLines(f, details, coloured))
  <2> TAKE f, details
  <2> DEFINE interrupt == <<Line(<<f>>, InterruptValue(details))>>
             resources == << <<"resources:">>, <<"BAR">> >>
             capabilities == CapabilityLines(coloured)
             other == <<Line(<<f>>, Shown(f, details[f], coloured))>>
  <2>1. /\ Sequence(interrupt) /\ Sequence(resources) /\ Sequence(capabilities)
        /\ Sequence(other)
    BY SequenceOne, SequenceTwo, SequenceFive DEF CapabilityLines
  <2>2. FieldLines(f, details, coloured) =
          CASE f = "interrupt" -> interrupt
            [] f \in DOMAIN KindFields /\ details[f] = "NotApplicable" -> << >>
            [] f = "bridge" /\ details[f] = "Available" -> BridgeLines
            [] f = "resources" /\ details[f] = "Available" -> resources
            [] f = "capabilities" /\ details[f] = "Available" -> capabilities
            [] OTHER -> other
    BY DEF FieldLines
  <2> HIDE DEF interrupt, resources, capabilities, other
  <2>3. /\ f = "bridge" => f # "interrupt" /\ f # "resources" /\ f # "capabilities"
        /\ f = "resources" => f # "interrupt" /\ f # "capabilities"
        /\ f = "capabilities" => f # "interrupt"
        /\ f \in DOMAIN KindFields => f # "interrupt" /\ f # "resources" /\ f # "capabilities"
        /\ details[f] = "Available" => details[f] # "NotApplicable"
    BY DEF KindFields
  <2>4. CASE f = "interrupt"
    BY <2>1, <2>2, <2>3, <2>4, Zenon
  <2>5. CASE f \in DOMAIN KindFields /\ details[f] = "NotApplicable"
    BY <2>2, <2>3, <2>5, SequenceEmpty, Zenon
  <2>6. CASE f = "bridge" /\ details[f] = "Available"
    BY <1>1, <2>2, <2>3, <2>6, Zenon
  <2>7. CASE f = "resources" /\ details[f] = "Available"
    BY <2>1, <2>2, <2>3, <2>7, Zenon
  <2>8. CASE f = "capabilities" /\ details[f] = "Available"
    BY <2>1, <2>2, <2>3, <2>8, Zenon
  <2> QED
    BY <2>1, <2>2, <2>4, <2>5, <2>6, <2>7, <2>8, Zenon
<1>3. ASSUME NEW details PROVE Sequence(ReportText(details, coloured))
  <2> DEFINE field(i) == FieldLines(TextOrder[i], details, coloured)
             s == [i \in DOMAIN TextOrder |-> field(i)]
             e(i) == Line(<< <<"vendor", "device", "class">>[i] >>, <<"value">>)
             three == [i \in 1..3 |-> e(i)]
             first == <<"PCI_device">> \o Address(coloured, <<"address">>)
  <2>1. DOMAIN TextOrder = 1..17
    BY DEF TextOrder
  <2>2. \A i \in 1..17 : Sequence(field(i))
    BY <1>2
  <2>3. ReportText(details, coloured) = <<first>> \o three \o FlattenSeq(s) \o << << >> >>
    BY DEF ReportText, IdentityLines
  <2> HIDE DEF field, e, first
  <2>4. s = [i \in 1..17 |-> s[i]] /\ \A i \in 1..17 : s[i] = field(i)
    BY <2>1
  <2>5. three = [i \in 1..3 |-> three[i]]
    OBVIOUS
  <2> HIDE DEF s, three
  <2>6. Sequence(s) /\ DOMAIN s = 1..17
    BY <2>4, SequenceOf
  <2>7. Sequence(FlattenSeq(s))
    BY <2>2, <2>4, <2>6, SequenceFlat
  <2>8. Sequence(three) /\ Sequence(<<first>>) /\ Sequence(<< << >> >>)
    BY <2>5, SequenceOf, SequenceOne
  <2> QED
    BY <2>3, <2>7, <2>8, SequenceConcat
<1>4. Sequence(<<Line(<<"failed_to_load_details">>, <<"error">>)>>)
  BY SequenceOne
<1> QED
  BY <1>3, <1>4, Zenon DEF DeviceText

(* What is in the pane has a number of lines to scroll through.            *)
LEMMA PaneIsSequence ==
  ASSUME NEW report, NEW coloured
  PROVE  Len(PaneOf(report, coloured)) \in Nat
<1> DEFINE text == DeviceText(report, coloured)
<1>1. Sequence(text)
  BY TextIsSequence
<1> HIDE DEF text
<1>2. Sequence(ColorizeDetail(text))
  <2> DEFINE lines == LinesOf(text)
  <2>1. Sequence(lines)
    BY <1>1, SequenceFront DEF LinesOf
  <2> HIDE DEF lines
  <2>2. Len(lines) \in Nat /\ DOMAIN lines = 1..Len(lines)
    BY <2>1, SequenceLen
  <2> DEFINE c == [i \in 1..Len(lines) |-> ColorizeLine(lines[i])]
  <2>3. ColorizeDetail(text) = c
    BY <2>2 DEF ColorizeDetail, lines
  <2>4. c = [i \in 1..Len(lines) |-> c[i]]
    OBVIOUS
  <2> HIDE DEF c
  <2> QED
    BY <2>2, <2>3, <2>4, SequenceOf
<1>3. Sequence(TextFromAnsi(IF coloured THEN ColorizeDetail(text) ELSE text))
  BY <1>1, <1>2, AnsiLines
<1>4. Sequence(PaneOf(report, coloured))
  BY <1>3, SequenceEmpty DEF PaneOf, text
<1> QED
  BY <1>4, SequenceLen


-----------------------------------------------------------------------------
(* The inductive invariant.  What the run checks of the list is the set it  *)
(* shows; what the steps preserve is that it is the walk's result now.      *)

Model ==
  /\ rows \in Trees /\ Unfoldable
  /\ filter \in Seq(Char) /\ Len(filter) <= MaxFilter
  /\ input \in Seq(Char) /\ Len(input) <= MaxFilter
  /\ palette \in BOOLEAN /\ mode \in {"normal", "filter"}

List == visible = VisibleRows

Cursor ==
  /\ cursor \in Nat /\ cursor <= Pred(Len(visible))
  /\ detail \in Loaded(Selected)
  /\ scroll \in Nat

Screen ==
  /\ offset \in Nat /\ height \in Heights \cup {0}
  /\ pc \in {"raw", "alt", "draw", "key", "exited"}
  /\ CursorOnScreen

(* The terminal is changed only while the guard is there to restore it.    *)
Guarded ==
  /\ guard \in BOOLEAN /\ raw \in BOOLEAN /\ alt \in BOOLEAN
  /\ guard <=> pc \in {"alt", "draw", "key"}
  /\ raw \/ alt => guard

IInv == Model /\ List /\ Cursor /\ Screen /\ Guarded

(* Arithmetic of the cursor.                                               *)
LEMMA MaxOfTwo ==
  ASSUME NEW a \in Int, NEW b \in Int
  PROVE  Max({a, b}) = IF a >= b THEN a ELSE b
<1>1. \E x \in {a, b} : \A y \in {a, b} : x >= y
  OBVIOUS
<1>2. Max({a, b}) \in {a, b} /\ \A y \in {a, b} : Max({a, b}) >= y
  BY <1>1, Zenon DEF Max
<1> QED
  BY <1>2

(* The lesser of two integers.                                             *)
LEMMA MinOfInts ==
  ASSUME NEW a \in Int, NEW b \in Int
  PROVE  Min({a, b}) = IF a <= b THEN a ELSE b
<1>1. \E x \in {a, b} : \A y \in {a, b} : x <= y
  OBVIOUS
<1>2. Min({a, b}) \in {a, b} /\ \A y \in {a, b} : Min({a, b}) <= y
  BY <1>1, Zenon DEF Min
<1> QED
  BY <1>2

(* usize::saturating_sub(1).                                               *)
LEMMA PredIs ==
  ASSUME NEW n \in Nat
  PROVE  Pred(n) \in Nat /\ Pred(n) = IF n = 0 THEN 0 ELSE n - 1
<1>1. Max({n - 1, 0}) = IF n - 1 >= 0 THEN n - 1 ELSE 0
  BY MaxOfTwo
<1> QED
  BY <1>1 DEF Pred

(* The ancestors of a row come before it, and the rows shown are rows.     *)
LEMMA AncestorsAbove ==
  rows \in Trees => \A i \in DOMAIN rows : Ancestors(i) \subseteq 1..(i - 1)
<1> SUFFICES ASSUME rows \in Trees
             PROVE  \A i \in DOMAIN rows : Ancestors(i) \subseteq 1..(i - 1)
  OBVIOUS
<1> DEFINE n == Len(rows)
           p == Parents
           a == Up
<1>1. n \in Nat /\ DOMAIN rows = 1..n /\ \A i \in 1..n : p[i] \in 0..(i - 1)
  <2>1. n \in Nat /\ DOMAIN rows = 1..n /\ \A i \in 1..n : rows[i].parent \in 0..(i - 1)
    BY TreeRows
  <2> QED
    BY <2>1 DEF Parents
<1>2. Forest(n, Depths, p, Siblings, a) /\ \A i \in 1..n : Ancestors(i) = a[p[i]]
  BY RowsForest
<1> HIDE DEF n, p, a
<1>3. \A i \in 1..n : Ancestors(i) \subseteq 1..(i - 1)
  <2> TAKE i \in 1..n
  <2> DEFINE q == p[i]
  <2>1. q \in 0..(i - 1) /\ Ancestors(i) = a[q] /\ q \in 0..n
    BY <1>1, <1>2
  <2> HIDE DEF q
  <2>2. a[q] \subseteq 1..q
    BY <1>2, <2>1, AncestorsBefore
  <2>3. 1..q \subseteq 1..(i - 1)
    BY <1>1, <2>1
  <2> QED
    BY <2>1, <2>2, <2>3
<1> QED
  BY <1>1, <1>3

RowsShown == rows \in Trees => Showing \subseteq DOMAIN rows

(* The rows shown are rows.                                                *)
LEMMA ShowingAreRows == RowsShown
<1> SUFFICES ASSUME rows \in Trees PROVE Showing \subseteq DOMAIN rows
  BY DEF RowsShown
<1>1. DOMAIN rows = 1..Len(rows) /\ Len(rows) \in Nat
  BY TreeRows
<1>2. \A i \in DOMAIN rows : Ancestors(i) \subseteq DOMAIN rows
  <2> TAKE i \in DOMAIN rows
  <2>1. 1..(i - 1) \subseteq DOMAIN rows
    BY <1>1
  <2> QED
    BY <2>1, AncestorsAbove
<1> QED
  BY <1>2 DEF Showing, Matching

(* The same of the next state.                                             *)
LEMMA RowsShownNext == RowsShown'
BY ShowingAreRows, PTL

(* The list as a sequence, in this state and in the next.                  *)
ListHolds ==
  rows \in Trees /\ Unfoldable /\ List =>
    /\ Lists(visible, Showing)
    /\ Len(visible) \in Nat /\ DOMAIN visible = 1..Len(visible)
    /\ \A k \in DOMAIN visible : visible[k] \in DOMAIN rows

(* The list is a sequence of rows in this state,                           *)
LEMMA ListNow == ListHolds
<1> SUFFICES ASSUME rows \in Trees, Unfoldable, visible = VisibleRows
             PROVE  /\ Lists(visible, Showing)
                    /\ Len(visible) \in Nat /\ DOMAIN visible = 1..Len(visible)
                    /\ \A k \in DOMAIN visible : visible[k] \in DOMAIN rows
  BY DEF ListHolds, List
<1>1. Lists(visible, Showing)
  BY ListIsShown
<1>2. Len(visible) \in Nat /\ DOMAIN visible = 1..Len(visible) /\ \A k \in DOMAIN visible : visible[k] \in Showing
  BY <1>1 DEF Lists
<1> QED
  BY <1>1, <1>2, ShowingAreRows DEF RowsShown

(* and in the next.                                                        *)
LEMMA ListNext == ListHolds'
BY ListNow, PTL

(* The list depends on the model alone.                                    *)
LEMMA SameList ==
  ASSUME UNCHANGED model
  PROVE  VisibleRows' = VisibleRows
BY DEF model, VisibleRows, SubtreeHasMatch, NextSibling


-----------------------------------------------------------------------------
(* What the handlers share.                                                *)

(* A key handler leaves rows and terminal alone and ends in a draw.        *)
LEMMA KeyFrame ==
  ASSUME IInv, NEW m, OnKey(m), offset' = offset \/ offset' = 0
  PROVE  /\ Screen' /\ Guarded'
         /\ rows' = rows /\ rows' \in Trees /\ palette' \in BOOLEAN /\ mode = m
<1>1. pc = "key" /\ pc' = "draw" /\ height' = height /\ UNCHANGED <<rows, palette, guard, raw, alt>> /\ mode = m
  BY DEF OnKey, terminal
<1>2. Screen'
  BY <1>1 DEF IInv, Screen, CursorOnScreen
<1>3. Guarded'
  BY <1>1 DEF IInv, Guarded
<1> QED
  BY <1>1, <1>2, <1>3 DEF IInv, Model

(* load_detail brings the detail of the row selected then.                 *)
LEMMA DetailLoaded ==
  ASSUME LoadDetail, rows' = rows
  PROVE  (detail \in Loaded(Selected))' /\ scroll' \in Nat
BY DEF LoadDetail, Loaded

(* refresh makes the list anew and brings the cursor and the detail along. *)
LEMMA RefreshKeeps ==
  ASSUME IInv, rows' = rows, Unfoldable', NEW c \in Nat, Refresh(c)
  PROVE  List' /\ Cursor'
<1>1. List'
  BY DEF Refresh, List
<1>2. Len(visible') \in Nat
  BY <1>1, ListNext DEF ListHolds, IInv, Model
<1>3. /\ Pred(Len(visible')) \in Nat
      /\ Pred(Len(visible')) = IF Len(visible') = 0 THEN 0 ELSE Len(visible') - 1
  BY <1>2, PredIs
<1>4. cursor' \in Nat /\ cursor' <= Pred(Len(visible'))
  BY <1>2, <1>3 DEF Refresh
<1>5. (detail \in Loaded(Selected))' /\ scroll' \in Nat
  BY DetailLoaded DEF Refresh
<1> QED
  BY <1>1, <1>4, <1>5 DEF Cursor, Pred

(* Moving the cursor within the list and loading the detail of its row.    *)
LEMMA MoveKeeps ==
  ASSUME IInv, UNCHANGED <<model, visible>>, LoadDetail,
         cursor' \in Nat, cursor' <= Pred(Len(visible))
  PROVE  List' /\ Cursor'
<1>1. List'
  BY SameList DEF IInv, List
<1>2. (detail \in Loaded(Selected))' /\ scroll' \in Nat
  BY DetailLoaded DEF model
<1> QED
  BY <1>1, <1>2 DEF Cursor, Pred

(* Steps that only scroll the pane, or not even that.                      *)
LEMMA ViewKeeps ==
  ASSUME IInv, UNCHANGED <<model, visible, cursor, detail>>, scroll' \in Nat
  PROVE  List' /\ Cursor'
<1>1. List'
  BY SameList DEF IInv, List
<1>2. Cursor'
  BY DEF IInv, Cursor, Selected, Loaded, model, Pred
<1> QED
  BY <1>1, <1>2

(* The row of the cursor is a row, or there is none.                       *)
LEMMA SelectedIsRow ==
  ASSUME IInv
  PROVE  /\ Len(visible) \in Nat /\ DOMAIN visible = 1..Len(visible)
         /\ Lists(visible, Showing) /\ Showing \subseteq DOMAIN rows
         /\ Selected \in {0} \cup DOMAIN rows
         /\ Pred(Len(visible)) = IF Len(visible) = 0 THEN 0 ELSE Len(visible) - 1
         /\ DOMAIN rows \subseteq Nat \ {0}
<1>1. /\ Len(visible) \in Nat /\ DOMAIN visible = 1..Len(visible) /\ Lists(visible, Showing)
      /\ \A k \in DOMAIN visible : visible[k] \in DOMAIN rows
  BY ListNow DEF IInv, Model, ListHolds
<1>2. Showing \subseteq DOMAIN rows
  BY ShowingAreRows DEF RowsShown, IInv, Model
<1>3. Selected \in {0} \cup DOMAIN rows
  BY <1>1 DEF Selected, IInv, Cursor
<1>4. DOMAIN rows \subseteq Nat \ {0}
  BY TreeRows DEF IInv, Model
<1> QED
  BY <1>1, <1>2, <1>3, <1>4, PredIs

(* App::new establishes the invariant.                                     *)
LEMMA InitIInv == Init => IInv
<1> SUFFICES ASSUME Init PROVE IInv
  OBVIOUS
<1>1. Len(rows) \in Nat /\ DOMAIN rows = 1..Len(rows)
      /\ \A i \in 1..Len(rows) : rows[i].depth = 0 => rows[i].expandable
  BY TreeRows DEF Init
<1>2. Unfoldable
  BY <1>1 DEF Init, Unfoldable
<1>3. << >> \in Seq(Char) /\ Len(<< >>) = 0 /\ 0 <= MaxFilter
  BY BoundsAssumption
<1>4. Model
  BY <1>2, <1>3 DEF Init, Model
<1>5. List
  BY DEF Init, List
<1>6. Len(visible) \in Nat /\ DOMAIN visible = 1..Len(visible)
  BY <1>4, <1>5, ListNow DEF ListHolds, Model
<1>7. cursor \in Nat /\ cursor <= Pred(Len(visible))
  <2> DEFINE devices == {i \in DOMAIN visible : rows[visible[i]].device}
  <2>1. cursor = IF devices = {} THEN 0 ELSE Min(devices) - 1
    BY DEF Init
  <2>2. devices \in SUBSET Nat /\ devices \subseteq 1..Len(visible)
    BY <1>6
  <2> HIDE DEF devices
  <2>3. devices # {} => Min(devices) \in 1..Len(visible)
    BY <2>2, MinIsLeast
  <2>4. Pred(Len(visible)) \in Nat /\ (Len(visible) # 0 => Pred(Len(visible)) = Len(visible) - 1)
    BY <1>6, PredIs
  <2> QED
    BY <1>6, <2>1, <2>3, <2>4
<1>8. Cursor
  BY <1>7 DEF Init, Cursor
<1>9. Screen /\ Guarded
  BY DEF Init, Screen, Guarded, CursorOnScreen
<1> QED
  BY <1>4, <1>5, <1>8, <1>9 DEF IInv

(* Each step of Next.                                                      *)

(* move_cursor.                                                            *)
LEMMA MoveCursorKeeps ==
  ASSUME IInv, NEW delta \in {1, -1}, MoveCursor(delta)
  PROVE  IInv'
<1> DEFINE next == Max({Min({cursor + delta, Len(visible) - 1}), 0})
<1>1. /\ OnKey("normal") /\ UNCHANGED <<filter, expanded, offset, mode, input>>
      /\ IF visible = << >> \/ next = cursor THEN UNCHANGED view
         ELSE cursor' = next /\ UNCHANGED visible /\ LoadDetail
  BY DEF MoveCursor
<1>2. /\ Screen' /\ Guarded' /\ rows' = rows /\ rows' \in Trees /\ palette' \in BOOLEAN
  BY <1>1, KeyFrame
<1>3. Model'
  BY <1>1, <1>2 DEF IInv, Model, Unfoldable
<1>4. UNCHANGED model
  BY <1>1, <1>2 DEF model
<1>5. next \in Nat /\ next <= Pred(Len(visible))
  <2>1. Len(visible) \in Nat /\ Pred(Len(visible)) = IF Len(visible) = 0 THEN 0 ELSE Len(visible) - 1
    BY SelectedIsRow
  <2>2. cursor \in Nat
    BY DEF IInv, Cursor
  <2> DEFINE least == Min({cursor + delta, Len(visible) - 1})
  <2>3. least = IF cursor + delta <= Len(visible) - 1 THEN cursor + delta ELSE Len(visible) - 1
    BY <2>1, <2>2, MinOfInts
  <2>4. least \in Int
    BY <2>1, <2>2, <2>3
  <2>5. next = IF least >= 0 THEN least ELSE 0
    <3> DEFINE x == least
    <3>1. x \in Int
      BY <2>4
    <3> HIDE DEF x
    <3>2. Max({x, 0}) = IF x >= 0 THEN x ELSE 0
      BY <3>1, MaxOfTwo
    <3> QED
      BY <3>2 DEF x
  <2> HIDE DEF least, next
  <2> QED
    BY <2>1, <2>2, <2>3, <2>4, <2>5
<1> HIDE DEF next
<1>6. List' /\ Cursor'
  <2>1. CASE visible = << >> \/ next = cursor
    <3>1. UNCHANGED view
      BY <1>1, <2>1
    <3> QED
      BY <1>4, <3>1, ViewKeeps DEF view, IInv, Cursor
  <2>2. CASE ~(visible = << >> \/ next = cursor)
    BY <1>1, <1>4, <1>5, <2>2, MoveKeeps
  <2> QED
    BY <2>1, <2>2
<1> QED
  BY <1>2, <1>3, <1>6 DEF IInv

(* Right and Enter.                                                        *)
LEMMA ExpandKeeps ==
  ASSUME IInv, Expand
  PROVE  IInv'
<1>1. /\ OnKey("normal") /\ UNCHANGED <<filter, offset, mode, input>>
      /\ IF Selected = 0 THEN UNCHANGED <<expanded, view>>
         ELSE /\ expanded' = expanded \cup {i \in {Selected} : rows[i].expandable}
              /\ Refresh(cursor)
  BY DEF Expand
<1>2. /\ Screen' /\ Guarded' /\ rows' = rows /\ rows' \in Trees /\ palette' \in BOOLEAN
  BY <1>1, KeyFrame
<1>3. Unfoldable'
  <2>1. Selected \in {0} \cup DOMAIN rows
    BY SelectedIsRow
  <2> QED
    BY <1>1, <1>2, <2>1 DEF IInv, Model, Unfoldable
<1>4. Model'
  BY <1>1, <1>2, <1>3 DEF IInv, Model
<1>5. List' /\ Cursor'
  <2>1. CASE Selected = 0
    <3>1. UNCHANGED <<expanded, view>>
      BY <1>1, <2>1
    <3> QED
      BY <1>1, <1>2, <3>1, ViewKeeps DEF view, model, IInv, Cursor
  <2>2. CASE Selected # 0
    <3>1. Refresh(cursor) /\ cursor \in Nat
      BY <1>1, <2>2 DEF IInv, Cursor
    <3> QED
      BY <1>2, <1>3, <3>1, RefreshKeeps
  <2> QED
    BY <2>1, <2>2
<1> QED
  BY <1>2, <1>4, <1>5 DEF IInv

(* Left on an unfolded row.                                                *)
LEMMA CollapseKeeps ==
  ASSUME IInv, Collapse
  PROVE  IInv'
<1>1. /\ OnKey("normal") /\ UNCHANGED <<filter, offset, mode, input>>
      /\ expanded' = expanded \ {Selected}
      /\ Refresh(cursor)
  BY DEF Collapse
<1>2. /\ Screen' /\ Guarded' /\ rows' = rows /\ rows' \in Trees /\ palette' \in BOOLEAN
  BY <1>1, KeyFrame
<1>3. Unfoldable'
  BY <1>1, <1>2 DEF IInv, Model, Unfoldable
<1>4. Model'
  BY <1>1, <1>2, <1>3 DEF IInv, Model
<1>5. List' /\ Cursor'
  <2>1. cursor \in Nat
    BY DEF IInv, Cursor
  <2> QED
    BY <1>1, <1>2, <1>3, <2>1, RefreshKeeps
<1> QED
  BY <1>2, <1>4, <1>5 DEF IInv

(* Left on any other row.                                                  *)
LEMMA JumpKeeps ==
  ASSUME IInv, JumpToParent
  PROVE  IInv'
<1> DEFINE at == {p \in DOMAIN visible : visible[p] = rows[Selected].parent}
<1>1. /\ OnKey("normal") /\ UNCHANGED <<filter, expanded, offset, mode, input>>
      /\ IF at = {} THEN UNCHANGED view
         ELSE cursor' = Min(at) - 1 /\ UNCHANGED visible /\ LoadDetail
  BY DEF JumpToParent
<1>2. /\ Screen' /\ Guarded' /\ rows' = rows /\ rows' \in Trees /\ palette' \in BOOLEAN
  BY <1>1, KeyFrame
<1>3. Model' /\ UNCHANGED model
  BY <1>1, <1>2 DEF IInv, Model, Unfoldable, model
<1>4. /\ Len(visible) \in Nat /\ at \subseteq 1..Len(visible) /\ at \in SUBSET Nat
      /\ Pred(Len(visible)) = IF Len(visible) = 0 THEN 0 ELSE Len(visible) - 1
  BY SelectedIsRow
<1> HIDE DEF at
<1>5. List' /\ Cursor'
  <2>1. CASE at = {}
    <3>1. UNCHANGED view
      BY <1>1, <2>1
    <3> QED
      BY <1>3, <3>1, ViewKeeps DEF view, IInv, Cursor
  <2>2. CASE at # {}
    <3>1. Min(at) \in 1..Len(visible)
      BY <1>4, <2>2, MinIsLeast
    <3> DEFINE x == Min(at)
               l == Pred(Len(visible))
    <3>2. x \in 1..Len(visible) /\ cursor' = x - 1
          /\ l = IF Len(visible) = 0 THEN 0 ELSE Len(visible) - 1
      BY <1>1, <1>4, <2>2, <3>1
    <3> HIDE DEF x, l
    <3>3. cursor' \in Nat /\ cursor' <= l
      BY <1>4, <3>2
    <3> QED
      BY <1>1, <1>3, <2>2, <3>3, MoveKeeps DEF l
  <2> QED
    BY <2>1, <2>2
<1> QED
  BY <1>2, <1>3, <1>5 DEF IInv

(* PageUp and PageDown.                                                    *)
LEMMA ScrollKeeps ==
  ASSUME IInv, ScrollDetail
  PROVE  IInv'
<1>1. /\ OnKey("normal")
      /\ scroll' \in {Max({scroll - Page, 0}), Min({scroll + Page, Pred(Len(Pane))})}
      /\ UNCHANGED <<filter, expanded, visible, cursor, detail, offset, mode, input>>
  BY DEF ScrollDetail
<1>2. /\ Screen' /\ Guarded' /\ rows' = rows /\ rows' \in Trees /\ palette' \in BOOLEAN
  BY <1>1, KeyFrame
<1>3. Model' /\ UNCHANGED <<model, visible, cursor, detail>>
  BY <1>1, <1>2 DEF IInv, Model, Unfoldable, model
<1>4. scroll' \in Nat
  <2>1. scroll \in Nat /\ Page \in Nat
    BY BoundsAssumption DEF IInv, Cursor
  <2>2. Len(Pane) \in Nat
    BY PaneIsSequence DEF Pane
  <2>3. Pred(Len(Pane)) \in Nat
    BY <2>2, PredIs
  <2> DEFINE last == Pred(Len(Pane))
  <2>4. last \in Nat
    BY <2>3
  <2> HIDE DEF last
  <2>5. Max({scroll - Page, 0}) \in Nat
    BY <2>1, MaxOfTwo
  <2>6. Min({scroll + Page, last}) \in Nat
    BY <2>1, <2>4, MinOfInts
  <2> QED
    BY <1>1, <2>5, <2>6 DEF last
<1>5. List' /\ Cursor'
  BY <1>3, <1>4, ViewKeeps
<1> QED
  BY <1>2, <1>3, <1>5 DEF IInv

(* The slash.                                                              *)
LEMMA OpenFilterKeeps ==
  ASSUME IInv, OpenFilter
  PROVE  IInv'
<1>1. /\ OnKey("normal") /\ mode' = "filter" /\ input' = filter
      /\ UNCHANGED <<filter, expanded, view, offset>>
  BY DEF OpenFilter
<1>2. /\ Screen' /\ Guarded' /\ rows' = rows /\ rows' \in Trees /\ palette' \in BOOLEAN
  BY <1>1, KeyFrame
<1>3. Model' /\ UNCHANGED model
  BY <1>1, <1>2 DEF IInv, Model, Unfoldable, model
<1>4. List' /\ Cursor'
  BY <1>1, <1>3, ViewKeeps DEF view, IInv, Cursor
<1> QED
  BY <1>2, <1>3, <1>4 DEF IInv

(* Enter in the filter.                                                    *)
LEMMA ApplyFilterKeeps ==
  ASSUME IInv, ApplyFilter
  PROVE  IInv'
<1>1. /\ OnKey("filter") /\ mode' = "normal"
      /\ UNCHANGED <<filter, expanded, view, offset, input>>
  BY DEF ApplyFilter
<1>2. /\ Screen' /\ Guarded' /\ rows' = rows /\ rows' \in Trees /\ palette' \in BOOLEAN
  BY <1>1, KeyFrame
<1>3. Model' /\ UNCHANGED model
  BY <1>1, <1>2 DEF IInv, Model, Unfoldable, model
<1>4. List' /\ Cursor'
  BY <1>1, <1>3, ViewKeeps DEF view, IInv, Cursor
<1> QED
  BY <1>2, <1>3, <1>4 DEF IInv

(* Any change of the filter starts over at the first row.                  *)
LEMMA ChangeFilterKeeps ==
  ASSUME IInv, NEW text \in Seq(Char), Len(text) <= MaxFilter, ChangeFilter(text),
         mode' \in {"normal", "filter"}
  PROVE  IInv'
<1>1. /\ OnKey("filter") /\ input' = text /\ filter' = text /\ offset' = 0
      /\ UNCHANGED expanded /\ Refresh(0)
  BY DEF ChangeFilter
<1>2. /\ Screen' /\ Guarded' /\ rows' = rows /\ rows' \in Trees /\ palette' \in BOOLEAN
  BY <1>1, KeyFrame
<1>3. Unfoldable'
  BY <1>1, <1>2 DEF IInv, Model, Unfoldable
<1>4. Model'
  BY <1>1, <1>2, <1>3 DEF Model
<1>5. List' /\ Cursor'
  BY <1>1, <1>2, <1>3, RefreshKeeps
<1> QED
  BY <1>2, <1>4, <1>5 DEF IInv

(* Typing, deleting and Esc in the filter.                                 *)
LEMMA TypingKeeps ==
  ASSUME IInv, TypeChar \/ Backspace \/ ClearFilter
  PROVE  IInv'
<1>1. /\ input \in Seq(Char) /\ Len(input) <= MaxFilter /\ Len(input) \in Nat
      /\ MaxFilter \in Nat /\ mode \in {"normal", "filter"}
  BY BoundsAssumption DEF IInv, Model
<1>2. CASE TypeChar
  <2>1. PICK c \in Char : /\ Len(input) < MaxFilter
                          /\ ChangeFilter(Append(input, c)) /\ UNCHANGED mode
    BY <1>2 DEF TypeChar
  <2> DEFINE text == Append(input, c)
  <2>2. text \in Seq(Char) /\ Len(text) = Len(input) + 1
    BY <1>1
  <2>3. ChangeFilter(text) /\ Len(input) < MaxFilter /\ mode' \in {"normal", "filter"}
    BY <1>1, <2>1
  <2> HIDE DEF text
  <2>4. Len(text) <= MaxFilter
    BY <1>1, <2>2, <2>3
  <2> QED
    BY <2>2, <2>3, <2>4, ChangeFilterKeeps
<1>3. CASE Backspace
  <2> DEFINE text == IF input = << >> THEN input ELSE Front(input)
  <2>1. ChangeFilter(text) /\ mode' \in {"normal", "filter"}
    BY <1>1, <1>3 DEF Backspace
  <2>2. text \in Seq(Char) /\ Len(text) <= MaxFilter
    <3>1. CASE input = << >>
      BY <1>1, <3>1
    <3>2. CASE input # << >>
      <4> DEFINE m == Len(input) - 1
                 s == SubSeq(input, 1, m)
      <4>1. m \in Nat /\ m <= MaxFilter
        BY <1>1, <3>2
      <4>2. s \in Seq(Char) /\ Len(s) = m
        <5>1. \A i \in 1..m : input[i] \in Char
          BY <1>1, <4>1
        <5> HIDE DEF m
        <5>2. s \in Seq(Char) /\ Len(s) = IF 1 <= m THEN m - 1 + 1 ELSE 0
          BY <4>1, <5>1, SubSeqProperties
        <5> QED
          BY <4>1, <5>2
      <4>3. text = s
        BY <3>2 DEF Front
      <4> QED
        BY <4>1, <4>2, <4>3
    <3> QED
      BY <3>1, <3>2
  <2> HIDE DEF text
  <2> QED
    BY <2>1, <2>2, ChangeFilterKeeps
<1>4. CASE ClearFilter
  <2> DEFINE text == << >>
  <2>1. ChangeFilter(text) /\ mode' \in {"normal", "filter"}
    BY <1>4 DEF ClearFilter
  <2>2. text \in Seq(Char) /\ Len(text) <= MaxFilter
    BY <1>1
  <2> HIDE DEF text
  <2> QED
    BY <2>1, <2>2, ChangeFilterKeeps
<1> QED
  BY <1>2, <1>3, <1>4

(* draw_tree finds nothing to clamp and brings the cursor on the screen.   *)
LEMMA DrawKeeps ==
  ASSUME IInv, Draw
  PROVE  IInv' /\ cursor' = cursor
<1>1. /\ pc = "draw" /\ height' \in Heights /\ pc' = "key"
      /\ cursor' = IF cursor >= Len(visible) THEN Pred(Len(visible)) ELSE cursor
      /\ offset' = Scrolled(cursor', height')
      /\ UNCHANGED <<rows, filter, expanded, visible, detail, scroll, mode, input, palette,
                     guard, raw, alt>>
  BY DEF Draw, model, terminal
<1>2. /\ cursor \in Nat /\ Len(visible) \in Nat /\ cursor <= Pred(Len(visible))
      /\ Pred(Len(visible)) = IF Len(visible) = 0 THEN 0 ELSE Len(visible) - 1
  BY SelectedIsRow DEF IInv, Cursor
<1>3. cursor' = cursor
  BY <1>1, <1>2
<1>4. Model'
  BY <1>1 DEF IInv, Model, Unfoldable
<1>5. List' /\ Cursor'
  BY <1>1, <1>3, ViewKeeps DEF model, IInv, Cursor
<1>6. height' \in Nat /\ height' \in Heights /\ offset \in Nat
  BY <1>1, BoundsAssumption DEF IInv, Screen
<1>7. offset' \in Nat /\ (height' # 0 => offset' <= cursor' /\ cursor' < offset' + height')
  <2> DEFINE h == height'
             x == offset'
  <2>1. /\ h \in Nat /\ offset \in Nat /\ cursor \in Nat
        /\ x = IF h = 0 THEN offset ELSE IF cursor < offset THEN cursor
               ELSE IF cursor >= offset + h THEN cursor - h + 1 ELSE offset
    BY <1>1, <1>2, <1>3, <1>6 DEF Scrolled
  <2> HIDE DEF h, x
  <2>2. x \in Nat /\ (h # 0 => x <= cursor /\ cursor < x + h)
    BY <2>1
  <2> QED
    BY <1>3, <2>2 DEF h, x
<1>8. Screen'
  BY <1>1, <1>6, <1>7 DEF Screen, CursorOnScreen
<1>9. Guarded'
  BY <1>1 DEF IInv, Guarded
<1> QED
  BY <1>3, <1>4, <1>5, <1>8, <1>9 DEF IInv

(* Events without a meaning, and the start and the end of run_tui.         *)
LEMMA FrameKeeps ==
  ASSUME IInv, IgnoreEvent \/ EnableRawMode \/ EnterAlternateScreen \/ Leave
  PROVE  IInv'
<1>1. UNCHANGED <<rows, filter, expanded, visible, cursor, detail, scroll, offset, mode, input,
                  palette, height>>
  BY DEF IgnoreEvent, EnableRawMode, EnterAlternateScreen, Leave, model, view
<1>2. pc' \in {"alt", "draw", "exited"}
  BY DEF IgnoreEvent, EnableRawMode, EnterAlternateScreen, Leave
<1>3. Model'
  BY <1>1 DEF IInv, Model, Unfoldable
<1>4. List' /\ Cursor'
  BY <1>1, ViewKeeps DEF model, IInv, Cursor
<1>5. Screen'
  BY <1>1, <1>2 DEF IInv, Screen, CursorOnScreen
<1>6. Guarded'
  <2>1. /\ guard \in BOOLEAN /\ raw \in BOOLEAN /\ alt \in BOOLEAN
        /\ guard <=> pc \in {"alt", "draw", "key"}
        /\ raw \/ alt => guard
    BY DEF IInv, Guarded
  <2>2. CASE IgnoreEvent
    BY <2>1, <2>2 DEF Guarded, IgnoreEvent, terminal
  <2>3. CASE EnableRawMode
    BY <2>1, <2>3 DEF Guarded, EnableRawMode
  <2>4. CASE EnterAlternateScreen
    BY <2>1, <2>4 DEF Guarded, EnterAlternateScreen
  <2>5. CASE Leave
    BY <2>1, <2>5 DEF Guarded, Leave
  <2> QED
    BY <2>2, <2>3, <2>4, <2>5
<1> QED
  BY <1>3, <1>4, <1>5, <1>6 DEF IInv

(* Every step of run_tui keeps the invariant.                              *)
LEMMA NextIInv == IInv /\ [Next]_vars => IInv'
<1> SUFFICES ASSUME IInv, [Next]_vars PROVE IInv'
  OBVIOUS
<1>1. CASE MoveCursor(1) \/ MoveCursor(-1)
  BY <1>1, MoveCursorKeeps
<1>2. CASE Expand \/ Collapse \/ JumpToParent \/ ScrollDetail
  BY <1>2, ExpandKeeps, CollapseKeeps, JumpKeeps, ScrollKeeps
<1>3. CASE OpenFilter \/ ApplyFilter \/ TypeChar \/ Backspace \/ ClearFilter
  BY <1>3, OpenFilterKeeps, ApplyFilterKeeps, TypingKeeps
<1>4. CASE Draw
  BY <1>4, DrawKeeps
<1>5. CASE IgnoreEvent \/ EnableRawMode \/ EnterAlternateScreen \/ Leave
  BY <1>5, FrameKeeps
<1>6. CASE UNCHANGED vars
  <2>1. UNCHANGED <<rows, filter, expanded, visible, cursor, detail, scroll, offset, mode, input,
                    palette, height, pc, guard, raw, alt>>
    BY <1>6 DEF vars, model, view, terminal
  <2>2. List' /\ Cursor'
    BY <2>1, ViewKeeps DEF model, IInv, Cursor
  <2>3. Model' /\ Screen' /\ Guarded'
    BY <2>1 DEF IInv, Model, Unfoldable, Screen, CursorOnScreen, Guarded
  <2> QED
    BY <2>2, <2>3 DEF IInv
<1> QED
  BY <1>1, <1>2, <1>3, <1>4, <1>5, <1>6 DEF Next, KeyStep


-----------------------------------------------------------------------------

(* The inductive invariant holds throughout: the handlers keep up by hand  *)
(* what the list, the cursor, the detail and the scroll position must be.  *)
THEOREM Invariant == Spec => []IInv
BY InitIInv, NextIInv, PTL DEF Spec

(* However run_tui ends, after an error of the terminal or a key, raw mode  *)
(* and the second screen have been left.                                    *)
THEOREM TerminalAlwaysRestored == Spec => []TerminalRestored
<1>1. IInv => TerminalRestored
  BY DEF IInv, Guarded, TerminalRestored
<1> QED
  BY Invariant, <1>1, PTL

(* Whenever a key is waited for, the cursor is on a line of the list, at    *)
(* any height the list may have got.                                        *)
THEOREM CursorAlwaysOnScreen == Spec => []CursorOnScreen
<1>1. IInv => CursorOnScreen
  BY DEF IInv, Screen
<1> QED
  BY Invariant, <1>1, PTL

(* The detail pane is about the row under the cursor after every key.       *)
THEOREM DetailAlwaysFollows == Spec => []DetailFollowsCursor
<1>1. IInv => DetailFollowsCursor
  BY DEF IInv, Cursor, DetailFollowsCursor
<1> QED
  BY Invariant, <1>1, PTL

(* The list on the screen is the one the filter and the unfolded rows call  *)
(* for, in every forest of rows: skipping subtrees loses no row.            *)
THEOREM ListAlwaysCurrent == Spec => []VisibleIsCurrent
<1>1. IInv => VisibleIsCurrent
  <2> SUFFICES ASSUME IInv PROVE VisibleIsCurrent
    OBVIOUS
  <2>1. /\ Len(visible) \in Nat /\ DOMAIN visible = 1..Len(visible)
        /\ Lists(visible, Showing) /\ Showing \subseteq DOMAIN rows
        /\ Selected \in {0} \cup DOMAIN rows
    BY SelectedIsRow
  <2>2. /\ visible \in Seq(Nat)
        /\ \A k, l \in DOMAIN visible : k < l => visible[k] < visible[l]
        /\ \A k \in DOMAIN visible : visible[k] \in Showing
        /\ \A x \in Showing : \E k \in DOMAIN visible : visible[k] = x
    BY <2>1 DEF Lists
  <2>3. Range(visible) = Showing
    BY <2>2 DEF Range
  <2>4. \A i \in 1..(Len(visible) - 1) : visible[i] < visible[i + 1]
    <3> TAKE i \in 1..(Len(visible) - 1)
    <3>1. i \in DOMAIN visible /\ i + 1 \in DOMAIN visible /\ i < i + 1
      BY <2>1
    <3> QED
      BY <2>2, <3>1
  <2>5. TypeOK
    <3>1. visible \in Seq(DOMAIN rows)
      <4>1. visible \in [1..Len(visible) -> DOMAIN rows]
        BY <2>1, <2>2
      <4> QED
        BY <2>1, <4>1
    <3>2. expanded \subseteq DOMAIN rows
      BY DEF IInv, Model, Unfoldable
    <3>3. detail \in (UNION {Loaded(i) : i \in DOMAIN rows}) \cup {NoDetail}
      <4>1. detail \in Loaded(Selected)
        BY DEF IInv, Cursor
      <4>2. CASE Selected = 0
        BY <4>1, <4>2 DEF Loaded
      <4>3. CASE Selected \in DOMAIN rows
        BY <4>1, <4>3
      <4> QED
        BY <2>1, <4>2, <4>3
    <3> QED
      BY <3>1, <3>2, <3>3 DEF IInv, Model, Cursor, Screen, Guarded, TypeOK
  <2> QED
    BY <2>3, <2>4, <2>5 DEF VisibleIsCurrent, Showing, Matching
<1> QED
  BY Invariant, <1>1, PTL

(* Folding or unfolding the row under the cursor leaves the cursor on it:   *)
(* the rows before it and the row itself stay in the list, with and without *)
(* a filter.                                                                *)
THEOREM FoldingAlwaysKeepsRow == Spec => FoldingKeepsRow
<1>1. IInv /\ IInv' /\ [Next]_vars => [expanded' # expanded => Selected' = Selected]_vars
  <2> SUFFICES ASSUME IInv, IInv', Expand \/ Collapse, expanded' # expanded
               PROVE  Selected' = Selected
    <3>1. [Next]_vars /\ expanded' # expanded => Expand \/ Collapse
      BY DEF Next, KeyStep, MoveCursor, JumpToParent, ScrollDetail, OpenFilter, TypeChar, Backspace,
             ClearFilter, ChangeFilter, ApplyFilter, Draw, IgnoreEvent, EnableRawMode,
             EnterAlternateScreen, Leave, vars, model
    <3> QED
      BY <3>1
  <2>1. /\ rows' = rows /\ filter' = filter /\ Refresh(cursor) /\ Selected # 0
        /\ \A i : i # Selected => (i \in expanded' <=> i \in expanded)
    <3>1. rows' = rows /\ filter' = filter
      BY DEF Expand, Collapse, OnKey
    <3>2. CASE Expand
      BY <3>1, <3>2 DEF Expand
    <3>3. CASE Collapse
      <4>1. Selected \in expanded /\ expanded' = expanded \ {Selected} /\ Refresh(cursor)
        BY <3>3 DEF Collapse
      <4>2. Selected # 0
        BY <4>1, SelectedIsRow DEF IInv, Model, Unfoldable
      <4> QED
        BY <3>1, <4>1, <4>2
    <3> QED
      BY <3>2, <3>3
  <2> DEFINE i == Selected
             c == cursor + 1
  <2>2. /\ Lists(visible, Showing) /\ Showing \subseteq DOMAIN rows
        /\ DOMAIN rows \subseteq Nat \ {0} /\ i \in DOMAIN rows
        /\ c \in DOMAIN visible /\ visible[c] = i /\ cursor \in Nat
        /\ Len(visible) \in Nat /\ DOMAIN visible = 1..Len(visible)
    BY <2>1, SelectedIsRow DEF Selected, IInv, Cursor
  <2>3. /\ Lists(visible', Showing') /\ Showing' \subseteq DOMAIN rows
        /\ Len(visible') \in Nat /\ DOMAIN visible' = 1..Len(visible')
    <3>1. Lists(visible', Showing') /\ Len(visible') \in Nat /\ DOMAIN visible' = 1..Len(visible')
      BY ListNext DEF ListHolds, IInv, Model
    <3>2. Showing' \subseteq DOMAIN rows'
      BY RowsShownNext DEF RowsShown, IInv, Model
    <3> QED
      BY <2>1, <3>1, <3>2
  <2>4. \A x \in 0..i : x \in Showing <=> x \in Showing'
    <3>1. CASE filter # << >>
      BY <2>1, <3>1 DEF Showing, Matching, Ancestors
    <3>2. CASE filter = << >>
      <4>1. \A x \in DOMAIN rows : Ancestors(x) \subseteq 1..(x - 1)
        BY AncestorsAbove DEF IInv, Model
      <4>2. \A x \in DOMAIN rows : Ancestors(x)' = Ancestors(x)
        BY <2>1 DEF Ancestors
      <4>3. \A x \in 0..i : x \in DOMAIN rows =>
              (Ancestors(x) \subseteq expanded <=> Ancestors(x) \subseteq expanded')
        <5> TAKE x \in 0..i
        <5> HAVE x \in DOMAIN rows
        <5>1. ~(i \in 1..(x - 1))
          BY <2>2
        <5>2. i \notin Ancestors(x)
          BY <4>1, <5>1
        <5> QED
          BY <2>1, <5>2
      <4>4. Showing = {x \in DOMAIN rows : Ancestors(x) \subseteq expanded}
        BY <3>2 DEF Showing
      <4>5. Showing' = {x \in DOMAIN rows : Ancestors(x) \subseteq expanded'}
        BY <2>1, <3>2, <4>2 DEF Showing
      <4> QED
        BY <4>3, <4>4, <4>5
    <3> QED
      BY <3>1, <3>2
  <2> HIDE DEF i, c
  <2>5. c \in DOMAIN visible' /\ visible'[c] = i
    <3>1. Showing \in SUBSET Nat /\ Showing' \in SUBSET Nat /\ i \in Nat
      BY <2>2, <2>3
    <3> QED
      BY <2>2, <2>3, <2>4, <3>1, SamePlace
  <2>6. cursor < Len(visible') /\ cursor + 1 \in DOMAIN visible'
    BY <2>2, <2>3, <2>5 DEF c
  <2>7. cursor' = cursor
    BY <2>1, <2>2, <2>3, <2>6 DEF Refresh
  <2> QED
    BY <2>5, <2>6, <2>7 DEF Selected, i, c
<1>2. IInv /\ [Next]_vars => IInv'
  BY NextIInv
<1> QED
  BY Invariant, <1>1, <1>2, PTL DEF Spec, FoldingKeepsRow

-----------------------------------------------------------------------------
(* What the pane shows: flattening, which joins the spans and the lines.     *)

(* The flattening of one more sequence.                                      *)
Flattens(flat, ss) ==
  /\ Len(ss) # 0 => flat[1] = ss[1]
  /\ \A n \in 2..Len(ss) : flat[n] = flat[n - 1] \o ss[n]

(* The flattening of a sequence of sequences, one after the other.          *)
LEMMA FlattenRec ==
  ASSUME NEW S, NEW ss \in Seq(S), Len(ss) # 0
  PROVE  \E flat : Flattens(flat, ss) /\ FlattenSeq(ss) = flat[Len(ss)]
<1> DEFINE Rec(g, k) == g = [n \in 1..k |-> IF n = 1 THEN ss[n] ELSE g[n - 1] \o ss[n]]
<1>1. \A k \in Nat : \E g : Rec(g, k)
  <2> DEFINE D == {k \in Nat : \E g : Rec(g, k)}
  <2>1. 0 \in D
    <3>1. Rec([n \in 1..0 |-> << >>], 0)
      OBVIOUS
    <3> QED
      BY <3>1
  <2>2. ASSUME NEW k \in Nat, k \in D PROVE k + 1 \in D
    <3>1. PICK g : Rec(g, k)
      BY <2>2
    <3> DEFINE h == [n \in 1..(k + 1) |->
                       IF n = k + 1 THEN (IF k = 0 THEN ss[1] ELSE g[k] \o ss[k + 1])
                       ELSE g[n]]
    <3>2. ASSUME NEW n \in 1..(k + 1)
          PROVE  h[n] = IF n = 1 THEN ss[n] ELSE h[n - 1] \o ss[n]
      <4>1. CASE n = k + 1
        <5>1. h[n] = IF k = 0 THEN ss[1] ELSE g[k] \o ss[k + 1]
          BY <4>1
        <5>2. k # 0 => h[k] = g[k] /\ n - 1 = k
          BY <4>1
        <5> QED
          BY <4>1, <5>1, <5>2
      <4>2. CASE n # k + 1
        <5>1. n \in 1..k /\ h[n] = g[n]
          BY <4>2
        <5>2. g[n] = IF n = 1 THEN ss[n] ELSE g[n - 1] \o ss[n]
          BY <3>1, <5>1
        <5>3. n # 1 => h[n - 1] = g[n - 1]
          BY <5>1
        <5> QED
          BY <5>1, <5>2, <5>3
      <4> QED
        BY <4>1, <4>2
    <3>3. Rec(h, k + 1)
      BY <3>2
    <3> HIDE DEF h, Rec
    <3> QED
      BY <3>3
  <2> HIDE DEF D
  <2>3. \A k \in Nat : k \in D
    BY <2>1, <2>2, Induct
  <2> QED
    BY <2>3 DEF D
<1> DEFINE flat == CHOOSE g : Rec(g, Len(ss))
<1>2. FlattenSeq(ss) = flat[Len(ss)]
  BY DEF FlattenSeq
<1>3. Rec(flat, Len(ss))
  <2> HIDE DEF Rec
  <2> QED
    BY <1>1
<1> HIDE DEF flat
<1>4. \A n \in 1..Len(ss) : flat[n] = IF n = 1 THEN ss[n] ELSE flat[n - 1] \o ss[n]
  BY <1>3, Zenon
<1>5. Len(ss) \in Nat /\ 1 \in 1..Len(ss) /\ \A n \in 2..Len(ss) : n \in 1..Len(ss) /\ n # 1
  OBVIOUS
<1>6. Flattens(flat, ss)
  BY <1>4, <1>5, Zenon DEF Flattens
<1> QED
  BY <1>2, <1>6

(* FlattenSeq, one sequence after the other.                                *)
LEMMA FlattenEmpty == FlattenSeq(<< >>) = << >>
BY DEF FlattenSeq

(* One more sequence at the end.                                            *)
LEMMA FlattenAppend ==
  ASSUME NEW S, NEW ss \in Seq(Seq(S)), NEW x \in Seq(S)
  PROVE  /\ FlattenSeq(Append(ss, x)) = FlattenSeq(ss) \o x
         /\ FlattenSeq(ss) \in Seq(S)
<1> DEFINE m == Len(ss)
           t == Append(ss, x)
<1>1. /\ m \in Nat /\ t \in Seq(Seq(S)) /\ Len(t) = m + 1 /\ Len(t) # 0
      /\ \A n \in 1..m : t[n] = ss[n] /\ ss[n] \in Seq(S)
      /\ t[m + 1] = x
  OBVIOUS
<1>2. PICK g : Flattens(g, t) /\ FlattenSeq(t) = g[m + 1]
  BY <1>1, FlattenRec
<1>3. CASE m = 0
  <2>1. ss = << >> /\ FlattenSeq(t) = x
    BY <1>1, <1>2, <1>3 DEF Flattens
  <2>2. << >> \o x = x /\ << >> \in Seq(S)
    OBVIOUS
  <2> HIDE DEF t
  <2>3. FlattenSeq(ss) = << >>
    BY <2>1, FlattenEmpty
  <2>4. FlattenSeq(t) = FlattenSeq(ss) \o x /\ FlattenSeq(ss) \in Seq(S)
    BY <2>1, <2>2, <2>3
  <2> QED
    BY <2>4 DEF t
<1>4. CASE m # 0
  <2>1. PICK f : Flattens(f, ss) /\ FlattenSeq(ss) = f[m]
    BY <1>4, FlattenRec
  <2> HIDE DEF t
  <2> DEFINE D == {n \in Nat : n + 1 <= m => f[n + 1] = g[n + 1] /\ f[n + 1] \in Seq(S)}
  <2>2. 0 \in D
    <3>1. 1 \in 1..m
      BY <1>1, <1>4
    <3>2. f[1] = ss[1] /\ g[1] = t[1]
      BY <1>1, <1>2, <1>4, <2>1 DEF Flattens
    <3> QED
      BY <1>1, <3>1, <3>2
  <2>3. ASSUME NEW n \in Nat, n \in D PROVE n + 1 \in D
    <3> SUFFICES ASSUME (n + 1) + 1 <= m
                 PROVE  f[(n + 1) + 1] = g[(n + 1) + 1] /\ f[(n + 1) + 1] \in Seq(S)
      OBVIOUS
    <3> DEFINE k == n + 2
    <3>1. (n + 1) + 1 = k /\ k - 1 = n + 1 /\ k \in 2..m /\ k \in 2..(m + 1) /\ k \in 1..m
      BY <1>1
    <3> HIDE DEF k
    <3>2. f[k] = f[k - 1] \o ss[k]
      BY <2>1, <3>1 DEF Flattens
    <3>3. g[k] = g[k - 1] \o t[k]
      BY <1>1, <1>2, <3>1 DEF Flattens
    <3>4. f[k - 1] = g[k - 1] /\ f[k - 1] \in Seq(S)
      BY <1>1, <2>3, <3>1
    <3>5. t[k] = ss[k] /\ ss[k] \in Seq(S)
      BY <1>1, <3>1
    <3>6. f[k] = g[k] /\ f[k] \in Seq(S)
      BY <3>2, <3>3, <3>4, <3>5
    <3> QED
      BY <3>1, <3>6
  <2> HIDE DEF D
  <2>4. \A n \in Nat : n \in D
    BY <2>2, <2>3, Induct
  <2>5. f[m] = g[m] /\ f[m] \in Seq(S)
    <3>1. m - 1 \in Nat /\ (m - 1) + 1 = m
      BY <1>1, <1>4
    <3>2. m - 1 \in D
      BY <2>4, <3>1
    <3>3. (m - 1) + 1 <= m => f[(m - 1) + 1] = g[(m - 1) + 1] /\ f[(m - 1) + 1] \in Seq(S)
      BY <3>2 DEF D
    <3>4. m <= m
      BY <1>1
    <3> QED
      BY <3>1, <3>3, <3>4
  <2>6. g[m + 1] = g[m] \o t[m + 1]
    <3>1. m + 1 \in 2..Len(t) /\ (m + 1) - 1 = m
      BY <1>1, <1>4
    <3> QED
      BY <1>2, <3>1 DEF Flattens
  <2> QED
    BY <1>1, <1>2, <2>1, <2>5, <2>6 DEF t
<1> QED
  BY <1>3, <1>4

-----------------------------------------------------------------------------
(* The scanner of a line.                                                  *)

(* What lines are made of.  A word is a piece that neither starts a sequence *)
(* nor separates a label from its value nor opens a failure; plain text has *)
(* no sequences.                                                            *)
Codes == {"0", BoldCyan, "2", "31", "32"}
Words == {"revision", "subsystem", "parent", "irq", "driver", "command", "status",
          "cache_line_size", "latency_timer", "header_type", "bist",
          "expansion_rom", "interrupt", "cardbus_cis_pointer", "bridge",
          "resources", "capabilities", "PCI_device", "address", "vendor",
          "device", "class", "bus", "io_behind_bridge", "memory_behind_bridge",
          "prefetchable_memory_behind_bridge", "secondary_status",
          "bridge_control", "resources:", "BAR", "capabilities:", "standard",
          "chain=complete", "name", "id_offset_next_state", "content",
          "extended", "chain=unavailable", "failed_to_load_details", "error",
          "value", "<unavailable>", "<not_available>", "<not-applicable>", ">",
          "Unknown", "NotBound", "ReadError"}
Plain  == Words \cup {Colon, "<unavailable"}
Piece  == Plain \cup Codes \cup {Esc, "[", "m"}
Pieces == Seq(Piece)
Style  == [fg : {"none", "cyan", "red", "green"}, bold : BOOLEAN, dim : BOOLEAN]
ScanState == [next : Nat, buffer : Pieces, style : Style,
              spans : Seq([text : Pieces, style : Style])]

(* Two of the pieces are hidden from here on: the prover is told what they   *)
(* are not, and cannot read them.                                           *)
LEMMA Literals ==
  /\ Colon \notin Words \cup {Esc, "[", "m", "<unavailable", "0", "2", "31", "32"}
  /\ BoldCyan \notin {Esc, "[", "m", "0", "2", "31", "32", Colon, "<unavailable"}
BY DEF Colon, BoldCyan, Esc, Words

(* No word is one of the pieces with a meaning.                             *)
LEMMA WordsAre ==
  \A x \in Words : x \notin {Esc, "[", "m", Colon, "<unavailable"}
BY ZenonT(40) DEF Colon, Esc, Words

(* The text of a scan so far and the style of each of its pieces.           *)
SeenText(g)   == PlainLine(g.spans) \o g.buffer
SeenStyles(g) == Styles(g.spans) \o [j \in DOMAIN g.buffer |-> g.style]

(* Sequences of codes make styles of styles.                                *)
LEMMA StyleTypes ==
  /\ DefaultStyle \in Style
  /\ \A y \in Style : \A p : ApplySgr(y, p) \in Style
<1>1. DefaultStyle \in Style
  BY DEF DefaultStyle, Style
<1>2. ASSUME NEW y \in Style, NEW p PROVE ApplySgr(y, p) \in Style
  <2>1. [y EXCEPT !.dim = TRUE] \in Style
    BY DEF Style
  <2>2. /\ [fg |-> "cyan", bold |-> TRUE, dim |-> FALSE] \in Style
        /\ [DefaultStyle EXCEPT !.fg = "red"] \in Style
        /\ [DefaultStyle EXCEPT !.fg = "green"] \in Style
    BY DEF Style, DefaultStyle
  <2> HIDE DEF Style, DefaultStyle
  <2> QED
    BY <1>1, <2>1, <2>2 DEF ApplySgr
<1> QED
  BY <1>1, <1>2

(* Append, element by element.                                              *)
LEMMA AppendIs ==
  ASSUME NEW S, NEW s \in Seq(S), NEW e \in S,
         NEW f, f = [i \in 1..(Len(s) + 1) |-> IF i <= Len(s) THEN s[i] ELSE e]
  PROVE  f = Append(s, e)
<1> DEFINE t == Append(s, e)
<1>1. /\ t \in Seq(S) /\ Len(t) = Len(s) + 1
      /\ \A i \in 1..Len(s) : t[i] = s[i]
      /\ t[Len(s) + 1] = e
  BY AppendProperties
<1> HIDE DEF t
<1>2. f \in Seq(S) /\ Len(f) = Len(s) + 1
  OBVIOUS
<1>3. \A i \in 1..Len(f) : f[i] = t[i]
  BY <1>1, <1>2
<1>4. f = t
  BY <1>1, <1>2, <1>3, SeqEqual
<1> QED
  BY <1>4 DEF t

(* One more span shows its text in its style.                               *)
LEMMA SpanAppend ==
  ASSUME NEW spans \in Seq([text : Pieces, style : Style]), NEW text \in Pieces, NEW y \in Style
  PROVE  LET more == Append(spans, [text |-> text, style |-> y])
         IN /\ PlainLine(more) = PlainLine(spans) \o text
            /\ Styles(more) = Styles(spans) \o [j \in DOMAIN text |-> y]
            /\ PlainLine(spans) \in Pieces
            /\ Styles(spans) \in Seq(Style)
<1> DEFINE more == Append(spans, [text |-> text, style |-> y])
           texts(s) == [i \in DOMAIN s |-> s[i].text]
           styles(s) == [i \in DOMAIN s |-> [j \in DOMAIN s[i].text |-> s[i].style]]
           mine == [j \in DOMAIN text |-> y]
<1>1. /\ Len(spans) \in Nat /\ DOMAIN spans = 1..Len(spans)
      /\ DOMAIN more = 1..(Len(spans) + 1)
      /\ \A i \in 1..Len(spans) : more[i] = spans[i]
      /\ more[Len(spans) + 1] = [text |-> text, style |-> y]
  OBVIOUS
<1>2. ASSUME NEW i \in DOMAIN spans PROVE spans[i].text \in Pieces /\ spans[i].style \in Style
  <2>1. spans[i] \in [text : Pieces, style : Style]
    BY <1>1, ElementOfSeq
  <2> QED
    BY <2>1
<1>3. mine \in Seq(Style)
  <2>1. Len(text) \in Nat /\ DOMAIN text = 1..Len(text)
    BY DEF Pieces
  <2> QED
    BY <2>1
<1> HIDE DEF more, mine
<1>4. texts(spans) \in Seq(Pieces) /\ texts(more) = Append(texts(spans), text)
  <2>1. texts(spans) \in Seq(Pieces) /\ Len(texts(spans)) = Len(spans)
    BY <1>1, <1>2
  <2>2. /\ texts(more) = [i \in 1..(Len(spans) + 1) |-> IF i <= Len(spans) THEN texts(spans)[i] ELSE text]
    BY <1>1
  <2> QED
    BY <1>1, <2>1, <2>2
<1>5. \A i \in DOMAIN spans : [j \in DOMAIN spans[i].text |-> spans[i].style] \in Seq(Style)
  <2>1. ASSUME NEW i \in DOMAIN spans
        PROVE  [j \in DOMAIN spans[i].text |-> spans[i].style] \in Seq(Style)
    <3>1. Len(spans[i].text) \in Nat /\ DOMAIN spans[i].text = 1..Len(spans[i].text)
      BY <1>2 DEF Pieces
    <3> QED
      BY <1>2, <3>1
  <2> QED
    BY <2>1
<1>6. styles(spans) \in Seq(Seq(Style)) /\ styles(more) = Append(styles(spans), mine)
  <2>1. styles(spans) \in Seq(Seq(Style)) /\ Len(styles(spans)) = Len(spans)
    BY <1>1, <1>5
  <2>2. styles(more) = [i \in 1..(Len(spans) + 1) |-> IF i <= Len(spans) THEN styles(spans)[i] ELSE mine]
    BY <1>1 DEF mine
  <2>3. styles(more) = Append(styles(spans), mine)
    <3> HIDE DEF styles
    <3> QED
      BY <1>3, <2>1, <2>2, AppendIs
  <2> QED
    BY <2>1, <2>3
<1>7. PlainLine(more) = FlattenSeq(texts(more)) /\ PlainLine(spans) = FlattenSeq(texts(spans))
  BY DEF PlainLine
<1>8. Styles(more) = FlattenSeq(styles(more)) /\ Styles(spans) = FlattenSeq(styles(spans))
  BY DEF Styles
<1> HIDE DEF texts, styles
<1>9. PlainLine(more) = PlainLine(spans) \o text /\ PlainLine(spans) \in Pieces
  BY <1>4, <1>7, FlattenAppend DEF Pieces
<1>10. Styles(more) = Styles(spans) \o mine /\ Styles(spans) \in Seq(Style)
  BY <1>3, <1>6, <1>8, FlattenAppend
<1> QED
  BY <1>9, <1>10 DEF more, mine

(* Joining pieces of a line.                                                *)
LEMMA Joined ==
  ASSUME NEW x \in Pieces, NEW z \in Pieces
  PROVE  /\ x \o z \in Pieces
         /\ Len(x) \in Nat /\ Len(z) \in Nat /\ Len(x \o z) = Len(x) + Len(z)
         /\ DOMAIN x = 1..Len(x)
         /\ \A i \in 1..(Len(x) + Len(z)) :
              (x \o z)[i] = IF i <= Len(x) THEN x[i] ELSE z[i - Len(x)]
BY ConcatProperties, LenProperties DEF Pieces

(* Joining is associative.                                                  *)
LEMMA Regroup ==
  ASSUME NEW x \in Pieces, NEW z \in Pieces, NEW u \in Pieces
  PROVE  (x \o z) \o u = x \o (z \o u)
BY ConcatAssociative, SMTT(30) DEF Pieces

(* The values scan takes in ScanLine.                                       *)
ScanIs(f, line, y) ==
  f[0] = ScanStart(y) /\ \A n \in 1..Len(line) : f[n] = ScanPiece(line, f[n - 1], n)

(* The loop over the pieces of a line.                                      *)
LEMMA ScanExists ==
  ASSUME NEW line \in Pieces, NEW y
  PROVE  \E f : ScanIs(f, line, y) /\ ScanLine(line, y) = PushSpan(f[Len(line)])
<1> DEFINE Rec(g, k) ==
             g = [n \in 0..k |-> IF n = 0 THEN ScanStart(y) ELSE ScanPiece(line, g[n - 1], n)]
<1>1. \A k \in Nat : \E g : Rec(g, k)
  <2> DEFINE D == {k \in Nat : \E g : Rec(g, k)}
  <2>1. 0 \in D
    <3>1. Rec([n \in 0..0 |-> ScanStart(y)], 0)
      OBVIOUS
    <3> HIDE DEF Rec
    <3> QED
      BY <3>1
  <2>2. ASSUME NEW k \in Nat, k \in D PROVE k + 1 \in D
    <3>1. PICK g : Rec(g, k)
      BY <2>2
    <3> DEFINE h == [n \in 0..(k + 1) |->
                       IF n = k + 1 THEN ScanPiece(line, g[k], k + 1) ELSE g[n]]
    <3>2. \A n \in 0..(k + 1) :
            h[n] = IF n = 0 THEN ScanStart(y) ELSE ScanPiece(line, h[n - 1], n)
      BY <3>1
    <3>3. Rec(h, k + 1)
      BY <3>2
    <3> HIDE DEF h, Rec
    <3> QED
      BY <3>3
  <2> HIDE DEF D
  <2>3. \A k \in Nat : k \in D
    BY <2>1, <2>2, Induct
  <2> QED
    BY <2>3 DEF D
<1> DEFINE f == CHOOSE g : Rec(g, Len(line))
<1>2. ScanLine(line, y) = PushSpan(f[Len(line)])
  BY DEF ScanLine
<1>3. Len(line) \in Nat
  BY DEF Pieces
<1>4. Rec(f, Len(line))
  <2> HIDE DEF Rec
  <2> QED
    BY <1>1, <1>3
<1> HIDE DEF f
<1>5. ScanIs(f, line, y)
  BY <1>3, <1>4 DEF ScanIs
<1> QED
  BY <1>2, <1>5

(* What a scan has seen has the types of a line and of its styles.           *)
LEMMA SeenTypes ==
  ASSUME NEW g \in ScanState
  PROVE  /\ SeenText(g) \in Pieces /\ SeenStyles(g) \in Seq(Style)
         /\ g.buffer \in Pieces /\ g.style \in Style /\ g.next \in Nat
         /\ g.spans \in Seq([text : Pieces, style : Style])
         /\ PlainLine(g.spans) \in Pieces /\ Styles(g.spans) \in Seq(Style)
         /\ [j \in DOMAIN g.buffer |-> g.style] \in Seq(Style)
<1>1. /\ g.buffer \in Pieces /\ g.style \in Style /\ g.next \in Nat
      /\ g.spans \in Seq([text : Pieces, style : Style])
  BY DEF ScanState
<1>2. PlainLine(g.spans) \in Pieces /\ Styles(g.spans) \in Seq(Style)
  BY <1>1, SpanAppend
<1>3. Len(g.buffer) \in Nat /\ DOMAIN g.buffer = 1..Len(g.buffer)
  BY <1>1 DEF Pieces
<1>4. [j \in DOMAIN g.buffer |-> g.style] \in Seq(Style)
  BY <1>1, <1>3
<1>5. SeenText(g) \in Pieces
  BY <1>1, <1>2, ConcatProperties DEF SeenText, Pieces
<1>6. SeenStyles(g) \in Seq(Style)
  BY <1>2, <1>4, ConcatProperties DEF SeenStyles
<1> QED
  BY <1>1, <1>2, <1>4, <1>5, <1>6

(* Making the buffer a span shows nothing more.                             *)
LEMMA PushKeeps ==
  ASSUME NEW g \in ScanState
  PROVE  /\ PushSpan(g) \in ScanState
         /\ PushSpan(g).next = g.next /\ PushSpan(g).style = g.style
         /\ PushSpan(g).buffer = << >>
         /\ PlainLine(PushSpan(g).spans) = SeenText(g)
         /\ Styles(PushSpan(g).spans) = SeenStyles(g)
<1> DEFINE p == PushSpan(g)
           span == [text |-> g.buffer, style |-> g.style]
           mine == [j \in DOMAIN g.buffer |-> g.style]
<1>1. /\ g.buffer \in Pieces /\ g.style \in Style /\ g.next \in Nat
      /\ g.spans \in Seq([text : Pieces, style : Style])
      /\ PlainLine(g.spans) \in Pieces /\ Styles(g.spans) \in Seq(Style)
  BY SeenTypes
<1>2. CASE g.buffer = << >>
  <2>1. p = g
    BY <1>2 DEF PushSpan
  <2>2. mine = << >>
    BY <1>2
  <2>3. PlainLine(g.spans) \o << >> = PlainLine(g.spans)
    BY <1>1, ConcatEmptySeq DEF Pieces
  <2>4. Styles(g.spans) \o << >> = Styles(g.spans)
    BY <1>1, ConcatEmptySeq
  <2> HIDE DEF mine
  <2> QED
    BY <1>2, <2>1, <2>2, <2>3, <2>4 DEF SeenText, SeenStyles, mine
<1>3. CASE g.buffer # << >>
  <2>1. p = [g EXCEPT !.spans = Append(@, span), !.buffer = << >>]
    BY <1>3 DEF PushSpan
  <2>2. /\ p.next = g.next /\ p.style = g.style /\ p.buffer = << >>
        /\ p.spans = Append(g.spans, span)
    BY <2>1 DEF ScanState
  <2>3. Append(g.spans, span) \in Seq([text : Pieces, style : Style])
    <3>1. span \in [text : Pieces, style : Style]
      BY <1>1
    <3> HIDE DEF span
    <3> QED
      BY <1>1, <3>1, AppendProperties
  <2>4. << >> \in Pieces
    BY DEF Pieces
  <2>5. p \in ScanState
    BY <1>1, <2>1, <2>3, <2>4 DEF ScanState
  <2>6. /\ PlainLine(Append(g.spans, span)) = PlainLine(g.spans) \o g.buffer
        /\ Styles(Append(g.spans, span)) = Styles(g.spans) \o mine
    BY <1>1, SpanAppend
  <2> HIDE DEF span, mine, p
  <2> QED
    BY <2>2, <2>5, <2>6 DEF SeenText, SeenStyles, mine, p
<1> QED
  BY <1>2, <1>3

(* After n pieces the scan f is outside every sequence, has seen text, in   *)
(* those styles, and goes on in style y.                                    *)
At(f, n, text, styles, y) ==
  /\ f[n] \in ScanState /\ f[n].next <= n + 1
  /\ SeenText(f[n]) = text /\ SeenStyles(f[n]) = styles /\ f[n].style = y

(* Wherever it stands in a line, x, scanned in style y, shows text in those *)
(* styles and leaves style z.                                               *)
Means(x, y, text, styles, z) ==
  /\ x \in Pieces /\ text \in Pieces /\ styles \in Seq(Style)
  /\ \A before, after \in Pieces : \A f, y0, t, s :
       /\ ScanIs(f, before \o x \o after, y0)
       /\ At(f, Len(before), t, s, y)
       => At(f, Len(before) + Len(x), t \o text, s \o styles, z)

(* A piece that does not start a sequence is text.                          *)
LEMMA TextPiece ==
  ASSUME NEW line, NEW i \in Nat, NEW g \in ScanState, g.next <= i,
         line[i] \in Piece, line[i] # Esc
  PROVE  LET h == ScanPiece(line, g, i)
         IN /\ h \in ScanState /\ h.next = g.next /\ h.style = g.style
            /\ SeenText(h) = SeenText(g) \o <<line[i]>>
            /\ SeenStyles(h) = SeenStyles(g) \o <<g.style>>
<1> DEFINE h == ScanPiece(line, g, i)
           b == Append(g.buffer, line[i])
           mine == [j \in DOMAIN g.buffer |-> g.style]
           more == [j \in DOMAIN b |-> g.style]
<1>1. /\ g.buffer \in Pieces /\ g.style \in Style /\ g.next \in Nat
      /\ g.spans \in Seq([text : Pieces, style : Style])
      /\ PlainLine(g.spans) \in Pieces /\ Styles(g.spans) \in Seq(Style)
      /\ mine \in Seq(Style)
  BY SeenTypes
<1>2. h = [g EXCEPT !.buffer = b]
  BY <1>1 DEF ScanPiece
<1>3. b \in Pieces /\ b = g.buffer \o <<line[i]>> /\ Len(b) = Len(g.buffer) + 1
  BY <1>1, AppendProperties, AppendIsConcat DEF Pieces
<1>4. h \in ScanState /\ h.next = g.next /\ h.style = g.style /\ h.buffer = b /\ h.spans = g.spans
  BY <1>1, <1>2, <1>3 DEF ScanState
<1>5. more = mine \o <<g.style>>
  <2>1. /\ DOMAIN b = 1..Len(b) /\ DOMAIN g.buffer = 1..Len(g.buffer)
        /\ Len(g.buffer) \in Nat /\ Len(b) \in Nat
    BY <1>1, <1>3 DEF Pieces
  <2>2. Len(mine) = Len(g.buffer)
    BY <2>1
  <2>3. more = [j \in 1..(Len(mine) + 1) |-> IF j <= Len(mine) THEN mine[j] ELSE g.style]
    BY <1>3, <2>1, <2>2
  <2> HIDE DEF mine, more
  <2>4. more = Append(mine, g.style)
    BY <1>1, <2>3, AppendIs
  <2> QED
    BY <1>1, <2>4, AppendIsConcat
<1>6. SeenText(h) = SeenText(g) \o <<line[i]>>
  <2>1. <<line[i]>> \in Pieces
    BY DEF Pieces
  <2>2. PlainLine(g.spans) \o (g.buffer \o <<line[i]>>) = (PlainLine(g.spans) \o g.buffer) \o <<line[i]>>
    BY <1>1, <2>1, Regroup
  <2> QED
    BY <1>3, <1>4, <2>2 DEF SeenText
<1>7. SeenStyles(h) = SeenStyles(g) \o <<g.style>>
  <2>1. <<g.style>> \in Seq(Style)
    BY <1>1
  <2>2. SeenStyles(h) = Styles(g.spans) \o more
    BY <1>4 DEF SeenStyles
  <2>3. SeenStyles(g) = Styles(g.spans) \o mine
    BY DEF SeenStyles
  <2> HIDE DEF mine, more
  <2>4. Styles(g.spans) \o (mine \o <<g.style>>) = (Styles(g.spans) \o mine) \o <<g.style>>
    BY <1>1, <2>1, ConcatAssociative
  <2> QED
    BY <1>5, <2>2, <2>3, <2>4
<1> HIDE DEF h
<1> QED
  BY <1>4, <1>6, <1>7 DEF h

(* The text and the styles of two parts of a line, one behind the other.     *)
LEMMA MeansConcat ==
  ASSUME NEW x, NEW y, NEW t, NEW s, NEW z, Means(x, y, t, s, z),
         NEW x2, NEW t2, NEW s2, NEW z2, Means(x2, z, t2, s2, z2)
  PROVE  Means(x \o x2, y, t \o t2, s \o s2, z2)
<1>1. /\ x \in Pieces /\ t \in Pieces /\ s \in Seq(Style)
      /\ x2 \in Pieces /\ t2 \in Pieces /\ s2 \in Seq(Style)
  BY DEF Means
<1>2. x \o x2 \in Pieces /\ t \o t2 \in Pieces /\ Len(x \o x2) = Len(x) + Len(x2)
      /\ Len(x) \in Nat /\ Len(x2) \in Nat
  BY <1>1, Joined
<1>3. s \o s2 \in Seq(Style)
  BY <1>1, ConcatProperties
<1>4. ASSUME NEW before \in Pieces, NEW after \in Pieces, NEW f, NEW y0, NEW t0, NEW s0,
             ScanIs(f, before \o (x \o x2) \o after, y0), At(f, Len(before), t0, s0, y)
      PROVE  At(f, Len(before) + Len(x \o x2), t0 \o (t \o t2), s0 \o (s \o s2), z2)
  <2>1. /\ before \o (x \o x2) \o after = before \o x \o (x2 \o after)
        /\ before \o (x \o x2) \o after = (before \o x) \o x2 \o after
        /\ x2 \o after \in Pieces /\ before \o x \in Pieces
        /\ Len(before \o x) = Len(before) + Len(x) /\ Len(before) \in Nat
    <3>1. /\ x2 \o after \in Pieces /\ before \o x \in Pieces
          /\ Len(before \o x) = Len(before) + Len(x) /\ Len(before) \in Nat
      BY <1>1, Joined
    <3>2. before \o (x \o x2) = (before \o x) \o x2
      BY <1>1, Regroup, ZenonT(30)
    <3> DEFINE bx == before \o x
    <3>3. (bx \o x2) \o after = bx \o (x2 \o after)
      <4>1. bx \in Pieces
        BY <3>1
      <4> HIDE DEF bx
      <4> QED
        BY <1>1, <4>1, Regroup, ZenonT(30)
    <3> QED
      BY <3>1, <3>2, <3>3
  <2>2. ScanIs(f, before \o x \o (x2 \o after), y0) /\ ScanIs(f, (before \o x) \o x2 \o after, y0)
    BY <1>4, <2>1, Zenon
  <2>3. At(f, Len(before) + Len(x), t0 \o t, s0 \o s, z)
    BY <1>4, <2>1, <2>2 DEF Means
  <2>4. At(f, Len(before \o x) + Len(x2), (t0 \o t) \o t2, (s0 \o s) \o s2, z2)
    BY <2>1, <2>2, <2>3 DEF Means
  <2>5. t0 \in Pieces /\ s0 \in Seq(Style)
    BY <1>4, SeenTypes DEF At
  <2>6. (t0 \o t) \o t2 = t0 \o (t \o t2)
    <3>1. t0 \in Pieces /\ t \in Pieces /\ t2 \in Pieces
      BY <1>1, <2>5
    <3> QED
      BY <3>1, Regroup
  <2>7. (s0 \o s) \o s2 = s0 \o (s \o s2)
    BY <1>1, <2>5, ConcatAssociative, SMTT(30)
  <2>8. Len(before \o x) + Len(x2) = Len(before) + Len(x \o x2)
    BY <1>2, <2>1
  <2> QED
    BY <2>4, <2>6, <2>7, <2>8
<1> QED
  BY <1>2, <1>3, <1>4 DEF Means

(* A piece of text shows itself in the style of the moment.                 *)
LEMMA MeansPiece ==
  ASSUME NEW x \in Plain, NEW y \in Style
  PROVE  Means(<<x>>, y, <<x>>, <<y>>, y)
<1>1. x \in Piece /\ x # Esc
  BY Literals, WordsAre DEF Piece, Plain, Esc
<1>2. <<x>> \in Pieces /\ <<y>> \in Seq(Style) /\ Len(<<x>>) = 1 /\ <<x>>[1] = x
  BY <1>1 DEF Pieces
<1>3. ASSUME NEW before \in Pieces, NEW after \in Pieces, NEW f, NEW y0, NEW t0, NEW s0,
             ScanIs(f, before \o <<x>> \o after, y0), At(f, Len(before), t0, s0, y)
      PROVE  At(f, Len(before) + Len(<<x>>), t0 \o <<x>>, s0 \o <<y>>, y)
  <2> DEFINE one == <<x>>
             line == before \o one \o after
             n == Len(before)
  <2>1. /\ n \in Nat /\ n + 1 \in 1..Len(line) /\ line[n + 1] = x /\ (n + 1) - 1 = n
    <3> HIDE DEF one
    <3>1. one \in Pieces /\ Len(one) = 1 /\ one[1] = x
      BY <1>2 DEF one
    <3> DEFINE front == before \o one
    <3>2. /\ front \in Pieces /\ Len(front) = n + 1 /\ n \in Nat
          /\ \A i \in 1..(n + 1) : front[i] = IF i <= n THEN before[i] ELSE one[i - n]
      <4>1. /\ before \o one \in Pieces /\ Len(before \o one) = Len(before) + Len(one)
            /\ Len(before) \in Nat
            /\ \A i \in 1..(Len(before) + Len(one)) :
                 (before \o one)[i] = IF i <= Len(before) THEN before[i] ELSE one[i - Len(before)]
        BY <3>1, Joined
      <4> QED
        BY <3>1, <4>1
    <3> HIDE DEF n
    <3>3. front[n + 1] = x
      <4>1. n + 1 \in 1..(n + 1) /\ ~(n + 1 <= n) /\ (n + 1) - n = 1
        BY <3>2
      <4> QED
        BY <3>1, <3>2, <4>1
    <3> HIDE DEF front
    <3>4. /\ Len(front \o after) = Len(front) + Len(after) /\ Len(after) \in Nat
          /\ \A i \in 1..(Len(front) + Len(after)) :
               (front \o after)[i] = IF i <= Len(front) THEN front[i] ELSE after[i - Len(front)]
      BY <3>2, Joined
    <3>5. line = front \o after
      BY DEF front
    <3> HIDE DEF line
    <3> QED
      BY <3>2, <3>3, <3>4, <3>5
  <2>2. f[n + 1] = ScanPiece(line, f[n], n + 1)
    BY <1>3, <2>1 DEF ScanIs
  <2> HIDE DEF line
  <2>3. f[n] \in ScanState /\ f[n].next <= n + 1 /\ SeenText(f[n]) = t0
        /\ SeenStyles(f[n]) = s0 /\ f[n].style = y
    BY <1>3 DEF At
  <2>4. n + 1 \in Nat /\ line[n + 1] \in Piece /\ line[n + 1] # Esc
    BY <1>1, <2>1
  <2> HIDE DEF n
  <2> DEFINE g == f[n]
             h == f[n + 1]
             k == n + 1
  <2>5. /\ f[n + 1] \in ScanState /\ f[n + 1].next = f[n].next /\ f[n + 1].style = f[n].style
        /\ SeenText(f[n + 1]) = SeenText(f[n]) \o <<line[n + 1]>>
        /\ SeenStyles(f[n + 1]) = SeenStyles(f[n]) \o <<f[n].style>>
    <3>1. h = ScanPiece(line, g, k) /\ g \in ScanState /\ g.next <= k
      BY <2>2, <2>3
    <3>2. k \in Nat /\ line[k] \in Piece /\ line[k] # Esc
      BY <2>4
    <3> HIDE DEF g, h, k
    <3>3. /\ h \in ScanState /\ h.next = g.next /\ h.style = g.style
          /\ SeenText(h) = SeenText(g) \o <<line[k]>>
          /\ SeenStyles(h) = SeenStyles(g) \o <<g.style>>
      BY <3>1, <3>2, TextPiece, ZenonT(30)
    <3> QED
      BY <3>3 DEF g, h, k
  <2>6. f[n + 1].next <= (n + 1) + 1
    <3>1. f[n].next \in Nat
      BY <2>3, SeenTypes
    <3> QED
      BY <2>1, <2>3, <2>5, <3>1
  <2>7. At(f, n + 1, t0 \o <<x>>, s0 \o <<y>>, y)
    BY <2>1, <2>3, <2>5, <2>6 DEF At
  <2> QED
    BY <1>2, <2>7 DEF n
<1> QED
  BY <1>2, <1>3 DEF Means

(* What SGR codes look like in a line.                                       *)
LEMMA SgrPieces ==
  ASSUME NEW code \in Codes
  PROVE  /\ Sgr(code) \in Pieces /\ Len(Sgr(code)) = 4
         /\ Sgr(code)[1] = Esc /\ Sgr(code)[2] = "[" /\ Sgr(code)[3] = code
         /\ Sgr(code)[4] = "m" /\ code # "m" /\ code \in Piece
<1>1. /\ Esc \in Piece /\ "[" \in Piece /\ code \in Piece /\ "m" \in Piece /\ code # "m"
  BY Literals DEF Piece, Codes, Esc
<1> QED
  BY <1>1 DEF Sgr, Pieces

(* A sequence shows nothing and changes the style.                          *)
LEMMA MeansSgr ==
  ASSUME NEW code \in Codes, NEW y \in Style
  PROVE  Means(Sgr(code), y, << >>, << >>, ApplySgr(y, <<code>>))
<1> DEFINE x == Sgr(code)
           z == ApplySgr(y, <<code>>)
<1>1. /\ x \in Pieces /\ Len(x) = 4 /\ x[1] = Esc /\ x[2] = "[" /\ x[3] = code
      /\ x[4] = "m" /\ code # "m" /\ code \in Piece
  BY SgrPieces
<1>2. << >> \in Pieces /\ << >> \in Seq(Style)
  BY DEF Pieces
<1>3. ASSUME NEW before \in Pieces, NEW after \in Pieces, NEW f, NEW y0, NEW t0, NEW s0,
             ScanIs(f, before \o x \o after, y0), At(f, Len(before), t0, s0, y)
      PROVE  At(f, Len(before) + Len(x), t0 \o << >>, s0 \o << >>, z)
  <2> DEFINE line == before \o x \o after
             n == Len(before)
             ends == {j \in ((n + 1) + 2)..Len(line) : line[j] = "m"}
  <2> HIDE DEF x
  <2>1. /\ n \in Nat /\ line \in Pieces /\ Len(line) \in Nat /\ n + 4 <= Len(line)
        /\ line[n + 1] = Esc /\ line[n + 2] = "[" /\ line[n + 3] = code /\ line[n + 4] = "m"
    <3> DEFINE front == before \o x
    <3>1. /\ front \in Pieces /\ Len(front) = n + 4 /\ n \in Nat
          /\ \A i \in 1..(n + 4) : front[i] = IF i <= n THEN before[i] ELSE x[i - n]
      BY <1>1, Joined, ZenonT(30)
    <3> HIDE DEF n
    <3>2. front[n + 1] = x[1] /\ front[n + 2] = x[2] /\ front[n + 3] = x[3] /\ front[n + 4] = x[4]
      <4>1. ASSUME NEW i \in 1..4 PROVE front[n + i] = x[i]
        <5>1. n + i \in 1..(n + 4) /\ ~(n + i <= n) /\ (n + i) - n = i
          BY <3>1
        <5> QED
          BY <3>1, <5>1
      <4>2. 1 \in 1..4 /\ 2 \in 1..4 /\ 3 \in 1..4 /\ 4 \in 1..4
        OBVIOUS
      <4> QED
        BY <4>1, <4>2, Zenon
    <3> HIDE DEF front
    <3>3. /\ front \o after \in Pieces /\ Len(front \o after) = Len(front) + Len(after)
          /\ Len(after) \in Nat
          /\ \A i \in 1..(Len(front) + Len(after)) :
               (front \o after)[i] = IF i <= Len(front) THEN front[i] ELSE after[i - Len(front)]
      BY <3>1, Joined
    <3>4. line = front \o after
      BY DEF front
    <3> HIDE DEF line
    <3>5. \A i \in 1..4 : line[n + i] = front[n + i]
      BY <3>1, <3>3, <3>4
    <3> QED
      BY <1>1, <3>1, <3>2, <3>3, <3>4, <3>5
  <2>2. \A k \in 1..4 : f[n + k] = ScanPiece(line, f[n + k - 1], n + k)
    BY <1>3, <2>1 DEF ScanIs
  <2> HIDE DEF line
  <2>3. f[n] \in ScanState /\ f[n].next <= n + 1 /\ SeenText(f[n]) = t0
        /\ SeenStyles(f[n]) = s0 /\ f[n].style = y /\ f[n].next \in Nat
    BY <1>3, SeenTypes DEF At
  <2>4. Min(ends) = n + 4 /\ ends # {}
    <3>1. n + 4 \in ends /\ n + 3 \notin ends /\ ends \in SUBSET Nat
      BY <1>1, <2>1
    <3>2. \A j \in ends : n + 3 <= j
      BY <2>1
    <3> HIDE DEF ends
    <3>3. Min(ends) \in ends /\ \A j \in ends : Min(ends) <= j
      BY <3>1, MinIsLeast
    <3>4. Min(ends) <= n + 4 /\ n + 3 <= Min(ends) /\ Min(ends) # n + 3 /\ Min(ends) \in Nat
      BY <3>1, <3>2, <3>3
    <3> QED
      BY <2>1, <3>1, <3>4
  <2>5. SubSeq(line, (n + 1) + 2, (n + 4) - 1) = <<code>>
    <3>1. (n + 1) + 2 = n + 3 /\ (n + 4) - 1 = n + 3
      BY <2>1
    <3>2. SubSeq(line, n + 3, n + 3) = <<line[n + 3]>>
      <4> DEFINE m == n + 3
      <4>1. m \in 1..Len(line) /\ line \in Seq(Piece)
        BY <2>1 DEF Pieces
      <4> HIDE DEF m
      <4>2. line[m] \in Piece /\ m \in 1..(Len(line) + 1) /\ m \in (m - 1)..Len(line)
            /\ m \in Int
        BY <2>1, <4>1, ElementOfSeq
      <4> DEFINE sub == SubSeq(line, m, m)
                 one == <<line[m]>>
      <4>3. sub \in Seq(Piece) /\ Len(sub) = 1 /\ sub[1] = line[m]
        BY <2>1, <4>1, <4>2
      <4>4. one \in Seq(Piece) /\ Len(one) = 1 /\ one[1] = line[m]
        BY <4>2
      <4> HIDE DEF sub, one
      <4>5. \A i \in 1..Len(sub) : sub[i] = one[i]
        BY <4>3, <4>4
      <4>6. sub = one
        BY <4>3, <4>4, <4>5, SeqEqual
      <4> QED
        BY <4>6 DEF m, sub, one
    <3> QED
      BY <2>1, <3>1, <3>2
  <2> HIDE DEF n
  <2>6. f[n + 1] = Restyle(f[n], <<code>>, n + 4)
    <3>1. f[n + 1] = ScanPiece(line, f[n], n + 1)
      <4>1. n + 1 - 1 = n
        BY <2>1
      <4> QED
        BY <2>2, <4>1
    <3>2. n + 1 < Len(line) /\ ~(n + 1 < f[n].next) /\ (n + 1) + 1 = n + 2
      BY <2>1, <2>3
    <3>3. ScanPiece(line, f[n], n + 1) =
            Restyle(f[n], SubSeq(line, (n + 1) + 2, Min(ends) - 1), Min(ends))
      BY <2>1, <2>4, <3>2 DEF ScanPiece
    <3> HIDE DEF ends
    <3> QED
      BY <2>4, <2>5, <3>1, <3>3
  <2>7. /\ f[n + 1] \in ScanState /\ f[n + 1].next = n + 5 /\ f[n + 1].style = z
        /\ SeenText(f[n + 1]) = t0 /\ SeenStyles(f[n + 1]) = s0
    <3> DEFINE p == PushSpan(f[n])
    <3>1. /\ p \in ScanState /\ p.style = y /\ p.buffer = << >>
          /\ PlainLine(p.spans) = t0 /\ Styles(p.spans) = s0
      BY <2>3, PushKeeps
    <3>2. f[n + 1] = [p EXCEPT !.style = ApplySgr(@, <<code>>), !.next = (n + 4) + 1]
      BY <2>6 DEF Restyle
    <3> HIDE DEF p
    <3>3. ApplySgr(p.style, <<code>>) = z /\ z \in Style
      BY <3>1, StyleTypes
    <3>4. (n + 4) + 1 = n + 5 /\ n + 5 \in Nat
      BY <2>1
    <3> HIDE DEF z
    <3>5. /\ f[n + 1] \in ScanState /\ f[n + 1].next = n + 5 /\ f[n + 1].style = z
          /\ f[n + 1].buffer = << >> /\ f[n + 1].spans = p.spans
      BY <3>1, <3>2, <3>3, <3>4 DEF ScanState
    <3>6. PlainLine(p.spans) \o << >> = t0 /\ Styles(p.spans) \o << >> = s0
      <4>1. t0 \in Seq(Piece) /\ s0 \in Seq(Style)
        BY <2>3, SeenTypes DEF Pieces
      <4> QED
        BY <3>1, <4>1, ConcatEmptySeq
    <3>7. [j \in DOMAIN << >> |-> z] = << >>
      OBVIOUS
    <3> QED
      BY <3>5, <3>6, <3>7 DEF SeenText, SeenStyles
  <2>8. f[n + 4] = f[n + 1]
    <3>1. ASSUME NEW k \in 2..4, f[n + k - 1].next = n + 5 PROVE f[n + k] = f[n + k - 1]
      <4>1. n + k < f[n + k - 1].next /\ k \in 1..4
        BY <2>1, <3>1
      <4>2. f[n + k] = ScanPiece(line, f[n + k - 1], n + k)
        BY <2>2, <4>1
      <4> QED
        BY <4>1, <4>2 DEF ScanPiece
    <3>2. n + 2 - 1 = n + 1 /\ n + 3 - 1 = n + 2 /\ n + 4 - 1 = n + 3
      BY <2>1
    <3>3. f[n + 2] = f[n + 1]
      BY <2>7, <3>1, <3>2
    <3>4. f[n + 3] = f[n + 2]
      BY <2>7, <3>1, <3>2, <3>3
    <3>5. f[n + 4] = f[n + 3]
      BY <2>7, <3>1, <3>2, <3>3, <3>4
    <3> QED
      BY <3>3, <3>4, <3>5
  <2>9. At(f, n + 4, t0, s0, z)
    <3>1. n + 5 <= (n + 4) + 1
      BY <2>1
    <3> QED
      BY <2>7, <2>8, <3>1 DEF At
  <2>10. t0 \o << >> = t0 /\ s0 \o << >> = s0
    <3>1. t0 \in Seq(Piece) /\ s0 \in Seq(Style)
      BY <2>3, SeenTypes DEF Pieces
    <3> QED
      BY <3>1, ConcatEmptySeq
  <2> QED
    BY <1>1, <2>9, <2>10 DEF n
<1> HIDE DEF x
<1>4. Means(x, y, << >>, << >>, z)
  BY <1>1, <1>2, <1>3 DEF Means
<1> QED
  BY <1>4 DEF x

(* The spans of a line.                                                      *)
LEMMA MeansLine ==
  ASSUME NEW line, NEW y \in Style, NEW t, NEW s, NEW z, Means(line, y, t, s, z)
  PROVE  /\ PlainLine(ScanLine(line, y).spans) = t
         /\ Styles(ScanLine(line, y).spans) = s
         /\ ScanLine(line, y).style = z
<1>1. line \in Pieces /\ t \in Pieces /\ s \in Seq(Style)
  BY DEF Means
<1>2. PICK f : ScanIs(f, line, y) /\ ScanLine(line, y) = PushSpan(f[Len(line)])
  BY <1>1, ScanExists
<1> DEFINE e == << >>
<1>3. /\ e \in Pieces /\ Len(e) = 0 /\ Len(line) \in Nat
      /\ e \o line = line /\ line \o e = line
  BY <1>1, ConcatEmptySeq DEF Pieces
<1>4. e \o t = t /\ e \o s = s
  BY <1>1, ConcatEmptySeq DEF Pieces
<1>5. At(f, 0, e, e, y)
  <2>1. f[0] = [next |-> 1, buffer |-> e, style |-> y, spans |-> e]
    BY <1>2 DEF ScanIs, ScanStart
  <2>2. e \in Seq([text : Pieces, style : Style])
    OBVIOUS
  <2>3. f[0] \in ScanState
    BY <1>3, <2>1, <2>2 DEF ScanState
  <2>4. PlainLine(e) = e /\ Styles(e) = e
    <3>1. [i \in DOMAIN e |-> e[i].text] = e
      OBVIOUS
    <3>2. [i \in DOMAIN e |-> [j \in DOMAIN e[i].text |-> e[i].style]] = e
      OBVIOUS
    <3> QED
      BY <3>1, <3>2, FlattenEmpty DEF PlainLine, Styles
  <2>5. e \o e = e /\ [j \in DOMAIN e |-> y] = e
    OBVIOUS
  <2> HIDE DEF e
  <2>6. f[0].buffer = e /\ f[0].spans = e /\ f[0].style = y /\ f[0].next = 1
    BY <2>1
  <2> QED
    BY <2>3, <2>4, <2>5, <2>6 DEF At, SeenText, SeenStyles
<1> HIDE DEF e
<1>6. e \o line \o e = line
  BY <1>3
<1>7. At(f, Len(e) + Len(line), e \o t, e \o s, z)
  <2>1. ScanIs(f, e \o line \o e, y)
    BY <1>2, <1>6
  <2>2. At(f, Len(e), e, e, y)
    BY <1>3, <1>5
  <2> QED
    BY <1>3, <2>1, <2>2 DEF Means
<1>8. At(f, Len(line), t, s, z)
  <2>1. Len(e) + Len(line) = Len(line)
    BY <1>3
  <2> QED
    BY <1>4, <1>7, <2>1
<1> QED
  BY <1>2, <1>8, PushKeeps DEF At

(* A text in one style.                                                     *)
Solid(text, y) == [j \in DOMAIN text |-> y]

(* Nothing shows nothing and leaves the style.                              *)
LEMMA MeansEmpty ==
  ASSUME NEW y \in Style
  PROVE  Means(<< >>, y, << >>, << >>, y)
<1> DEFINE e == << >>
<1>1. e \in Pieces /\ e \in Seq(Style) /\ Len(e) = 0
  BY DEF Pieces
<1> HIDE DEF e
<1>2. ASSUME NEW before \in Pieces, NEW f, NEW t0, NEW s0, At(f, Len(before), t0, s0, y)
      PROVE  At(f, Len(before) + Len(e), t0 \o e, s0 \o e, y)
  <2>1. Len(before) + Len(e) = Len(before)
    BY <1>1, Joined
  <2>2. t0 \in Seq(Piece) /\ s0 \in Seq(Style)
    BY <1>2, SeenTypes DEF At, Pieces
  <2>3. t0 \o e = t0 /\ s0 \o e = s0
    BY <2>2, ConcatEmptySeq DEF e
  <2> QED
    BY <1>2, <2>1, <2>3
<1>3. Means(e, y, e, e, y)
  BY <1>1, <1>2 DEF Means
<1> QED
  BY <1>3 DEF e

(* One more piece in the same style.                                        *)
LEMMA SolidAppend ==
  ASSUME NEW text \in Pieces, NEW x \in Piece, NEW y \in Style
  PROVE  /\ Solid(text, y) \in Seq(Style) /\ Len(Solid(text, y)) = Len(text)
         /\ Solid(Append(text, x), y) = Solid(text, y) \o <<y>>
<1> DEFINE more == Append(text, x)
           m == Solid(more, y)
           s == Solid(text, y)
<1>1. /\ Len(text) \in Nat /\ DOMAIN text = 1..Len(text) /\ DOMAIN more = 1..(Len(text) + 1)
  BY DEF Pieces
<1> HIDE DEF more
<1>2. s \in Seq(Style) /\ Len(s) = Len(text)
  BY <1>1 DEF Solid
<1>3. m = [j \in 1..(Len(s) + 1) |-> IF j <= Len(s) THEN s[j] ELSE y]
  <2>1. s = [j \in 1..Len(text) |-> y] /\ m = [j \in 1..(Len(text) + 1) |-> y]
    BY <1>1 DEF Solid
  <2> HIDE DEF s, m
  <2> QED
    BY <1>1, <1>2, <2>1
<1> HIDE DEF s, m
<1>4. m = Append(s, y)
  BY <1>2, <1>3, AppendIs
<1>5. m = s \o <<y>>
  BY <1>2, <1>4, AppendIsConcat
<1> QED
  BY <1>2, <1>5 DEF m, s, more

(* Text without a sequence shows itself.                                     *)
LEMMA MeansPlain ==
  ASSUME NEW text \in Seq(Plain), NEW y \in Style
  PROVE  Means(text, y, text, Solid(text, y), y) /\ text \in Pieces
<1> DEFINE D == {n \in Nat : \A x \in Seq(Plain) :
                               Len(x) = n => Means(x, y, x, Solid(x, y), y)}
<1>0. Plain \subseteq Piece
  BY DEF Piece
<1>1. 0 \in D
  <2>1. Solid(<< >>, y) = << >>
    BY DEF Solid
  <2>2. ASSUME NEW x \in Seq(Plain), Len(x) = 0 PROVE Means(x, y, x, Solid(x, y), y)
    <3>1. x = << >>
      BY <2>2
    <3> QED
      BY <2>1, <3>1, MeansEmpty
  <2> QED
    BY <2>2
<1>2. ASSUME NEW n \in Nat, n \in D PROVE n + 1 \in D
  <2>1. ASSUME NEW x \in Seq(Plain), Len(x) = n + 1 PROVE Means(x, y, x, Solid(x, y), y)
    <3>1. PICK u \in Seq(Plain), e \in Plain : x = Append(u, e)
      <4>1. x # << >>
        BY <2>1
      <4> QED
        BY <4>1, SequenceEmptyOrAppend
    <3>2. Len(u) = n /\ Append(u, e) = u \o <<e>>
      BY <2>1, <3>1, AppendProperties, AppendIsConcat
    <3>3. Means(u, y, u, Solid(u, y), y)
      BY <1>2, <3>2
    <3>4. Means(<<e>>, y, <<e>>, <<y>>, y)
      BY MeansPiece
    <3>5. Means(u \o <<e>>, y, u \o <<e>>, Solid(u, y) \o <<y>>, y)
      BY <3>3, <3>4, MeansConcat
    <3>6. u \in Pieces /\ e \in Piece
      BY <1>0, SeqMonotonic DEF Pieces
    <3>7. Solid(x, y) = Solid(u, y) \o <<y>>
      BY <3>1, <3>6, SolidAppend
    <3> QED
      BY <3>1, <3>2, <3>5, <3>7
  <2> HIDE DEF Means
  <2> QED
    BY <2>1
<1> HIDE DEF D
<1>3. \A n \in Nat : n \in D
  BY <1>1, <1>2, Induct
<1>4. Len(text) \in D
  BY <1>3
<1> QED
  BY <1>0, <1>4, SeqMonotonic DEF D, Pieces

(* Painted text shows what it is painted around, and leaves no style.        *)
LEMMA MeansPaint ==
  ASSUME NEW code \in Codes, NEW y \in Style, NEW z \in Style, NEW x, NEW t, NEW s,
         Means(x, ApplySgr(y, <<code>>), t, s, z)
  PROVE  Means(Paint(TRUE, code, x), y, t, s, DefaultStyle)
<1> DEFINE e == << >>
           y1 == ApplySgr(y, <<code>>)
<1>1. t \in Seq(Piece) /\ s \in Seq(Style)
  BY DEF Means, Pieces
<1>2. e \o t = t /\ e \o s = s /\ t \o e = t /\ s \o e = s
  BY <1>1, ConcatEmptySeq
<1>3. Means(Sgr(code), y, e, e, y1)
  BY MeansSgr
<1>4. "0" \in Codes /\ ApplySgr(z, <<"0">>) = DefaultStyle
  <2>1. <<"0">> \in {<<"0">>, << >>} /\ BoldCyan # "0"
    BY Literals
  <2> QED
    BY <2>1 DEF Codes, ApplySgr
<1>5. Means(Sgr("0"), z, e, e, DefaultStyle)
  BY <1>4, MeansSgr
<1> HIDE DEF e, y1
<1>6. Means(Sgr(code) \o x, y, e \o t, e \o s, z)
  BY <1>3, MeansConcat DEF y1
<1>7. Means((Sgr(code) \o x) \o Sgr("0"), y, (e \o t) \o e, (e \o s) \o e, DefaultStyle)
  BY <1>5, <1>6, MeansConcat
<1>8. Paint(TRUE, code, x) = (Sgr(code) \o x) \o Sgr("0")
  BY DEF Paint
<1> QED
  BY <1>2, <1>7, <1>8

-----------------------------------------------------------------------------
(* The lines of a report in colours and without.                           *)

(* The red pieces of a line of plain text are those of a value that fails.   *)
ValueFrom(text) == Min({j \in DOMAIN text : text[j] = Colon} \cup {Len(text)}) + 1

Reddened(text, styles) ==
  {j \in DOMAIN text : styles[j].fg = "red"} =
    IF TellsFailure(text) THEN ValueFrom(text)..Len(text) ELSE {}

(* colours is the coloured print of a line whose plain print is text.       *)
Twin(colours, text) ==
  /\ colours \in Pieces /\ text \in Seq(Plain)
  /\ \E s \in Seq(Style) : /\ Means(ColorizeLine(colours), DefaultStyle, text, s, DefaultStyle)
                           /\ Len(s) = Len(text) /\ Reddened(text, s)

AllRed(s)  == \A j \in DOMAIN s : s[j].fg = "red"
NoneRed(s) == \A j \in DOMAIN s : s[j].fg # "red"

(* What the codes do to the colour.                                         *)
LEMMA StyleFacts ==
  /\ DefaultStyle \in Style /\ DefaultStyle.fg # "red"
  /\ \A y \in Style :
       /\ ApplySgr(y, <<"31">>).fg = "red" /\ ApplySgr(y, <<"2">>).fg = y.fg
       /\ ApplySgr(y, <<BoldCyan>>).fg = "cyan" /\ ApplySgr(y, <<"32">>).fg = "green"
  /\ \A y \in Style, c \in Codes : ApplySgr(y, <<c>>) \in Style
  /\ {"2", "31", "32", BoldCyan} \subseteq Codes
<1>1. DefaultStyle \in Style /\ DefaultStyle.fg # "red"
  BY DEF DefaultStyle, Style
<1>2. ASSUME NEW y \in Style
      PROVE  /\ ApplySgr(y, <<"31">>).fg = "red" /\ ApplySgr(y, <<"2">>).fg = y.fg
             /\ ApplySgr(y, <<BoldCyan>>).fg = "cyan" /\ ApplySgr(y, <<"32">>).fg = "green"
  <2>1. /\ BoldCyan # "0" /\ BoldCyan # "2" /\ BoldCyan # "31" /\ BoldCyan # "32"
    BY Literals
  <2>2. ApplySgr(y, <<"31">>) = [DefaultStyle EXCEPT !.fg = "red"]
    BY <2>1 DEF ApplySgr
  <2>3. ApplySgr(y, <<"2">>) = [y EXCEPT !.dim = TRUE]
    BY <2>1 DEF ApplySgr
  <2>4. ApplySgr(y, <<BoldCyan>>) = [fg |-> "cyan", bold |-> TRUE, dim |-> FALSE]
    BY <2>1 DEF ApplySgr
  <2>5. ApplySgr(y, <<"32">>) = [DefaultStyle EXCEPT !.fg = "green"]
    BY <2>1 DEF ApplySgr
  <2>6. [DefaultStyle EXCEPT !.fg = "red"].fg = "red" /\ [DefaultStyle EXCEPT !.fg = "green"].fg = "green"
    BY DEF DefaultStyle
  <2>7. [y EXCEPT !.dim = TRUE].fg = y.fg
    BY DEF Style
  <2>8. [fg |-> "cyan", bold |-> TRUE, dim |-> FALSE].fg = "cyan"
    OBVIOUS
  <2> HIDE DEF ApplySgr
  <2>9. ApplySgr(y, <<"31">>).fg = "red"
    BY <2>2, <2>6, Zenon
  <2>10. ApplySgr(y, <<"2">>).fg = y.fg
    BY <2>3, <2>7, Zenon
  <2>11. ApplySgr(y, <<BoldCyan>>).fg = "cyan"
    BY <2>4, <2>8, Zenon
  <2>12. ApplySgr(y, <<"32">>).fg = "green"
    BY <2>5, <2>6, Zenon
  <2> QED
    BY <2>9, <2>10, <2>11, <2>12
<1>3. {"2", "31", "32", BoldCyan} \subseteq Codes
  BY DEF Codes
<1> QED
  BY <1>1, <1>2, <1>3, StyleTypes

(* A line without a colon stays as it is.                                    *)
LEMMA UnlabelledLine ==
  ASSUME NEW line, \A i \in DOMAIN line : line[i] # Colon
  PROVE  ColorizeLine(line) = line
BY DEF ColorizeLine

(* A line with a label: what is in front of its first colon is dimmed, what *)
(* is behind it reddened if it fails.                                       *)
LEMMA LabelledLine ==
  ASSUME NEW label \in Pieces, \A i \in DOMAIN label : label[i] # Colon, NEW value \in Pieces
  PROVE  ColorizeLine(Line(label, value)) =
           (Paint(TRUE, "2", label) \o <<Colon>>) \o FailedValue(value)
<1> DEFINE colon == <<Colon>>
           line == (label \o colon) \o value
           n == Len(label)
           colons == {i \in DOMAIN line : line[i] = Colon}
<1>1. colon \in Pieces /\ Len(colon) = 1 /\ colon[1] = Colon
  <2>1. Colon \in Piece
    BY DEF Piece, Plain
  <2> QED
    BY <2>1 DEF Pieces
<1> HIDE DEF colon
<1> DEFINE front == label \o colon
<1>2. /\ n \in Nat /\ DOMAIN label = 1..n /\ front \in Pieces /\ Len(front) = n + 1
      /\ \A i \in 1..(n + 1) : front[i] = IF i <= n THEN label[i] ELSE colon[i - n]
  <2>1. /\ Len(label) \in Nat /\ DOMAIN label = 1..Len(label) /\ label \o colon \in Pieces
        /\ Len(label \o colon) = Len(label) + Len(colon)
        /\ \A i \in 1..(Len(label) + Len(colon)) :
             (label \o colon)[i] = IF i <= Len(label) THEN label[i] ELSE colon[i - Len(label)]
    BY <1>1, Joined
  <2> QED
    BY <1>1, <2>1
<1>22. n \in Nat
  BY <1>2
<1> HIDE DEF n, front
<1>23. n + 1 \in Nat /\ n + 2 \in Nat /\ (n + 1) - 1 = n /\ (n + 1) + 1 = n + 2
  BY <1>22
<1>3. /\ line \in Pieces /\ Len(line) = (n + 1) + Len(value) /\ Len(value) \in Nat
      /\ DOMAIN line = 1..Len(line) /\ DOMAIN value = 1..Len(value)
      /\ \A i \in 1..((n + 1) + Len(value)) :
           line[i] = IF i <= n + 1 THEN front[i] ELSE value[i - (n + 1)]
  <2>1. /\ front \o value \in Pieces /\ Len(front \o value) = Len(front) + Len(value)
        /\ Len(value) \in Nat /\ DOMAIN value = 1..Len(value)
        /\ \A i \in 1..(Len(front) + Len(value)) :
             (front \o value)[i] = IF i <= Len(front) THEN front[i] ELSE value[i - Len(front)]
    BY <1>2, Joined
  <2>2. line = front \o value
    BY DEF front
  <2> HIDE DEF line
  <2>3. DOMAIN line = 1..Len(line)
    BY <2>1, <2>2, LenProperties DEF Pieces
  <2> QED
    BY <1>2, <2>1, <2>2, <2>3
<1> HIDE DEF line
<1>4. Min(colons) = n + 1 /\ colons # {}
  <2>1. n + 1 \in colons /\ colons \in SUBSET Nat
    <3>1. line[n + 1] = Colon
      <4>1. n + 1 \in 1..(n + 1) /\ ~(n + 1 <= n) /\ (n + 1) - n = 1
        BY <1>2
      <4>2. front[n + 1] = Colon
        BY <1>1, <1>2, <4>1
      <4> QED
        BY <1>2, <1>3, <4>2
    <3> QED
      BY <1>2, <1>3, <3>1
  <2>2. ASSUME NEW j \in colons PROVE n + 1 <= j
    <3> SUFFICES ASSUME j <= n PROVE FALSE
      BY <1>2, <1>3
    <3>1. j \in 1..n
      BY <1>2, <1>3
    <3>2. line[j] = label[j]
      BY <1>2, <1>3, <3>1
    <3> QED
      BY <1>2, <3>1, <3>2
  <2> HIDE DEF colons
  <2>3. Min(colons) \in colons /\ \A j \in colons : Min(colons) <= j
    BY <2>1, MinIsLeast
  <2>4. Min(colons) <= n + 1 /\ n + 1 <= Min(colons) /\ Min(colons) \in Nat
    BY <2>1, <2>2, <2>3
  <2> QED
    BY <1>23, <2>1, <2>4
<1>5. SubSeq(line, 1, n) = label
  <2>1. /\ SubSeq(line, 1, n) \in Seq(Piece) /\ Len(SubSeq(line, 1, n)) = n
        /\ \A i \in 1..n : SubSeq(line, 1, n)[i] = line[i]
    BY <1>2, <1>3 DEF Pieces
  <2>2. \A i \in 1..n : line[i] = label[i]
    BY <1>2, <1>3
  <2> DEFINE sub == SubSeq(line, 1, n)
  <2> HIDE DEF sub
  <2>3. sub \in Seq(Piece) /\ label \in Seq(Piece) /\ Len(sub) = Len(label)
        /\ \A i \in 1..Len(sub) : sub[i] = label[i]
    BY <2>1, <2>2 DEF sub, n, Pieces
  <2>4. sub = label
    BY <2>3, SeqEqual
  <2> QED
    BY <2>4 DEF sub
<1>6. SubSeq(line, n + 2, Len(line)) = value
  <2> DEFINE sub == SubSeq(line, n + 2, Len(line))
             m == Len(value)
  <2>1. n + 2 \in 1..(Len(line) + 1) /\ Len(line) \in Nat /\ n + 2 \in Nat
        /\ Len(line) = (n + 1) + m /\ m \in Nat
    BY <1>2, <1>3
  <2>2. sub \in Seq(Piece) /\ Len(sub) = m
        /\ \A i \in 1..m : sub[i] = line[(n + 2) + i - 1]
    <3> DEFINE a == n + 2
               b == Len(line)
    <3>1. line \in Seq(Piece) /\ a \in 1..(Len(line) + 1) /\ b \in (a - 1)..Len(line)
          /\ (b - a) + 1 = m /\ m \in Nat
      BY <1>22, <1>3, <2>1 DEF Pieces
    <3>2. sub = SubSeq(line, a, b)
      OBVIOUS
    <3> HIDE DEF m, a, b, sub
    <3>3. /\ SubSeq(line, a, b) \in Seq(Piece) /\ Len(SubSeq(line, a, b)) = (b - a) + 1
          /\ \A i \in 1..((b - a) + 1) : SubSeq(line, a, b)[i] = line[a + i - 1]
      BY <3>1
    <3> QED
      BY <3>1, <3>2, <3>3 DEF a
  <2> HIDE DEF sub
  <2>3. ASSUME NEW i \in 1..m PROVE line[(n + 2) + i - 1] = value[i]
    <3>1. /\ (n + 2) + i - 1 \in 1..((n + 1) + m) /\ ~((n + 2) + i - 1 <= n + 1)
          /\ ((n + 2) + i - 1) - (n + 1) = i
      BY <1>2, <2>1
    <3> QED
      BY <1>3, <3>1
  <2>4. sub \in Seq(Piece) /\ value \in Seq(Piece) /\ Len(sub) = Len(value)
        /\ \A i \in 1..Len(sub) : sub[i] = value[i]
    BY <2>2, <2>3 DEF Pieces
  <2>5. sub = value
    BY <2>4, SeqEqual
  <2> QED
    BY <2>5 DEF sub
<1>7. Line(label, value) = line
  BY DEF Line, line, colon
<1>8. (n + 1) - 1 = n /\ (n + 1) + 1 = n + 2
  BY <1>2
<1>9. ColorizeLine(line) = (Paint(TRUE, "2", label) \o colon) \o FailedValue(value)
  <2>1. ColorizeLine(line) = Paint(TRUE, "2", SubSeq(line, 1, Min(colons) - 1)) \o <<Colon>>
                               \o FailedValue(SubSeq(line, Min(colons) + 1, Len(line)))
    BY <1>4 DEF ColorizeLine
  <2> HIDE DEF colons
  <2> QED
    BY <1>4, <1>5, <1>6, <1>8, <2>1 DEF colon
<1> QED
  BY <1>7, <1>9 DEF colon

(* A label in front of a colon, dimmed whether or not it was printed so.     *)
Label(colours, text) ==
  /\ colours \in Pieces /\ \A i \in DOMAIN colours : colours[i] # Colon
  /\ text \in Seq(Words)
  /\ \E s \in Seq(Style) : /\ Means(Paint(TRUE, "2", colours), DefaultStyle, text, s, DefaultStyle)
                           /\ Len(s) = Len(text) /\ NoneRed(s)

(* A value behind the colon.                                                *)
Value(colours, text) ==
  /\ colours \in Pieces /\ text \in Seq(Plain)
  /\ \E s \in Seq(Style) : /\ Means(FailedValue(colours), DefaultStyle, text, s, DefaultStyle)
                           /\ Len(s) = Len(text)
                           /\ IF TellsFailure(text) THEN AllRed(s) ELSE NoneRed(s)

WordPieces == Words \subseteq Plain /\ Plain \subseteq Piece
(* Words are plain, and plain pieces are pieces.                            *)
LEMMA PlainIsPiece == WordPieces
BY DEF WordPieces, Piece, Plain

(* A text in one style is all red or has nothing red.                       *)
LEMMA SolidIs ==
  ASSUME NEW text \in Pieces, NEW y \in Style
  PROVE  /\ Solid(text, y) \in Seq(Style) /\ Len(Solid(text, y)) = Len(text)
         /\ y.fg = "red" => AllRed(Solid(text, y))
         /\ y.fg # "red" => NoneRed(Solid(text, y))
<1>1. Len(text) \in Nat /\ DOMAIN text = 1..Len(text)
  BY DEF Pieces
<1>2. Solid(text, y) \in Seq(Style) /\ Len(Solid(text, y)) = Len(text)
  BY <1>1 DEF Solid
<1>3. \A j \in DOMAIN Solid(text, y) : Solid(text, y)[j] = y
  BY DEF Solid
<1> QED
  BY <1>2, <1>3 DEF AllRed, NoneRed

(* Painted plain text.                                                      *)
LEMMA PaintedPlain ==
  ASSUME NEW code \in Codes, NEW text \in Seq(Plain), NEW y \in Style
  PROVE  /\ Means(Paint(TRUE, code, text), y, text, Solid(text, ApplySgr(y, <<code>>)), DefaultStyle)
         /\ ApplySgr(y, <<code>>) \in Style /\ text \in Pieces
<1> DEFINE z == ApplySgr(y, <<code>>)
<1>1. z \in Style
  BY StyleFacts
<1> HIDE DEF z
<1>2. Means(text, z, text, Solid(text, z), z) /\ text \in Pieces
  BY <1>1, MeansPlain
<1>3. Means(Paint(TRUE, code, text), y, text, Solid(text, z), DefaultStyle)
  BY <1>1, <1>2, MeansPaint DEF z
<1> QED
  BY <1>1, <1>2, <1>3 DEF z

(* A label printed without colours.                                         *)
LEMMA PlainLabel ==
  ASSUME NEW w \in Words
  PROVE  Label(<<w>>, <<w>>)
<1> DEFINE text == <<w>>
           y == ApplySgr(DefaultStyle, <<"2">>)
<1>1. text \in Seq(Plain) /\ text \in Seq(Words) /\ \A i \in DOMAIN text : text[i] # Colon
  BY PlainIsPiece, WordsAre DEF WordPieces
<1>2. y \in Style /\ y.fg # "red" /\ DefaultStyle \in Style /\ "2" \in Codes
  BY StyleFacts
<1> HIDE DEF text
<1>3. Means(Paint(TRUE, "2", text), DefaultStyle, text, Solid(text, y), DefaultStyle) /\ text \in Pieces
  BY <1>1, <1>2, PaintedPlain DEF y
<1> HIDE DEF y
<1>4. Solid(text, y) \in Seq(Style) /\ Len(Solid(text, y)) = Len(text) /\ NoneRed(Solid(text, y))
  BY <1>2, <1>3, SolidIs
<1>5. Label(text, text)
  BY <1>1, <1>3, <1>4 DEF Label
<1> QED
  BY <1>5 DEF text

(* What is painted with a code has no colon if what it is painted around has *)
(* none, and fails as that does.                                            *)
LEMMA PaintPieces ==
  ASSUME NEW code \in Codes, NEW x \in Pieces
  PROVE  /\ Paint(TRUE, code, x) \in Pieces
         /\ Len(Paint(TRUE, code, x)) = Len(x) + 8
         /\ \A i \in 1..(Len(x) + 8) :
              Paint(TRUE, code, x)[i] =
                IF i <= 4 THEN Sgr(code)[i]
                ELSE IF i <= Len(x) + 4 THEN x[i - 4] ELSE Sgr("0")[i - (Len(x) + 4)]
<1> DEFINE a == Sgr(code)
           b == Sgr("0")
           ax == a \o x
           n == Len(x)
           p == Paint(TRUE, code, x)
<1>1. a \in Pieces /\ Len(a) = 4
  BY SgrPieces
<1>2. b \in Pieces /\ Len(b) = 4
  <2>1. "0" \in Codes
    BY DEF Codes
  <2> QED
    BY <2>1, SgrPieces
<1>3. p = ax \o b
  BY DEF Paint
<1> HIDE DEF a, b, p
<1>4. ax \in Pieces /\ Len(ax) = 4 + n /\ n \in Nat
      /\ \A i \in 1..(4 + n) : ax[i] = IF i <= 4 THEN a[i] ELSE x[i - 4]
  <2>1. /\ a \o x \in Pieces /\ Len(x) \in Nat /\ Len(a \o x) = Len(a) + Len(x)
        /\ \A i \in 1..(Len(a) + Len(x)) : (a \o x)[i] = IF i <= Len(a) THEN a[i] ELSE x[i - Len(a)]
    BY <1>1, Joined
  <2> QED
    BY <1>1, <2>1
<1> HIDE DEF ax, n
<1>5. p \in Pieces /\ Len(p) = (4 + n) + 4
      /\ \A i \in 1..((4 + n) + 4) : p[i] = IF i <= 4 + n THEN ax[i] ELSE b[i - (4 + n)]
  <2>1. /\ ax \o b \in Pieces /\ Len(ax \o b) = Len(ax) + Len(b)
        /\ \A i \in 1..(Len(ax) + Len(b)) : (ax \o b)[i] = IF i <= Len(ax) THEN ax[i] ELSE b[i - Len(ax)]
    BY <1>2, <1>4, Joined
  <2> QED
    BY <1>2, <1>3, <1>4, <2>1
<1>6. 4 + n = n + 4 /\ (4 + n) + 4 = n + 8
  BY <1>4
<1>7. Len(p) = n + 8
  BY <1>5, <1>6
<1>8. ASSUME NEW i \in 1..(n + 8)
      PROVE  p[i] = IF i <= 4 THEN a[i] ELSE IF i <= n + 4 THEN x[i - 4] ELSE b[i - (n + 4)]
  <2>1. i \in 1..((4 + n) + 4)
    BY <1>6
  <2>2. p[i] = IF i <= n + 4 THEN ax[i] ELSE b[i - (n + 4)]
    BY <1>5, <1>6, <2>1
  <2>3. i <= n + 4 => ax[i] = IF i <= 4 THEN a[i] ELSE x[i - 4]
    BY <1>4, <1>6, <2>1
  <2>4. i <= 4 => i <= n + 4
    BY <1>4, <2>1
  <2> QED
    BY <2>2, <2>3, <2>4
<1> QED
  BY <1>5, <1>7, <1>8 DEF a, b, n, p

(* The pieces of a sequence.                                                *)
LEMMA SgrHasNoText ==
  ASSUME NEW code \in Codes, NEW i \in 1..4
  PROVE  Sgr(code)[i] # Colon /\ Sgr(code)[i] # "<unavailable"
<1>1. code # Colon /\ code # "<unavailable"
  BY Literals DEF Codes
<1>2. Colon # Esc /\ Colon # "[" /\ Colon # "m" /\ Esc # "<unavailable"
  BY Literals DEF Esc
<1>3. /\ Sgr(code)[1] = Esc /\ Sgr(code)[2] = "[" /\ Sgr(code)[3] = code /\ Sgr(code)[4] = "m"
  BY SgrPieces
<1>4. i = 1 \/ i = 2 \/ i = 3 \/ i = 4
  OBVIOUS
<1> HIDE DEF Sgr
<1> QED
  BY <1>1, <1>2, <1>3, <1>4

(* A painted word has no colon.                                             *)
LEMMA PaintedWord ==
  ASSUME NEW code \in Codes, NEW w \in Words
  PROVE  LET p == Paint(TRUE, code, <<w>>)
         IN p \in Pieces /\ \A i \in DOMAIN p : p[i] # Colon
<1> DEFINE text == <<w>>
           p == Paint(TRUE, code, text)
<1>1. text \in Pieces /\ Len(text) = 1 /\ text[1] = w /\ w # Colon
  BY PlainIsPiece, WordsAre DEF WordPieces, Pieces
<1> HIDE DEF text
<1>2. /\ p \in Pieces /\ Len(p) = 9
      /\ \A i \in 1..9 : p[i] = IF i <= 4 THEN Sgr(code)[i]
                                ELSE IF i <= 5 THEN text[i - 4] ELSE Sgr("0")[i - 5]
  <2>1. /\ p \in Pieces /\ Len(p) = Len(text) + 8
        /\ \A i \in 1..(Len(text) + 8) :
             p[i] = IF i <= 4 THEN Sgr(code)[i]
                    ELSE IF i <= Len(text) + 4 THEN text[i - 4] ELSE Sgr("0")[i - (Len(text) + 4)]
    BY <1>1, PaintPieces
  <2> HIDE DEF p
  <2> QED
    BY <1>1, <2>1
<1> HIDE DEF p
<1>3. DOMAIN p = 1..9
  BY <1>2 DEF Pieces
<1>4. "0" \in Codes
  BY DEF Codes
<1>5. ASSUME NEW i \in 1..9 PROVE p[i] # Colon
  <2>1. CASE i <= 4
    <3>1. i \in 1..4
      BY <2>1
    <3> QED
      BY <1>2, <2>1, <3>1, SgrHasNoText
  <2>2. CASE i = 5
    <3>1. p[i] = text[1]
      BY <1>2, <2>2
    <3> QED
      BY <1>1, <3>1
  <2>3. CASE i >= 6
    <3>1. i - 5 \in 1..4 /\ p[i] = Sgr("0")[i - 5]
      BY <1>2, <2>3
    <3> QED
      BY <1>4, <3>1, SgrHasNoText
  <2> QED
    BY <2>1, <2>2, <2>3
<1> QED
  BY <1>2, <1>3, <1>5 DEF p, text

(* A label the printer has dimmed already.                                  *)
LEMMA PaintedLabel ==
  ASSUME NEW w \in Words
  PROVE  Label(Dim(TRUE, <<w>>), <<w>>)
<1> DEFINE text == <<w>>
           y == ApplySgr(DefaultStyle, <<"2">>)
           z == ApplySgr(y, <<"2">>)
           p == Paint(TRUE, "2", text)
<1>1. text \in Seq(Plain) /\ text \in Seq(Words)
  BY PlainIsPiece DEF WordPieces
<1>2. y \in Style /\ DefaultStyle \in Style /\ "2" \in Codes
  BY StyleFacts
<1>3. z.fg # "red"
  BY <1>2, StyleFacts
<1>4. p \in Pieces /\ \A i \in DOMAIN p : p[i] # Colon
  BY <1>2, PaintedWord
<1> HIDE DEF text, y
<1>5. Means(p, y, text, Solid(text, z), DefaultStyle) /\ z \in Style /\ text \in Pieces
  BY <1>1, <1>2, PaintedPlain
<1> HIDE DEF p, z
<1>6. Means(Paint(TRUE, "2", p), DefaultStyle, text, Solid(text, z), DefaultStyle)
  <2>1. Means(p, ApplySgr(DefaultStyle, <<"2">>), text, Solid(text, z), DefaultStyle)
    BY <1>5 DEF y
  <2> QED
    BY <1>2, <2>1, MeansPaint
<1>7. Solid(text, z) \in Seq(Style) /\ Len(Solid(text, z)) = Len(text) /\ NoneRed(Solid(text, z))
  BY <1>3, <1>5, SolidIs
<1>8. Label(p, text)
  BY <1>1, <1>4, <1>6, <1>7 DEF Label
<1> QED
  BY <1>8 DEF Dim, p, text

(* Values that do not fail.                                                 *)
LEMMA PlainValue ==
  ASSUME NEW text \in Seq(Plain), ~TellsFailure(text)
  PROVE  Value(text, text)
<1>1. DefaultStyle \in Style /\ DefaultStyle.fg # "red"
  BY StyleFacts
<1>2. Means(text, DefaultStyle, text, Solid(text, DefaultStyle), DefaultStyle) /\ text \in Pieces
  BY <1>1, MeansPlain
<1>3. FailedValue(text) = text
  BY DEF FailedValue
<1>4. /\ Solid(text, DefaultStyle) \in Seq(Style) /\ Len(Solid(text, DefaultStyle)) = Len(text)
      /\ NoneRed(Solid(text, DefaultStyle))
  BY <1>1, <1>2, SolidIs
<1> QED
  BY <1>2, <1>3, <1>4 DEF Value

(* A value that is a word.                                                  *)
LEMMA WordValue ==
  ASSUME NEW w \in Words
  PROVE  Value(<<w>>, <<w>>)
<1>1. <<w>> \in Seq(Plain) /\ ~TellsFailure(<<w>>)
  BY PlainIsPiece DEF WordPieces, TellsFailure
<1> QED
  BY <1>1, PlainValue

(* Failures, printed in red or not.                                         *)
LEMMA FailureIs ==
  ASSUME NEW reason \in Reasons
  PROVE  /\ Failure(reason) \in Seq(Plain) /\ TellsFailure(Failure(reason))
         /\ Len(Failure(reason)) = 4
         /\ Failure(reason)[1] = "<unavailable" /\ Failure(reason)[2] = Colon
<1>1. reason \in Plain /\ ">" \in Plain /\ Colon \in Plain /\ "<unavailable" \in Plain
  BY DEF Reasons, Plain, Words
<1>2. /\ Failure(reason) \in Seq(Plain) /\ Len(Failure(reason)) = 4
      /\ Failure(reason)[1] = "<unavailable" /\ Failure(reason)[2] = Colon
  BY <1>1 DEF Failure
<1>3. TellsFailure(Failure(reason))
  <2>1. 1 \in 1..(Len(Failure(reason)) - 1)
    BY <1>2
  <2> QED
    BY <1>2, <2>1 DEF TellsFailure
<1> QED
  BY <1>2, <1>3

(* A value that tells of a failure, red as soon as it is coloured.          *)
LEMMA FailureValue ==
  ASSUME NEW reason \in Reasons
  PROVE  Value(Failure(reason), Failure(reason))
         /\ Value(Unavailable(TRUE, Failure(reason)), Failure(reason))
<1> DEFINE text == Failure(reason)
           y == ApplySgr(DefaultStyle, <<"31">>)
           z == ApplySgr(y, <<"31">>)
           p == Paint(TRUE, "31", text)
<1>1. /\ text \in Seq(Plain) /\ TellsFailure(text) /\ Len(text) = 4
      /\ text[1] = "<unavailable" /\ text[2] = Colon
  BY FailureIs
<1>2. y \in Style /\ DefaultStyle \in Style /\ "31" \in Codes
  BY StyleFacts
<1>3. y.fg = "red" /\ z.fg = "red"
  BY <1>2, StyleFacts
<1> HIDE DEF text
<1>4. Means(p, DefaultStyle, text, Solid(text, y), DefaultStyle) /\ text \in Pieces
  BY <1>1, <1>2, PaintedPlain
<1> HIDE DEF y
<1>5. Means(p, y, text, Solid(text, z), DefaultStyle) /\ z \in Style
  BY <1>1, <1>2, PaintedPlain
<1>6. p \in Pieces /\ TellsFailure(p)
  <2>1. /\ p \in Pieces /\ Len(p) = 12
        /\ \A i \in 1..12 : p[i] = IF i <= 4 THEN Sgr("31")[i]
                                   ELSE IF i <= 8 THEN text[i - 4] ELSE Sgr("0")[i - 8]
    <3>1. /\ p \in Pieces /\ Len(p) = Len(text) + 8
          /\ \A i \in 1..(Len(text) + 8) :
               p[i] = IF i <= 4 THEN Sgr("31")[i]
                      ELSE IF i <= Len(text) + 4 THEN text[i - 4] ELSE Sgr("0")[i - (Len(text) + 4)]
      BY <1>2, <1>4, PaintPieces
    <3> HIDE DEF p
    <3> QED
      BY <1>1, <3>1
  <2> HIDE DEF p
  <2>2. p[5] = "<unavailable" /\ p[5 + 1] = Colon
    BY <1>1, <2>1
  <2>3. 5 \in 1..(Len(p) - 1)
    BY <2>1
  <2> QED
    BY <2>1, <2>2, <2>3 DEF TellsFailure
<1> HIDE DEF p, z
<1>7. Means(Paint(TRUE, "31", p), DefaultStyle, text, Solid(text, z), DefaultStyle)
  <2>1. Means(p, ApplySgr(DefaultStyle, <<"31">>), text, Solid(text, z), DefaultStyle)
    BY <1>5 DEF y
  <2> QED
    BY <1>2, <1>5, <2>1, MeansPaint
<1>8. /\ Solid(text, z) \in Seq(Style) /\ Len(Solid(text, z)) = Len(text) /\ AllRed(Solid(text, z))
      /\ Solid(text, y) \in Seq(Style) /\ Len(Solid(text, y)) = Len(text) /\ AllRed(Solid(text, y))
  BY <1>2, <1>3, <1>4, <1>5, SolidIs
<1>9. FailedValue(text) = p /\ FailedValue(p) = Paint(TRUE, "31", p)
  BY <1>1, <1>6 DEF FailedValue, p
<1>10. Value(text, text)
  BY <1>1, <1>4, <1>8, <1>9 DEF Value
<1>11. Value(p, text)
  BY <1>1, <1>6, <1>7, <1>8, <1>9 DEF Value
<1> QED
  BY <1>10, <1>11 DEF Unavailable, p, text

(* An element between two sequences.                                        *)
LEMMA Between ==
  ASSUME NEW S, NEW x \in Seq(S), NEW z \in Seq(S), NEW e \in S
  PROVE  LET t == (x \o <<e>>) \o z
         IN /\ t \in Seq(S) /\ Len(t) = Len(x) + 1 + Len(z)
            /\ \A i \in 1..(Len(x) + 1 + Len(z)) :
                 t[i] = IF i <= Len(x) THEN x[i]
                        ELSE IF i = Len(x) + 1 THEN e ELSE z[i - (Len(x) + 1)]
<1> DEFINE n == Len(x)
           m == Len(z)
           a == Append(x, e)
           t == a \o z
<1>1. a = x \o <<e>>
  BY AppendIsConcat
<1>2. n \in Nat /\ m \in Nat
  OBVIOUS
<1>3. a \in Seq(S) /\ Len(a) = n + 1 /\ a[n + 1] = e /\ \A i \in 1..n : a[i] = x[i]
  BY AppendProperties
<1> HIDE DEF a
<1>4. t \in Seq(S) /\ Len(t) = Len(a) + Len(z)
      /\ \A i \in 1..(Len(a) + Len(z)) : t[i] = IF i <= Len(a) THEN a[i] ELSE z[i - Len(a)]
  BY <1>3, ConcatProperties
<1> HIDE DEF t, n, m
<1>5. ASSUME NEW i \in 1..(n + 1 + m)
      PROVE  t[i] = IF i <= n THEN x[i] ELSE IF i = n + 1 THEN e ELSE z[i - (n + 1)]
  <2>1. t[i] = IF i <= n + 1 THEN a[i] ELSE z[i - (n + 1)]
    BY <1>2, <1>3, <1>4 DEF m
  <2>2. i <= n + 1 => a[i] = IF i <= n THEN x[i] ELSE e
    BY <1>2, <1>3
  <2> QED
    BY <1>2, <2>1, <2>2
<1>6. t \in Seq(S) /\ Len(t) = n + 1 + m
  BY <1>2, <1>3, <1>4 DEF m
<1> QED
  BY <1>1, <1>5, <1>6 DEF t, n, m

(* Where the value of a labelled line starts, and whether the line fails.    *)
LEMMA ValueOfLine ==
  ASSUME NEW label \in Seq(Words), NEW value \in Seq(Plain)
  PROVE  /\ Line(label, value) \in Seq(Plain)
         /\ Len(Line(label, value)) = Len(label) + 1 + Len(value)
         /\ ValueFrom(Line(label, value)) = Len(label) + 2
         /\ TellsFailure(Line(label, value)) <=> TellsFailure(value)
<1> DEFINE n == Len(label)
           m == Len(value)
           t == (label \o <<Colon>>) \o value
<1>1. Line(label, value) = t
  BY DEF Line
<1>2. n \in Nat /\ m \in Nat
  OBVIOUS
<1>3. label \in Seq(Plain) /\ Colon \in Plain
  <2>1. Words \subseteq Plain
    BY PlainIsPiece DEF WordPieces
  <2> QED
    BY <2>1, SeqMonotonic DEF Plain
<1>4. /\ t \in Seq(Plain) /\ Len(t) = Len(label) + 1 + Len(value)
      /\ \A i \in 1..(Len(label) + 1 + Len(value)) :
           t[i] = IF i <= Len(label) THEN label[i]
                  ELSE IF i = Len(label) + 1 THEN Colon ELSE value[i - (Len(label) + 1)]
  BY <1>3, Between
<1>5. \A i \in 1..n : label[i] # Colon /\ label[i] # "<unavailable"
  <2>1. ASSUME NEW i \in 1..n PROVE label[i] \in Words
    OBVIOUS
  <2> QED
    BY <2>1, WordsAre
<1> HIDE DEF t
<1>6. DOMAIN t = 1..(n + 1 + m) /\ Len(t) = n + 1 + m
  BY <1>4
<1>7. \A i \in 1..(n + 1 + m) :
        t[i] = IF i <= n THEN label[i] ELSE IF i = n + 1 THEN Colon ELSE value[i - (n + 1)]
  BY <1>4
<1> HIDE DEF n, m
<1>8. t[n + 1] = Colon /\ n + 1 \in 1..(n + 1 + m)
  BY <1>2, <1>7
<1>9. ValueFrom(t) = n + 2
  <2> DEFINE T == {j \in DOMAIN t : t[j] = Colon} \cup {Len(t)}
  <2>1. T \in SUBSET Nat /\ n + 1 \in T
    BY <1>2, <1>6, <1>8
  <2>2. ASSUME NEW j \in T PROVE n + 1 <= j
    <3>1. j \in 1..(n + 1 + m) /\ (t[j] = Colon \/ j = n + 1 + m)
      BY <1>2, <1>6
    <3>2. j <= n => t[j] # Colon
      <4>1. j <= n => j \in 1..n
        BY <1>2, <3>1
      <4> QED
        BY <1>5, <1>7, <3>1, <4>1
    <3> QED
      BY <1>2, <3>1, <3>2
  <2>3. Min(T) = n + 1
    <3> HIDE DEF T
    <3>1. Min(T) \in T /\ \A j \in T : Min(T) <= j
      BY <2>1, MinIsLeast
    <3>2. Min(T) \in Nat /\ Min(T) <= n + 1 /\ n + 1 <= Min(T)
      BY <2>1, <2>2, <3>1
    <3> QED
      BY <1>2, <3>2
  <2>4. ValueFrom(t) = Min(T) + 1
    BY DEF ValueFrom
  <2> HIDE DEF T
  <2> QED
    BY <1>2, <2>3, <2>4
<1>10. TellsFailure(value) => TellsFailure(t)
  <2> SUFFICES ASSUME NEW i \in 1..(m - 1), value[i] = "<unavailable", value[i + 1] = Colon
               PROVE  TellsFailure(t)
    BY DEF TellsFailure, m
  <2>1. (n + 1) + i \in 1..(Len(t) - 1)
    BY <1>2, <1>6
  <2>2. t[(n + 1) + i] = value[i]
    <3>1. (n + 1) + i \in 1..(n + 1 + m) /\ ~((n + 1) + i <= n) /\ (n + 1) + i # n + 1
          /\ ((n + 1) + i) - (n + 1) = i
      BY <1>2
    <3> QED
      BY <1>7, <3>1
  <2>3. t[((n + 1) + i) + 1] = value[i + 1]
    <3>1. ((n + 1) + i) + 1 \in 1..(n + 1 + m) /\ ~(((n + 1) + i) + 1 <= n) /\ ((n + 1) + i) + 1 # n + 1
          /\ (((n + 1) + i) + 1) - (n + 1) = i + 1
      BY <1>2
    <3> QED
      BY <1>7, <3>1
  <2> QED
    BY <2>1, <2>2, <2>3 DEF TellsFailure
<1>11. TellsFailure(t) => TellsFailure(value)
  <2> SUFFICES ASSUME NEW i \in 1..(Len(t) - 1), t[i] = "<unavailable", t[i + 1] = Colon
               PROVE  TellsFailure(value)
    BY DEF TellsFailure
  <2>1. i \in 1..(n + 1 + m) /\ i + 1 \in 1..(n + 1 + m)
    BY <1>2, <1>6
  <2>2. i > n + 1
    <3>1. Colon # "<unavailable"
      BY Literals
    <3>2. i <= n => i \in 1..n
      BY <1>2
    <3> QED
      BY <1>2, <1>5, <1>7, <2>1, <3>1, <3>2
  <2> DEFINE k == i - (n + 1)
  <2>3. k \in 1..(m - 1) /\ (i + 1) - (n + 1) = k + 1 /\ ~(i <= n) /\ i # n + 1
        /\ ~(i + 1 <= n) /\ i + 1 # n + 1
    BY <1>2, <1>6, <2>2
  <2>4. t[i] = value[k] /\ t[i + 1] = value[k + 1]
    <3>1. t[i] = value[i - (n + 1)] /\ t[i + 1] = value[(i + 1) - (n + 1)]
      BY <1>7, <2>1, <2>3
    <3> QED
      BY <2>3, <3>1
  <2> HIDE DEF k
  <2> QED
    BY <2>3, <2>4 DEF TellsFailure, m
<1> QED
  BY <1>1, <1>4, <1>9, <1>10, <1>11 DEF n

(* A labelled line in colours shows the plain one, its value red if it fails. *)
LEMMA LabelledTwin ==
  ASSUME NEW cl, NEW pl, Label(cl, pl), NEW cv, NEW pv, Value(cv, pv)
  PROVE  Twin(Line(cl, cv), Line(pl, pv))
<1> DEFINE c == <<Colon>>
           d == <<DefaultStyle>>
           n == Len(pl)
           m == Len(pv)
<1>1. /\ cl \in Pieces /\ \A i \in DOMAIN cl : cl[i] # Colon
      /\ pl \in Seq(Words) /\ cv \in Pieces /\ pv \in Seq(Plain)
  BY DEF Label, Value
<1>2. PICK s1 \in Seq(Style) : /\ Means(Paint(TRUE, "2", cl), DefaultStyle, pl, s1, DefaultStyle)
                               /\ Len(s1) = n /\ NoneRed(s1)
  BY DEF Label
<1>3. PICK s2 \in Seq(Style) : /\ Means(FailedValue(cv), DefaultStyle, pv, s2, DefaultStyle)
                               /\ Len(s2) = m
                               /\ IF TellsFailure(pv) THEN AllRed(s2) ELSE NoneRed(s2)
  BY DEF Value
<1>4. DefaultStyle \in Style /\ DefaultStyle.fg # "red"
  BY StyleFacts
<1>5. Means(c, DefaultStyle, c, d, DefaultStyle)
  <2>1. Colon \in Plain
    BY DEF Plain
  <2> QED
    BY <1>4, <2>1, MeansPiece
<1> DEFINE s == (s1 \o d) \o s2
<1>6. Means((Paint(TRUE, "2", cl) \o c) \o FailedValue(cv), DefaultStyle, (pl \o c) \o pv, s, DefaultStyle)
  <2> HIDE DEF c, d
  <2>1. Means(Paint(TRUE, "2", cl) \o c, DefaultStyle, pl \o c, s1 \o d, DefaultStyle)
    BY <1>2, <1>5, MeansConcat
  <2> QED
    BY <1>3, <2>1, MeansConcat
<1>7. ColorizeLine(Line(cl, cv)) = (Paint(TRUE, "2", cl) \o c) \o FailedValue(cv)
  BY <1>1, LabelledLine
<1>8. Line(pl, pv) = (pl \o c) \o pv
  BY DEF Line
<1> DEFINE t == Line(pl, pv)
<1>9. Means(ColorizeLine(Line(cl, cv)), DefaultStyle, t, s, DefaultStyle)
  BY <1>6, <1>7, <1>8
<1>10. /\ t \in Seq(Plain) /\ Len(t) = n + 1 + m /\ ValueFrom(t) = n + 2
       /\ TellsFailure(t) <=> TellsFailure(pv)
  BY <1>1, ValueOfLine
<1>11. /\ s \in Seq(Style) /\ Len(s) = n + 1 + m
       /\ \A i \in 1..(n + 1 + m) :
            s[i] = IF i <= n THEN s1[i] ELSE IF i = n + 1 THEN DefaultStyle ELSE s2[i - (n + 1)]
  <2>1. /\ s \in Seq(Style) /\ Len(s) = Len(s1) + 1 + Len(s2)
        /\ \A i \in 1..(Len(s1) + 1 + Len(s2)) :
             s[i] = IF i <= Len(s1) THEN s1[i]
                    ELSE IF i = Len(s1) + 1 THEN DefaultStyle ELSE s2[i - (Len(s1) + 1)]
    <3>1. s1 \in Seq(Style) /\ s2 \in Seq(Style) /\ DefaultStyle \in Style
      BY <1>4
    <3> HIDE DEF n, m
    <3> QED
      BY <3>1, Between
  <2> HIDE DEF s
  <2> QED
    BY <1>2, <1>3, <2>1
<1>12. n \in Nat /\ m \in Nat /\ DOMAIN s1 = 1..n /\ DOMAIN s2 = 1..m /\ DOMAIN t = 1..(n + 1 + m)
  <2> HIDE DEF t
  <2> QED
    BY <1>1, <1>2, <1>3, <1>10
<1> HIDE DEF n, m, s, t
<1>13. Reddened(t, s)
  <2> DEFINE R == {j \in DOMAIN t : s[j].fg = "red"}
  <2>1. \A j \in 1..n : s[j].fg # "red"
    BY <1>2, <1>11, <1>12 DEF NoneRed
  <2>2. s[n + 1].fg # "red"
    BY <1>4, <1>11, <1>12
  <2>3. ASSUME NEW j \in (n + 2)..(n + 1 + m) PROVE s[j].fg = "red" <=> TellsFailure(pv)
    <3>1. j \in 1..(n + 1 + m) /\ ~(j <= n) /\ j # n + 1 /\ j - (n + 1) \in 1..m
      BY <1>12
    <3>2. s[j] = s2[j - (n + 1)]
      BY <1>11, <3>1
    <3> QED
      BY <1>3, <1>12, <3>1, <3>2 DEF AllRed, NoneRed
  <2>4. \A j \in 1..(n + 1 + m) : j \in 1..n \/ j = n + 1 \/ j \in (n + 2)..(n + 1 + m)
    BY <1>12
  <2>5. (n + 2)..(n + 1 + m) \subseteq 1..(n + 1 + m)
    BY <1>12
  <2>6. CASE TellsFailure(pv)
    <3>1. R = (n + 2)..(n + 1 + m)
      BY <1>12, <2>1, <2>2, <2>3, <2>4, <2>5, <2>6
    <3> QED
      BY <1>10, <2>6, <3>1 DEF Reddened
  <2>7. CASE ~TellsFailure(pv)
    <3>1. R = {}
      BY <1>12, <2>1, <2>2, <2>3, <2>4, <2>7
    <3> QED
      BY <1>10, <2>7, <3>1 DEF Reddened
  <2> QED
    BY <2>6, <2>7
<1>14. Line(cl, cv) \in Pieces
  <2>1. c \in Pieces
    BY DEF Piece, Plain, Pieces
  <2> HIDE DEF c
  <2>2. cl \o c \in Pieces
    BY <1>1, <2>1, Joined
  <2>3. (cl \o c) \o cv \in Pieces
    BY <1>1, <2>2, Joined
  <2> QED
    BY <2>3 DEF Line, c
<1>15. Twin(Line(cl, cv), t)
  BY <1>9, <1>10, <1>11, <1>13, <1>14 DEF Twin
<1> QED
  BY <1>15 DEF t

(* A line without a colon is shown as it is and has nothing red.            *)
LEMMA UnlabelledTwin ==
  ASSUME NEW colours, \A i \in DOMAIN colours : colours[i] # Colon,
         NEW text \in Seq(Words), NEW s \in Seq(Style),
         Means(colours, DefaultStyle, text, s, DefaultStyle),
         Len(s) = Len(text), NoneRed(s)
  PROVE  Twin(colours, text)
<1>1. ColorizeLine(colours) = colours
  BY UnlabelledLine
<1>2. text \in Seq(Plain)
  BY PlainIsPiece, SeqMonotonic DEF WordPieces
<1>3. ~TellsFailure(text)
  <2> SUFFICES ASSUME NEW i \in 1..(Len(text) - 1), text[i] = "<unavailable" PROVE FALSE
    BY DEF TellsFailure
  <2>1. text[i] \in Words
    OBVIOUS
  <2> QED
    BY <2>1, WordsAre
<1>4. Reddened(text, s)
  <2>1. DOMAIN text = DOMAIN s
    OBVIOUS
  <2> QED
    BY <1>3, <2>1 DEF Reddened, NoneRed
<1>5. colours \in Pieces
  BY DEF Means
<1> QED
  BY <1>1, <1>2, <1>4, <1>5 DEF Twin

(* A line of words, the same in colours and without.                        *)
LEMMA WordsTwin ==
  ASSUME NEW text \in Seq(Words)
  PROVE  Twin(text, text)
<1>1. DefaultStyle \in Style /\ DefaultStyle.fg # "red"
  BY StyleFacts
<1>2. text \in Seq(Plain)
  BY PlainIsPiece, SeqMonotonic DEF WordPieces
<1>3. Means(text, DefaultStyle, text, Solid(text, DefaultStyle), DefaultStyle) /\ text \in Pieces
  BY <1>1, <1>2, MeansPlain
<1>4. /\ Solid(text, DefaultStyle) \in Seq(Style) /\ Len(Solid(text, DefaultStyle)) = Len(text)
      /\ NoneRed(Solid(text, DefaultStyle))
  BY <1>1, <1>3, SolidIs
<1>5. \A i \in DOMAIN text : text[i] # Colon
  <2>1. \A i \in DOMAIN text : text[i] \in Words
    OBVIOUS
  <2> QED
    BY <2>1, WordsAre
<1> QED
  BY <1>3, <1>4, <1>5, UnlabelledTwin

ColonFree(x) == x \in Pieces /\ \A i \in DOMAIN x : x[i] # Colon

(* Joining brings in no colon.                                              *)
LEMMA ColonFreeJoined ==
  ASSUME NEW x, NEW z, ColonFree(x), ColonFree(z)
  PROVE  ColonFree(x \o z)
<1> DEFINE n == Len(x)
           m == Len(z)
<1>1. /\ x \in Pieces /\ z \in Pieces
      /\ \A i \in DOMAIN x : x[i] # Colon
      /\ \A i \in DOMAIN z : z[i] # Colon
  BY DEF ColonFree
<1>2. /\ x \o z \in Pieces /\ Len(x \o z) = n + m /\ n \in Nat /\ m \in Nat
      /\ DOMAIN x = 1..n /\ DOMAIN z = 1..m /\ DOMAIN (x \o z) = 1..(n + m)
      /\ \A i \in 1..(n + m) : (x \o z)[i] = IF i <= n THEN x[i] ELSE z[i - n]
  <2>1. /\ x \o z \in Pieces /\ Len(x) \in Nat /\ Len(z) \in Nat /\ Len(x \o z) = Len(x) + Len(z)
        /\ DOMAIN x = 1..Len(x)
        /\ \A i \in 1..(Len(x) + Len(z)) : (x \o z)[i] = IF i <= Len(x) THEN x[i] ELSE z[i - Len(x)]
    BY <1>1, Joined
  <2>2. DOMAIN (x \o z) = 1..Len(x \o z) /\ DOMAIN z = 1..Len(z)
    BY <1>1, <2>1, LenProperties DEF Pieces
  <2> QED
    BY <2>1, <2>2
<1> DEFINE t == x \o z
<1> HIDE DEF n, m, t
<1>3. ASSUME NEW i \in 1..(n + m) PROVE t[i] # Colon
  <2>1. i <= n => i \in 1..n
    BY <1>2
  <2>2. ~(i <= n) => i - n \in 1..m
    BY <1>2
  <2> QED
    BY <1>1, <1>2, <2>1, <2>2 DEF t
<1> QED
  BY <1>2, <1>3 DEF ColonFree, t

(* A word, painted bold or green or not at all: what it shows has a style    *)
(* that is not red.                                                         *)
Shows(x, w) ==
  /\ ColonFree(x) /\ w \in Words
  /\ \E y \in Style : y.fg # "red" /\ Means(x, DefaultStyle, <<w>>, <<y>>, DefaultStyle)

(* A word that is not painted.                                              *)
LEMMA WordShows ==
  ASSUME NEW w \in Words
  PROVE  Shows(<<w>>, w)
<1>1. w \in Plain /\ w \in Piece /\ w # Colon
  BY PlainIsPiece, WordsAre DEF WordPieces
<1>2. ColonFree(<<w>>)
  BY <1>1 DEF ColonFree, Pieces
<1>3. DefaultStyle \in Style /\ DefaultStyle.fg # "red"
  BY StyleFacts
<1>4. Means(<<w>>, DefaultStyle, <<w>>, <<DefaultStyle>>, DefaultStyle)
  BY <1>1, <1>3, MeansPiece
<1> QED
  BY <1>2, <1>3, <1>4 DEF Shows

(* A word painted bold cyan or green.                                       *)
LEMMA PaintedShows ==
  ASSUME NEW w \in Words, NEW code \in {BoldCyan, "32"}
  PROVE  Shows(Paint(TRUE, code, <<w>>), w)
<1> DEFINE y == ApplySgr(DefaultStyle, <<code>>)
           text == <<w>>
           p == Paint(TRUE, code, text)
<1>1. code \in Codes /\ DefaultStyle \in Style
  BY StyleFacts
<1>2. y \in Style /\ y.fg # "red"
  BY <1>1, StyleFacts
<1>3. ColonFree(p)
  BY <1>1, PaintedWord DEF ColonFree
<1>4. w \in Plain
  BY PlainIsPiece DEF WordPieces
<1> HIDE DEF y, p
<1>5. Means(p, DefaultStyle, text, <<y>>, DefaultStyle)
  <2>1. Means(text, y, text, <<y>>, y)
    BY <1>2, <1>4, MeansPiece
  <2> HIDE DEF text
  <2> QED
    BY <1>1, <1>2, <2>1, MeansPaint DEF y, p
<1> QED
  BY <1>2, <1>3, <1>5 DEF Shows, p

(* Two pieces as one sequence.                                              *)
LEMMA TwoJoined ==
  ASSUME NEW S, NEW a \in S, NEW b \in S
  PROVE  <<a>> \o <<b>> = <<a, b>>
<1> DEFINE x == <<a>>
           z == <<b>>
           t == <<a, b>>
           u == x \o z
<1>1. /\ x \in Seq(S) /\ z \in Seq(S) /\ t \in Seq(S) /\ Len(x) = 1 /\ Len(z) = 1 /\ Len(t) = 2
      /\ x[1] = a /\ z[1] = b /\ t[1] = a /\ t[2] = b
  OBVIOUS
<1> HIDE DEF x, z, t
<1>2. /\ u \in Seq(S) /\ Len(u) = Len(x) + Len(z)
      /\ \A i \in 1..(Len(x) + Len(z)) : u[i] = IF i <= Len(x) THEN x[i] ELSE z[i - Len(x)]
  BY <1>1, ConcatProperties
<1> HIDE DEF u
<1>3. Len(u) = 2 /\ u[1] = a /\ u[2] = b
  BY <1>1, <1>2
<1>4. \A i \in 1..Len(u) : u[i] = t[i]
  BY <1>1, <1>3
<1>5. u = t
  BY <1>1, <1>2, <1>3, <1>4, SeqEqual
<1> QED
  BY <1>5 DEF u, x, z, t

(* Two such words make a line.                                              *)
LEMMA TwoWordsTwin ==
  ASSUME NEW x1, NEW w1, NEW x2, NEW w2, Shows(x1, w1), Shows(x2, w2)
  PROVE  Twin(x1 \o x2, <<w1, w2>>)
<1>1. PICK y1 \in Style : y1.fg # "red" /\ Means(x1, DefaultStyle, <<w1>>, <<y1>>, DefaultStyle)
  BY DEF Shows
<1>2. PICK y2 \in Style : y2.fg # "red" /\ Means(x2, DefaultStyle, <<w2>>, <<y2>>, DefaultStyle)
  BY DEF Shows
<1> DEFINE s == <<y1, y2>>
           t == <<w1, w2>>
           x == x1 \o x2
<1>3. <<w1>> \o <<w2>> = t /\ <<y1>> \o <<y2>> = s
  <2>1. w1 \in Words /\ w2 \in Words
    BY DEF Shows
  <2> QED
    BY <2>1, TwoJoined
<1>4. Means(x, DefaultStyle, t, s, DefaultStyle)
  <2>1. Means(x1 \o x2, DefaultStyle, <<w1>> \o <<w2>>, <<y1>> \o <<y2>>, DefaultStyle)
    BY <1>1, <1>2, MeansConcat
  <2> QED
    BY <1>3, <2>1
<1>5. /\ t \in Seq(Words) /\ s \in Seq(Style) /\ Len(s) = Len(t)
  BY DEF Shows
<1>6. NoneRed(s)
  BY <1>1, <1>2 DEF NoneRed
<1>7. \A i \in DOMAIN x : x[i] # Colon
  BY ColonFreeJoined DEF Shows, ColonFree
<1> HIDE DEF x, s, t
<1>8. Twin(x, t)
  BY <1>4, <1>5, <1>6, <1>7, UnlabelledTwin
<1> QED
  BY <1>8 DEF x, t

(* A text in colours and the same text without, line by line.               *)
TwinText(colours, text) ==
  /\ colours \in Seq(Pieces) /\ text \in Seq(Pieces) /\ Len(colours) = Len(text)
  /\ \A i \in 1..Len(text) : Twin(colours[i], text[i])

(* Both prints of a line are sequences of pieces.                           *)
LEMMA TwinTypes ==
  ASSUME NEW c, NEW t, Twin(c, t)
  PROVE  c \in Pieces /\ t \in Pieces
BY PlainIsPiece, SeqMonotonic DEF Twin, WordPieces, Pieces

(* No line, one line, and one text behind another.                          *)
LEMMA TwinNone == TwinText(<< >>, << >>)
BY DEF TwinText

LEMMA TwinOne ==
  ASSUME NEW c, NEW t, Twin(c, t)
  PROVE  TwinText(<<c>>, <<t>>)
BY TwinTypes DEF TwinText

LEMMA TwinJoined ==
  ASSUME NEW c, NEW t, NEW c2, NEW t2, TwinText(c, t), TwinText(c2, t2)
  PROVE  TwinText(c \o c2, t \o t2)
<1> DEFINE n == Len(t)
           m == Len(t2)
<1>1. /\ c \in Seq(Pieces) /\ t \in Seq(Pieces) /\ Len(c) = n
      /\ c2 \in Seq(Pieces) /\ t2 \in Seq(Pieces) /\ Len(c2) = m
      /\ n \in Nat /\ m \in Nat
      /\ \A i \in 1..n : Twin(c[i], t[i])
      /\ \A i \in 1..m : Twin(c2[i], t2[i])
  BY DEF TwinText
<1> DEFINE C == c \o c2
           T == t \o t2
<1>2. /\ C \in Seq(Pieces) /\ Len(C) = n + m
      /\ \A i \in 1..(n + m) : C[i] = IF i <= n THEN c[i] ELSE c2[i - n]
  <2>1. /\ C \in Seq(Pieces) /\ Len(C) = Len(c) + Len(c2)
        /\ \A i \in 1..(Len(c) + Len(c2)) : C[i] = IF i <= Len(c) THEN c[i] ELSE c2[i - Len(c)]
    BY <1>1, ConcatProperties
  <2> HIDE DEF C
  <2> QED
    BY <1>1, <2>1
<1>3. /\ T \in Seq(Pieces) /\ Len(T) = n + m
      /\ \A i \in 1..(n + m) : T[i] = IF i <= n THEN t[i] ELSE t2[i - n]
  BY <1>1, ConcatProperties
<1> HIDE DEF C, T, n, m
<1>4. ASSUME NEW i \in 1..(n + m) PROVE Twin(C[i], T[i])
  <2>1. CASE i <= n
    <3>1. i \in 1..n
      BY <1>1, <2>1
    <3>2. C[i] = c[i] /\ T[i] = t[i]
      BY <1>2, <1>3, <2>1
    <3> QED
      BY <1>1, <3>1, <3>2
  <2>2. CASE ~(i <= n)
    <3>1. i - n \in 1..m
      BY <1>1, <2>2
    <3>2. C[i] = c2[i - n] /\ T[i] = t2[i - n]
      BY <1>2, <1>3, <2>2
    <3> QED
      BY <1>1, <3>1, <3>2
  <2> QED
    BY <2>1, <2>2
<1> QED
  BY <1>2, <1>3, <1>4 DEF TwinText, C, T

(* The texts of several fields, one behind the other.                       *)
LEMMA TwinFlatten ==
  ASSUME NEW cs \in Seq(Seq(Pieces)), NEW ts \in Seq(Seq(Pieces)), Len(cs) = Len(ts),
         \A i \in 1..Len(ts) : TwinText(cs[i], ts[i])
  PROVE  TwinText(FlattenSeq(cs), FlattenSeq(ts))
<1> DEFINE Good(n) ==
             \A u, v \in Seq(Seq(Pieces)) :
               Len(u) = n /\ Len(v) = n /\ (\A i \in 1..n : TwinText(u[i], v[i]))
               => TwinText(FlattenSeq(u), FlattenSeq(v))
           D == {n \in Nat : Good(n)}
<1>1. 0 \in D
  <2>1. ASSUME NEW u \in Seq(Seq(Pieces)), NEW v \in Seq(Seq(Pieces)), Len(u) = 0, Len(v) = 0
        PROVE  TwinText(FlattenSeq(u), FlattenSeq(v))
    <3>1. u = << >> /\ v = << >>
      BY <2>1
    <3> QED
      BY <3>1, FlattenEmpty, TwinNone
  <2> QED
    BY <2>1
<1>2. ASSUME NEW n \in Nat, n \in D PROVE n + 1 \in D
  <2>1. ASSUME NEW u \in Seq(Seq(Pieces)), NEW v \in Seq(Seq(Pieces)),
               Len(u) = n + 1, Len(v) = n + 1, \A i \in 1..(n + 1) : TwinText(u[i], v[i])
        PROVE  TwinText(FlattenSeq(u), FlattenSeq(v))
    <3>1. u # << >> /\ v # << >>
      BY <2>1
    <3>2. PICK u1 \in Seq(Seq(Pieces)), x \in Seq(Pieces) : u = Append(u1, x)
      BY <3>1, SequenceEmptyOrAppend
    <3>3. PICK v1 \in Seq(Seq(Pieces)), y \in Seq(Pieces) : v = Append(v1, y)
      BY <3>1, SequenceEmptyOrAppend
    <3>4. /\ Len(u1) = n /\ u[n + 1] = x /\ \A i \in 1..n : u[i] = u1[i]
      BY <2>1, <3>2, AppendProperties
    <3>5. /\ Len(v1) = n /\ v[n + 1] = y /\ \A i \in 1..n : v[i] = v1[i]
      BY <2>1, <3>3, AppendProperties
    <3>6. TwinText(x, y)
      BY <2>1, <3>4, <3>5
    <3>7. \A i \in 1..n : TwinText(u1[i], v1[i])
      BY <2>1, <3>4, <3>5
    <3>8. TwinText(FlattenSeq(u1), FlattenSeq(v1))
      BY <1>2, <3>4, <3>5, <3>7
    <3>9. FlattenSeq(u) = FlattenSeq(u1) \o x /\ FlattenSeq(v) = FlattenSeq(v1) \o y
      BY <3>2, <3>3, FlattenAppend
    <3> QED
      BY <3>6, <3>8, <3>9, TwinJoined
  <2> QED
    BY <2>1
<1> HIDE DEF D
<1>3. \A n \in Nat : n \in D
  BY <1>1, <1>2, Induct
<1>4. Good(Len(ts))
  BY <1>3 DEF D
<1> QED
  BY <1>4

(* A line with a word for a label.                                          *)
LEMMA FieldTwin ==
  ASSUME NEW f \in Words, NEW cv, NEW pv, Value(cv, pv)
  PROVE  TwinText(<<Line(<<f>>, cv)>>, <<Line(<<f>>, pv)>>)
<1>1. Twin(Line(<<f>>, cv), Line(<<f>>, pv))
  BY PlainLabel, LabelledTwin
<1> QED
  BY <1>1, TwinOne

(* The value of a field, in every state.                                    *)
LEMMA ShownValue ==
  ASSUME NEW f, NEW state \in FieldStates
  PROVE  Value(Shown(f, state, TRUE), Shown(f, state, FALSE))
<1>1. CASE state = "Available"
  <2>1. "Available" \notin Reasons /\ "Available" # "NotApplicable"
    BY DEF Reasons
  <2>2. Shown(f, state, TRUE) = <<"value">> /\ Shown(f, state, FALSE) = <<"value">>
    BY <1>1, <2>1, Zenon DEF Shown
  <2>3. Value(<<"value">>, <<"value">>)
    BY WordValue DEF Words
  <2> QED
    BY <2>2, <2>3, Zenon
<1>2. CASE state = "NotApplicable"
  <2>1. "NotApplicable" \notin Reasons /\ "Available" # "NotApplicable"
    BY DEF Reasons
  <2>2. Shown(f, state, TRUE) = NotApplicable(f) /\ Shown(f, state, FALSE) = NotApplicable(f)
    BY <1>2, <2>1, Zenon DEF Shown
  <2>3. Value(<<"<not_available>">>, <<"<not_available>">>) /\ Value(<<"<not-applicable>">>, <<"<not-applicable>">>)
    BY WordValue DEF Words
  <2>4. NotApplicable(f) = <<"<not_available>">> \/ NotApplicable(f) = <<"<not-applicable>">>
    BY DEF NotApplicable
  <2> QED
    BY <2>2, <2>3, <2>4, Zenon
<1>3. CASE state \in Reasons
  <2>1. state # "Available" /\ state # "NotApplicable"
    BY <1>3 DEF Reasons
  <2>2. CASE f \in Uncoloured
    <3>1. Shown(f, state, TRUE) = Failure(state) /\ Shown(f, state, FALSE) = Failure(state)
      BY <1>3, <2>1, <2>2, Zenon DEF Shown
    <3>2. Value(Failure(state), Failure(state))
      BY <1>3, FailureValue
    <3> QED
      BY <3>1, <3>2, Zenon
  <2>3. CASE f \notin Uncoloured
    <3>1. /\ Shown(f, state, TRUE) = Unavailable(TRUE, Failure(state))
          /\ Shown(f, state, FALSE) = Unavailable(FALSE, Failure(state))
      BY <1>3, <2>1, <2>3, Zenon DEF Shown
    <3>2. Unavailable(FALSE, Failure(state)) = Failure(state)
      BY DEF Unavailable, Paint
    <3>3. Value(Unavailable(TRUE, Failure(state)), Failure(state))
      BY <1>3, FailureValue
    <3> QED
      BY <3>1, <3>2, <3>3, Zenon
  <2> QED
    BY <2>2, <2>3
<1> QED
  BY <1>1, <1>2, <1>3 DEF FieldStates

(* The lines of a bridge are printed without colours.                       *)
LEMMA BridgeTwin == TwinText(BridgeLines, BridgeLines)
<1>1. \A i \in 1..6 : BridgeLabels[i] \in Words
  BY DEF BridgeLabels, Words
<1>2. DOMAIN BridgeLabels = 1..6
  BY DEF BridgeLabels
<1>3. ASSUME NEW i \in 1..6
      PROVE  Twin(Line(<<BridgeLabels[i]>>, <<"value">>), Line(<<BridgeLabels[i]>>, <<"value">>))
  <2>1. Value(<<"value">>, <<"value">>)
    BY WordValue DEF Words
  <2>2. Label(<<BridgeLabels[i]>>, <<BridgeLabels[i]>>)
    BY <1>1, PlainLabel
  <2> QED
    BY <2>1, <2>2, LabelledTwin
<1>4. BridgeLines = [i \in 1..6 |-> Line(<<BridgeLabels[i]>>, <<"value">>)]
  BY <1>2 DEF BridgeLines
<1>5. ASSUME NEW i \in 1..6 PROVE Line(<<BridgeLabels[i]>>, <<"value">>) \in Pieces
  BY <1>3, TwinTypes
<1> HIDE DEF Line, BridgeLabels
<1>6. BridgeLines \in Seq(Pieces) /\ Len(BridgeLines) = 6
  BY <1>4, <1>5
<1>7. \A i \in 1..6 : Twin(BridgeLines[i], BridgeLines[i])
  BY <1>3, <1>4
<1> QED
  BY <1>6, <1>7 DEF TwinText

(* The lines of the resources: a BAR's number is a word.                    *)
LEMMA ResourcesTwin ==
  TwinText(<< <<"resources:">>, <<"BAR">> >>, << <<"resources:">>, <<"BAR">> >>)
<1> DEFINE a == <<"resources:">>
           b == <<"BAR">>
<1>1. a \in Seq(Words) /\ b \in Seq(Words)
  BY DEF Words
<1> HIDE DEF a, b
<1>2. Twin(a, a) /\ Twin(b, b)
  BY <1>1, WordsTwin
<1>3. a \in Pieces /\ b \in Pieces
  BY <1>2, TwinTypes
<1>4. TwinText(<<a, b>>, <<a, b>>)
  BY <1>2, <1>3 DEF TwinText
<1> QED
  BY <1>4 DEF a, b

(* The lines of the capabilities: names green, the chain's label dimmed.    *)
LEMMA CapabilitiesTwin == TwinText(CapabilityLines(TRUE), CapabilityLines(FALSE))
<1> DEFINE c1 == <<"capabilities:">>
           c2 == Line(Dim(TRUE, <<"standard">>), <<"chain=complete">>)
           p2 == Line(<<"standard">>, <<"chain=complete">>)
           c3 == Append(Capability(TRUE, <<"name">>), "id_offset_next_state")
           p3 == <<"name", "id_offset_next_state">>
           c4 == Line(<<"content">>, <<"value">>)
           v5 == <<"chain=unavailable", Colon, "ReadError">>
           c5 == Line(Dim(TRUE, <<"extended">>), v5)
           p5 == Line(<<"extended">>, v5)
<1>1. Twin(c1, c1)
  <2>1. c1 \in Seq(Words)
    BY DEF Words
  <2> QED
    BY <2>1, WordsTwin
<1>2. Twin(c2, p2)
  <2>1. Label(Dim(TRUE, <<"standard">>), <<"standard">>)
    BY PaintedLabel DEF Words
  <2>2. Value(<<"chain=complete">>, <<"chain=complete">>)
    BY WordValue DEF Words
  <2> QED
    BY <2>1, <2>2, LabelledTwin
<1>3. Twin(c3, p3)
  <2> DEFINE x == Capability(TRUE, <<"name">>)
             z == <<"id_offset_next_state">>
  <2>1. Shows(x, "name")
    BY PaintedShows DEF Capability, Words
  <2>2. Shows(z, "id_offset_next_state")
    BY WordShows DEF Words
  <2> HIDE DEF x
  <2>3. Twin(x \o z, p3)
    BY <2>1, <2>2, TwoWordsTwin
  <2>4. Append(x, "id_offset_next_state") = x \o z
    <3>1. x \in Seq(Piece) /\ "id_offset_next_state" \in Piece
      BY <2>1 DEF Shows, ColonFree, Pieces, Piece, Plain, Words
    <3> QED
      BY <3>1, AppendIsConcat
  <2> QED
    BY <2>3, <2>4 DEF x
<1>4. Twin(c4, c4)
  <2>1. Label(<<"content">>, <<"content">>)
    BY PlainLabel DEF Words
  <2>2. Value(<<"value">>, <<"value">>)
    BY WordValue DEF Words
  <2> QED
    BY <2>1, <2>2, LabelledTwin
<1>5. Twin(c5, p5)
  <2>1. Label(Dim(TRUE, <<"extended">>), <<"extended">>)
    BY PaintedLabel DEF Words
  <2>2. v5 \in Seq(Plain)
    BY DEF Plain, Words
  <2>3. ~TellsFailure(v5)
    <3>1. /\ Len(v5) = 3 /\ v5[1] # "<unavailable" /\ v5[2] # "<unavailable"
      BY Literals
    <3> HIDE DEF v5
    <3>2. \A i \in 1..(Len(v5) - 1) : i = 1 \/ i = 2
      BY <3>1
    <3> QED
      BY <3>1, <3>2 DEF TellsFailure
  <2> HIDE DEF v5
  <2>4. Value(v5, v5)
    BY <2>2, <2>3, PlainValue
  <2> QED
    BY <2>1, <2>4, LabelledTwin
<1>6. CapabilityLines(TRUE) = <<c1, c2, c3, c4, c5>>
  BY DEF CapabilityLines
<1>7. CapabilityLines(FALSE) = <<c1, p2, p3, c4, p5>>
  <2>1. Dim(FALSE, <<"standard">>) = <<"standard">> /\ Dim(FALSE, <<"extended">>) = <<"extended">>
    BY DEF Dim, Paint
  <2>2. Append(Capability(FALSE, <<"name">>), "id_offset_next_state") = p3
    <3>1. Capability(FALSE, <<"name">>) = <<"name">>
      BY DEF Capability, Paint
    <3>2. "name" \in Words /\ "id_offset_next_state" \in Words
      BY DEF Words
    <3>3. <<"name">> \in Seq(Words)
      BY <3>2
    <3>4. Append(<<"name">>, "id_offset_next_state") = <<"name">> \o <<"id_offset_next_state">>
      BY <3>2, <3>3, AppendIsConcat
    <3>5. <<"name">> \o <<"id_offset_next_state">> = p3
      BY <3>2, TwoJoined
    <3> QED
      BY <3>1, <3>4, <3>5, Zenon
  <2> QED
    BY <2>1, <2>2, Zenon DEF CapabilityLines
<1> HIDE DEF c1, c2, c3, c4, c5, p2, p3, p5
<1>8. /\ c1 \in Pieces /\ c2 \in Pieces /\ c3 \in Pieces /\ c4 \in Pieces /\ c5 \in Pieces
      /\ p2 \in Pieces /\ p3 \in Pieces /\ p5 \in Pieces
  BY <1>1, <1>2, <1>3, <1>4, <1>5, TwinTypes
<1> DEFINE C == <<c1, c2, c3, c4, c5>>
           P == <<c1, p2, p3, c4, p5>>
<1>9. /\ C \in Seq(Pieces) /\ P \in Seq(Pieces) /\ Len(C) = 5 /\ Len(P) = 5
      /\ C[1] = c1 /\ C[2] = c2 /\ C[3] = c3 /\ C[4] = c4 /\ C[5] = c5
      /\ P[1] = c1 /\ P[2] = p2 /\ P[3] = p3 /\ P[4] = c4 /\ P[5] = p5
  BY <1>8
<1> HIDE DEF C, P
<1>10. ASSUME NEW i \in 1..5 PROVE Twin(C[i], P[i])
  <2>1. i = 1 \/ i = 2 \/ i = 3 \/ i = 4 \/ i = 5
    OBVIOUS
  <2> QED
    BY <1>1, <1>2, <1>3, <1>4, <1>5, <1>9, <2>1
<1>11. TwinText(C, P)
  BY <1>9, <1>10 DEF TwinText
<1> QED
  BY <1>6, <1>7, <1>11 DEF C, P

(* The fields of TextOrder.                                                 *)
TextFields == {"revision", "subsystem", "parent", "irq", "driver", "command",
               "status", "cache_line_size", "latency_timer", "header_type",
               "bist", "expansion_rom", "interrupt", "cardbus_cis_pointer",
               "bridge", "resources", "capabilities"}

(* What render_device_detail prints of a field.                             *)
LEMMA FieldLinesTwin ==
  ASSUME NEW details \in [Fields -> FieldStates], NEW f \in TextFields
  PROVE  TwinText(FieldLines(f, details, TRUE), FieldLines(f, details, FALSE))
<1>1. f \in Words
  BY DEF TextFields, Words
<1>2. /\ DOMAIN KindFields = {"cardbus_cis_pointer", "bridge"}
      /\ DOMAIN Needs = {"revision", "subsystem", "parent", "irq", "driver", "resources"}
  BY DEF KindFields, Needs
<1>3. CASE f = "interrupt"
  <2>1. /\ FieldLines(f, details, TRUE) = <<Line(<<f>>, InterruptValue(details))>>
        /\ FieldLines(f, details, FALSE) = <<Line(<<f>>, InterruptValue(details))>>
    <3>1. f \notin DOMAIN KindFields /\ f # "bridge" /\ f # "resources" /\ f # "capabilities"
      BY <1>2, <1>3
    <3> QED
      BY <1>3, <3>1, Zenon DEF FieldLines
  <2>2. InterruptValue(details) = <<"value">> \/ InterruptValue(details) = <<"<unavailable>">>
    BY DEF InterruptValue
  <2>3. Value(<<"value">>, <<"value">>) /\ Value(<<"<unavailable>">>, <<"<unavailable>">>)
    BY WordValue DEF Words
  <2>4. Value(InterruptValue(details), InterruptValue(details))
    BY <2>2, <2>3, Zenon
  <2> QED
    BY <1>1, <2>1, <2>4, FieldTwin
<1>4. CASE f # "interrupt" /\ f \in DOMAIN KindFields /\ details[f] = "NotApplicable"
  <2>1. FieldLines(f, details, TRUE) = << >> /\ FieldLines(f, details, FALSE) = << >>
    BY <1>4, Zenon DEF FieldLines
  <2> QED
    BY <2>1, TwinNone, Zenon
<1>5. CASE f = "bridge" /\ details[f] = "Available"
  <2>1. f # "interrupt" /\ details[f] # "NotApplicable"
    BY <1>5
  <2>2. FieldLines(f, details, TRUE) = BridgeLines /\ FieldLines(f, details, FALSE) = BridgeLines
    BY <1>5, <2>1, Zenon DEF FieldLines
  <2> QED
    BY <2>2, BridgeTwin, Zenon
<1>6. CASE f = "resources" /\ details[f] = "Available"
  <2>1. f # "interrupt" /\ details[f] # "NotApplicable" /\ f # "bridge"
    BY <1>6
  <2>2. /\ FieldLines(f, details, TRUE) = << <<"resources:">>, <<"BAR">> >>
        /\ FieldLines(f, details, FALSE) = << <<"resources:">>, <<"BAR">> >>
    BY <1>6, <2>1, Zenon DEF FieldLines
  <2> QED
    BY <2>2, ResourcesTwin, Zenon
<1>7. CASE f = "capabilities" /\ details[f] = "Available"
  <2>1. f # "interrupt" /\ details[f] # "NotApplicable" /\ f # "bridge" /\ f # "resources"
    BY <1>7
  <2>2. /\ FieldLines(f, details, TRUE) = CapabilityLines(TRUE)
        /\ FieldLines(f, details, FALSE) = CapabilityLines(FALSE)
    BY <1>7, <2>1, Zenon DEF FieldLines
  <2> QED
    BY <2>2, CapabilitiesTwin, Zenon
<1>8. CASE /\ f # "interrupt"
           /\ ~(f \in DOMAIN KindFields /\ details[f] = "NotApplicable")
           /\ ~(f = "bridge" /\ details[f] = "Available")
           /\ ~(f = "resources" /\ details[f] = "Available")
           /\ ~(f = "capabilities" /\ details[f] = "Available")
  <2>1. /\ FieldLines(f, details, TRUE) = <<Line(<<f>>, Shown(f, details[f], TRUE))>>
        /\ FieldLines(f, details, FALSE) = <<Line(<<f>>, Shown(f, details[f], FALSE))>>
    BY <1>8, Zenon DEF FieldLines
  <2>2. f \in Fields
    BY <1>2, <1>8 DEF Fields, Registers, TextFields
  <2>3. details[f] \in FieldStates
    BY <2>2
  <2>4. Value(Shown(f, details[f], TRUE), Shown(f, details[f], FALSE))
    BY <2>3, ShownValue
  <2> QED
    BY <1>1, <2>1, <2>4, FieldTwin
<1> QED
  BY <1>3, <1>4, <1>5, <1>6, <1>7, <1>8

(* The lines that come first: the address bold, the ids in words.           *)
LEMMA IdentityTwin == TwinText(IdentityLines(TRUE), IdentityLines(FALSE))
<1> DEFINE names == <<"vendor", "device", "class">>
           rest == [i \in 1..3 |-> Line(<<names[i]>>, <<"value">>)]
           first(color) == <<"PCI_device">> \o Address(color, <<"address">>)
<1>1. \A i \in 1..3 : names[i] \in Words
  BY DEF Words
<1> HIDE DEF names
<1>2. ASSUME NEW i \in 1..3 PROVE Twin(rest[i], rest[i]) /\ rest[i] \in Pieces
  <2>1. Label(<<names[i]>>, <<names[i]>>)
    BY <1>1, PlainLabel
  <2>2. Value(<<"value">>, <<"value">>)
    BY WordValue DEF Words
  <2>3. Twin(Line(<<names[i]>>, <<"value">>), Line(<<names[i]>>, <<"value">>))
    BY <2>1, <2>2, LabelledTwin
  <2>4. rest[i] = Line(<<names[i]>>, <<"value">>)
    OBVIOUS
  <2>5. Twin(rest[i], rest[i])
    BY <2>3, <2>4, Zenon
  <2> QED
    BY <2>5, TwinTypes
<1>3. rest \in Seq(Pieces) /\ Len(rest) = 3
  <2>1. \A i \in 1..3 : rest[i] \in Pieces
    BY <1>2
  <2>2. DOMAIN rest = 1..3 /\ rest = [i \in 1..3 |-> rest[i]]
    OBVIOUS
  <2> HIDE DEF rest
  <2> QED
    BY <2>1, <2>2
<1>4. TwinText(rest, rest)
  <2> HIDE DEF rest
  <2> QED
    BY <1>2, <1>3 DEF TwinText
<1>5. Twin(first(TRUE), first(FALSE))
  <2> DEFINE x == Address(TRUE, <<"address">>)
             z == <<"PCI_device">>
  <2>1. Shows(x, "address")
    BY PaintedShows DEF Address, Words
  <2>2. Shows(z, "PCI_device")
    BY WordShows DEF Words
  <2> HIDE DEF x
  <2>3. Twin(z \o x, <<"PCI_device", "address">>)
    BY <2>1, <2>2, TwoWordsTwin
  <2>4. first(FALSE) = <<"PCI_device", "address">>
    <3>1. Address(FALSE, <<"address">>) = <<"address">>
      BY DEF Address, Paint
    <3>2. "PCI_device" \in Words /\ "address" \in Words
      BY DEF Words
    <3>3. <<"PCI_device">> \o <<"address">> = <<"PCI_device", "address">>
      BY <3>2, TwoJoined
    <3> QED
      BY <3>1, <3>3, Zenon
  <2>5. first(TRUE) = z \o x
    BY DEF x
  <2> QED
    BY <2>3, <2>4, <2>5, Zenon
<1>6. /\ IdentityLines(TRUE) = <<first(TRUE)>> \o rest
      /\ IdentityLines(FALSE) = <<first(FALSE)>> \o rest
  BY Zenon DEF IdentityLines, names
<1> HIDE DEF first, rest
<1>7. TwinText(<<first(TRUE)>>, <<first(FALSE)>>)
  BY <1>5, TwinOne
<1>8. TwinText(<<first(TRUE)>> \o rest, <<first(FALSE)>> \o rest)
  BY <1>4, <1>7, TwinJoined
<1> QED
  BY <1>6, <1>8, Zenon

(* A report without the empty line after its last line break.               *)
Body(details, color) ==
  IdentityLines(color)
    \o FlattenSeq([i \in DOMAIN TextOrder |-> FieldLines(TextOrder[i], details, color)])

(* The whole report, in colours and without.                                *)
LEMMA BodyTwin ==
  ASSUME NEW details \in [Fields -> FieldStates]
  PROVE  TwinText(Body(details, TRUE), Body(details, FALSE))
<1> DEFINE parts(color) == [i \in DOMAIN TextOrder |-> FieldLines(TextOrder[i], details, color)]
<1>1. DOMAIN TextOrder = 1..17 /\ \A i \in 1..17 : TextOrder[i] \in TextFields
  BY DEF TextOrder, TextFields
<1>2. ASSUME NEW i \in 1..17 PROVE TwinText(parts(TRUE)[i], parts(FALSE)[i])
  <2>1. TwinText(FieldLines(TextOrder[i], details, TRUE), FieldLines(TextOrder[i], details, FALSE))
    BY <1>1, FieldLinesTwin
  <2>2. /\ parts(TRUE)[i] = FieldLines(TextOrder[i], details, TRUE)
        /\ parts(FALSE)[i] = FieldLines(TextOrder[i], details, FALSE)
    BY <1>1
  <2> QED
    BY <2>1, <2>2, Zenon
<1>3. /\ DOMAIN parts(TRUE) = 1..17 /\ parts(TRUE) = [i \in 1..17 |-> parts(TRUE)[i]]
      /\ DOMAIN parts(FALSE) = 1..17 /\ parts(FALSE) = [i \in 1..17 |-> parts(FALSE)[i]]
  BY <1>1
<1> HIDE DEF parts
<1> DEFINE C == parts(TRUE)
           P == parts(FALSE)
<1>4. \A i \in 1..17 : C[i] \in Seq(Pieces) /\ P[i] \in Seq(Pieces)
  BY <1>2 DEF TwinText
<1> HIDE DEF C, P
<1>5. C \in Seq(Seq(Pieces)) /\ Len(C) = 17
  <2>1. C = [i \in 1..17 |-> C[i]]
    BY <1>3 DEF C
  <2> QED
    BY <1>4, <2>1
<1>6. P \in Seq(Seq(Pieces)) /\ Len(P) = 17
  <2>1. P = [i \in 1..17 |-> P[i]]
    BY <1>3 DEF P
  <2> QED
    BY <1>4, <2>1
<1>7. TwinText(FlattenSeq(C), FlattenSeq(P))
  <2>1. \A i \in 1..17 : TwinText(C[i], P[i])
    BY <1>2 DEF C, P
  <2> QED
    BY <1>5, <1>6, <2>1, TwinFlatten
<1>8. TwinText(IdentityLines(TRUE) \o FlattenSeq(C), IdentityLines(FALSE) \o FlattenSeq(P))
  BY <1>7, IdentityTwin, TwinJoined
<1> QED
  BY <1>8, Zenon DEF Body, C, P, parts

(* The values scan takes in TextFromAnsi.                                   *)
ScansText(f, text) ==
  /\ f[0] = [lines |-> << >>, style |-> DefaultStyle]
  /\ \A n \in 1..Len(text) :
       f[n] = LET before == f[n - 1]
                  line   == ScanLine(text[n], before.style)
              IN [lines |-> Append(before.lines, line.spans), style |-> line.style]

(* The loop over the lines of a text.                                       *)
LEMMA ScansExists ==
  ASSUME NEW text \in Seq(Pieces)
  PROVE  \E f : ScansText(f, text) /\ TextFromAnsi(text) = f[Len(text)].lines
<1> DEFINE start == [lines |-> << >>, style |-> DefaultStyle]
           Joins(before, n) == LET line == ScanLine(text[n], before.style)
                               IN [lines |-> Append(before.lines, line.spans), style |-> line.style]
           Rec(g, k) == g = [n \in 0..k |-> IF n = 0 THEN start ELSE Joins(g[n - 1], n)]
<1> HIDE DEF start, Joins
<1>1. \A k \in Nat : \E g : Rec(g, k)
  <2> DEFINE D == {k \in Nat : \E g : Rec(g, k)}
  <2>1. 0 \in D
    <3>1. Rec([n \in 0..0 |-> start], 0)
      OBVIOUS
    <3> HIDE DEF Rec
    <3> QED
      BY <3>1
  <2>2. ASSUME NEW k \in Nat, k \in D PROVE k + 1 \in D
    <3>1. PICK g : Rec(g, k)
      BY <2>2
    <3> DEFINE h == [n \in 0..(k + 1) |-> IF n = k + 1 THEN Joins(g[k], k + 1) ELSE g[n]]
    <3>2. \A n \in 0..(k + 1) : h[n] = IF n = 0 THEN start ELSE Joins(h[n - 1], n)
      BY <3>1
    <3>3. Rec(h, k + 1)
      BY <3>2
    <3> HIDE DEF h, Rec
    <3> QED
      BY <3>3
  <2> HIDE DEF D
  <2>3. \A k \in Nat : k \in D
    BY <2>1, <2>2, Induct
  <2> QED
    BY <2>3 DEF D
<1> DEFINE f == CHOOSE g : Rec(g, Len(text))
<1>2. TextFromAnsi(text) = f[Len(text)].lines
  BY DEF TextFromAnsi, start, Joins
<1>3. Len(text) \in Nat
  OBVIOUS
<1>4. Rec(f, Len(text))
  <2> HIDE DEF Rec
  <2> QED
    BY <1>1, <1>3
<1> HIDE DEF f
<1>5. f[0] = start /\ \A n \in 1..Len(text) : f[n] = Joins(f[n - 1], n)
  BY <1>3, <1>4
<1>6. ScansText(f, text)
  BY <1>5, Zenon DEF ScansText, start, Joins
<1> QED
  BY <1>2, <1>6

(* Lines each of which leaves the default style are scanned one by one.      *)
LEMMA TextScanned ==
  ASSUME NEW text \in Seq(Pieces),
         \A i \in 1..Len(text) :
           \E t, s : Means(text[i], DefaultStyle, t, s, DefaultStyle)
  PROVE  /\ Len(TextFromAnsi(text)) = Len(text) /\ DOMAIN TextFromAnsi(text) = 1..Len(text)
         /\ \A i \in 1..Len(text) :
              TextFromAnsi(text)[i] = ScanLine(text[i], DefaultStyle).spans
<1>1. PICK f : ScansText(f, text) /\ TextFromAnsi(text) = f[Len(text)].lines
  BY ScansExists
<1> DEFINE N == Len(text)
           spans(i) == ScanLine(text[i], DefaultStyle).spans
           Lines == {spans(i) : i \in 1..N}
           Good(n) == /\ f[n].style = DefaultStyle /\ f[n].lines \in Seq(Lines) /\ Len(f[n].lines) = n
                      /\ \A i \in 1..n : f[n].lines[i] = spans(i)
           D == {n \in Nat : n <= N => Good(n)}
<1>2. N \in Nat
  OBVIOUS
<1>3. \A i \in 1..N : spans(i) \in Lines /\ ScanLine(text[i], DefaultStyle).style = DefaultStyle
  <2>1. DefaultStyle \in Style
    BY StyleFacts
  <2>2. \A i \in 1..N : ScanLine(text[i], DefaultStyle).style = DefaultStyle
    <3> SUFFICES ASSUME NEW i \in 1..N
                 PROVE  ScanLine(text[i], DefaultStyle).style = DefaultStyle
      OBVIOUS
    <3>1. PICK t, s : Means(text[i], DefaultStyle, t, s, DefaultStyle)
      OBVIOUS
    <3> QED
      BY <2>1, <3>1, MeansLine
  <2> QED
    BY <2>2
<1> HIDE DEF N, spans, Lines
<1>4. 0 \in D
  <2>1. f[0] = [lines |-> << >>, style |-> DefaultStyle]
    BY <1>1 DEF ScansText
  <2>2. f[0].style = DefaultStyle /\ f[0].lines = << >>
    BY <2>1
  <2>3. Good(0)
    BY <2>2
  <2> QED
    BY <2>3
<1>5. ASSUME NEW n \in Nat, n \in D PROVE n + 1 \in D
  <2> SUFFICES ASSUME n + 1 <= N PROVE Good(n + 1)
    OBVIOUS
  <2>1. Good(n) /\ n + 1 \in 1..N /\ (n + 1) - 1 = n
    BY <1>2, <1>5
  <2> DEFINE k == n + 1
             line == ScanLine(text[k], DefaultStyle)
  <2>2. f[k] = [lines |-> Append(f[n].lines, ScanLine(text[k], f[n].style).spans),
                style |-> ScanLine(text[k], f[n].style).style]
    BY <1>1, <2>1 DEF ScansText, N
  <2>3. f[k].lines = Append(f[n].lines, spans(k)) /\ f[k].style = DefaultStyle
    <3>1. f[n].style = DefaultStyle
      BY <2>1
    <3>2. ScanLine(text[k], DefaultStyle).style = DefaultStyle
      BY <1>3, <2>1
    <3> HIDE DEF k
    <3> QED
      BY <2>2, <3>1, <3>2 DEF spans
  <2>4. spans(k) \in Lines
    BY <1>3, <2>1
  <2>5. f[n].lines \in Seq(Lines) /\ Len(f[n].lines) = n /\ \A i \in 1..n : f[n].lines[i] = spans(i)
    BY <2>1
  <2> DEFINE old == f[n].lines
             new == Append(old, spans(k))
  <2>6. new \in Seq(Lines) /\ Len(new) = n + 1 /\ new[n + 1] = spans(k) /\ \A i \in 1..n : new[i] = old[i]
    <3> HIDE DEF old, k
    <3> QED
      BY <2>4, <2>5, AppendProperties DEF old
  <2> HIDE DEF new
  <2>7. \A i \in 1..(n + 1) : new[i] = spans(i)
    BY <2>5, <2>6
  <2>8. f[n + 1].lines = new /\ f[n + 1].style = DefaultStyle
    BY <2>3 DEF new
  <2> QED
    BY <2>6, <2>7, <2>8
<1> HIDE DEF D
<1>6. \A n \in Nat : n \in D
  BY <1>4, <1>5, Induct
<1>7. Good(N)
  <2>1. N \in D /\ N <= N
    BY <1>2, <1>6
  <2> QED
    BY <2>1 DEF D
<1>8. TextFromAnsi(text) = f[N].lines
  BY <1>1 DEF N
<1> QED
  BY <1>7, <1>8 DEF spans, N

(* A last line that is empty is no line.                                    *)
LEMMA LinesOfBroken ==
  ASSUME NEW text \in Seq(Pieces)
  PROVE  LinesOf(Append(text, << >>)) = text
<1> DEFINE t == Append(text, << >>)
           n == Len(text)
<1>1. << >> \in Pieces /\ n \in Nat
  BY DEF Pieces
<1>2. t \in Seq(Pieces) /\ Len(t) = n + 1 /\ t[n + 1] = << >> /\ \A i \in 1..n : t[i] = text[i]
  BY <1>1, AppendProperties
<1> HIDE DEF t, n
<1>3. t # << >> /\ Last(t) = << >> /\ (n + 1) - 1 = n
  BY <1>1, <1>2 DEF Last
<1>4. Front(t) = text
  <2> DEFINE sub == SubSeq(t, 1, n)
  <2>1. Front(t) = sub
    BY <1>2, <1>3 DEF Front
  <2>2. sub \in Seq(Pieces) /\ Len(sub) = n /\ \A i \in 1..n : sub[i] = t[i]
    BY <1>1, <1>2
  <2> HIDE DEF sub
  <2>3. Len(sub) = Len(text) /\ \A i \in 1..Len(sub) : sub[i] = text[i]
    BY <1>2, <2>2 DEF n
  <2>4. sub = text
    BY <2>2, <2>3, SeqEqual
  <2> QED
    BY <2>1, <2>4
<1> QED
  BY <1>3, <1>4, Zenon DEF LinesOf, t

(* What load_detail starts from, in colours and without.                    *)
PlainText(text) == \A i \in 1..Len(text) : text[i] \in Seq(Plain)

(* The report or the error of load_detail, in colours and without.          *)
LEMMA DeviceTwin ==
  ASSUME NEW report \in DOMAIN Reports \cup {"failed"}
  PROVE  LET colours == DeviceText(report, TRUE)
             text    == DeviceText(report, FALSE)
         IN /\ TwinText(LinesOf(colours), LinesOf(text))
            /\ text \in Seq(Pieces) /\ PlainText(text)
            /\ text \in {LinesOf(text), Append(LinesOf(text), << >>)}
<1> DEFINE C == DeviceText(report, TRUE)
           P == DeviceText(report, FALSE)
<1>1. CASE report = "failed"
  <2> DEFINE line == Line(<<"failed_to_load_details">>, <<"error">>)
             text == <<line>>
  <2>1. C = text /\ P = text
    BY <1>1 DEF DeviceText
  <2>2. "failed_to_load_details" \in Words /\ "error" \in Words
    BY DEF Words
  <2>3. TwinText(text, text)
    BY <2>2, WordValue, FieldTwin
  <2>4. /\ line \in Seq(Plain) /\ Len(line) # 0
    <3> DEFINE label == <<"failed_to_load_details">>
               value == <<"error">>
    <3>1. label \in Seq(Words) /\ value \in Seq(Plain)
      BY <2>2, PlainIsPiece DEF WordPieces
    <3>2. line \in Seq(Plain) /\ Len(line) = Len(label) + 1 + Len(value)
      BY <3>1, ValueOfLine
    <3>3. Len(label) \in Nat /\ Len(value) \in Nat
      OBVIOUS
    <3> HIDE DEF label, value, line
    <3> QED
      BY <3>2, <3>3
  <2> HIDE DEF line
  <2>5. line # << >>
    BY <2>4
  <2>6. text # << >> /\ Last(text) = line /\ Len(text) = 1 /\ text[1] = line
    BY DEF Last
  <2>7. LinesOf(text) = text
    BY <2>5, <2>6 DEF LinesOf
  <2>8. text \in Seq(Pieces) /\ PlainText(text)
    BY <2>3, <2>4, <2>6 DEF TwinText, PlainText
  <2> HIDE DEF text
  <2> QED
    BY <2>1, <2>3, <2>7, <2>8
<1>2. CASE report # "failed"
  <2> DEFINE d == Reports[report]
             e == << >>
             c == Body(d, TRUE)
             p == Body(d, FALSE)
  <2>1. d \in [Fields -> FieldStates]
    BY <1>2, ReportsAssumption
  <2> HIDE DEF d
  <2>2. TwinText(c, p)
    BY <2>1, BodyTwin
  <2>3. C = c \o <<e>> /\ P = p \o <<e>>
    BY <1>2, Zenon DEF DeviceText, ReportText, Body, d
  <2> HIDE DEF c, p
  <2>4. c \in Seq(Pieces) /\ p \in Seq(Pieces) /\ e \in Pieces
    BY <2>2 DEF TwinText, Pieces
  <2>5. C = Append(c, e) /\ P = Append(p, e)
    <3>1. Append(c, e) = c \o <<e>>
      BY <2>4, AppendIsConcat
    <3>2. Append(p, e) = p \o <<e>>
      BY <2>4, AppendIsConcat
    <3> QED
      BY <2>3, <3>1, <3>2, Zenon
  <2>6. LinesOf(C) = c /\ LinesOf(P) = p
    BY <2>4, <2>5, LinesOfBroken
  <2>7. P \in Seq(Pieces) /\ PlainText(P)
    <3>1. /\ Append(p, e) \in Seq(Pieces) /\ Len(Append(p, e)) = Len(p) + 1 /\ Len(p) \in Nat
          /\ Append(p, e)[Len(p) + 1] = e /\ \A i \in 1..Len(p) : Append(p, e)[i] = p[i]
      BY <2>4, AppendProperties
    <3>2. \A i \in 1..Len(p) : p[i] \in Seq(Plain)
      BY <2>2 DEF TwinText, Twin
    <3>3. e \in Seq(Plain)
      OBVIOUS
    <3> DEFINE q == Append(p, e)
    <3> HIDE DEF q, e
    <3>4. \A i \in 1..(Len(p) + 1) : q[i] \in Seq(Plain)
      BY <3>1, <3>2, <3>3 DEF q
    <3>5. q \in Seq(Pieces) /\ Len(q) = Len(p) + 1 /\ P = q
      BY <2>5, <3>1 DEF q
    <3> HIDE DEF P
    <3> QED
      BY <3>4, <3>5 DEF PlainText
  <2> HIDE DEF C, P, e
  <2>8. P \in {LinesOf(P), Append(LinesOf(P), e)}
    BY <2>5, <2>6
  <2> QED
    BY <2>2, <2>6, <2>7, <2>8 DEF C, P, e
<1> QED
  BY <1>1, <1>2

(* The pane in colours.                                                     *)
LEMMA ColouredPane ==
  ASSUME NEW report \in DOMAIN Reports \cup {"failed"}, report # "none"
  PROVE  LET pane == PaneOf(report, TRUE)
             text == LinesOf(DeviceText(report, FALSE))
         IN /\ Len(pane) = Len(text) /\ DOMAIN pane = 1..Len(text) /\ text \in Seq(Pieces)
            /\ \A i \in 1..Len(text) : /\ PlainLine(pane[i]) = text[i]
                                       /\ Reddened(text[i], Styles(pane[i]))
<1> DEFINE C == LinesOf(DeviceText(report, TRUE))
           P == LinesOf(DeviceText(report, FALSE))
           N == Len(P)
           K == [i \in DOMAIN C |-> ColorizeLine(C[i])]
           pane == PaneOf(report, TRUE)
<1>1. TwinText(C, P)
  BY DeviceTwin
<1>2. pane = TextFromAnsi(K)
  BY DEF PaneOf, ColorizeDetail
<1> HIDE DEF C, P, pane
<1>3. /\ C \in Seq(Pieces) /\ P \in Seq(Pieces) /\ N \in Nat /\ DOMAIN C = 1..N
      /\ \A i \in 1..N : Twin(C[i], P[i])
  BY <1>1 DEF TwinText
<1>4. \A i \in 1..N : \E s \in Seq(Style) :
        /\ Means(ColorizeLine(C[i]), DefaultStyle, P[i], s, DefaultStyle) /\ Reddened(P[i], s)
  BY <1>3 DEF Twin
<1>5. K \in Seq(Pieces) /\ Len(K) = N /\ \A i \in 1..N : K[i] = ColorizeLine(C[i])
  <2>1. \A i \in 1..N : ColorizeLine(C[i]) \in Pieces
    BY <1>4 DEF Means
  <2> HIDE DEF N
  <2> QED
    BY <1>3, <2>1
<1> HIDE DEF K, N
<1>6. \A i \in 1..N : \E t, s : Means(K[i], DefaultStyle, t, s, DefaultStyle)
  <2> SUFFICES ASSUME NEW i \in 1..N PROVE \E t, s : Means(K[i], DefaultStyle, t, s, DefaultStyle)
    OBVIOUS
  <2>1. PICK s \in Seq(Style) : Means(ColorizeLine(C[i]), DefaultStyle, P[i], s, DefaultStyle)
    BY <1>4
  <2>2. K[i] = ColorizeLine(C[i])
    BY <1>5
  <2> QED
    BY <2>1, <2>2
<1>7. /\ Len(pane) = N /\ DOMAIN pane = 1..N
      /\ \A i \in 1..N : pane[i] = ScanLine(K[i], DefaultStyle).spans
  BY <1>2, <1>5, <1>6, TextScanned
<1>8. ASSUME NEW i \in 1..N
      PROVE  PlainLine(pane[i]) = P[i] /\ Reddened(P[i], Styles(pane[i]))
  <2>1. PICK s \in Seq(Style) : /\ Means(ColorizeLine(C[i]), DefaultStyle, P[i], s, DefaultStyle)
                                /\ Reddened(P[i], s)
    BY <1>4
  <2>2. DefaultStyle \in Style
    BY StyleFacts
  <2>3. /\ PlainLine(ScanLine(ColorizeLine(C[i]), DefaultStyle).spans) = P[i]
        /\ Styles(ScanLine(ColorizeLine(C[i]), DefaultStyle).spans) = s
    BY <2>1, <2>2, MeansLine
  <2>4. pane[i] = ScanLine(ColorizeLine(C[i]), DefaultStyle).spans
    BY <1>5, <1>7
  <2> QED
    BY <2>1, <2>3, <2>4, Zenon
<1> QED
  BY <1>3, <1>7, <1>8 DEF pane, P, N

(* The pane without colours.                                                *)
LEMMA PlainPane ==
  ASSUME NEW report \in DOMAIN Reports \cup {"failed"}, report # "none"
  PROVE  LET pane == PaneOf(report, FALSE)
             text == DeviceText(report, FALSE)
         IN /\ Len(pane) = Len(text) /\ DOMAIN pane = 1..Len(text) /\ text \in Seq(Pieces)
            /\ \A i \in 1..Len(text) : /\ PlainLine(pane[i]) = text[i]
                                       /\ Styles(pane[i]) = Solid(text[i], DefaultStyle)
<1> DEFINE P == DeviceText(report, FALSE)
           N == Len(P)
           pane == PaneOf(report, FALSE)
<1>1. P \in Seq(Pieces) /\ PlainText(P)
  BY DeviceTwin
<1>2. pane = TextFromAnsi(P)
  BY DEF PaneOf
<1> HIDE DEF P, pane
<1>3. DefaultStyle \in Style
  BY StyleFacts
<1>4. \A i \in 1..N : Means(P[i], DefaultStyle, P[i], Solid(P[i], DefaultStyle), DefaultStyle)
  BY <1>1, <1>3, MeansPlain DEF PlainText
<1>5. /\ Len(pane) = N /\ DOMAIN pane = 1..N
      /\ \A i \in 1..N : pane[i] = ScanLine(P[i], DefaultStyle).spans
  <2>1. \A i \in 1..Len(P) : \E t, s : Means(P[i], DefaultStyle, t, s, DefaultStyle)
    BY <1>4
  <2> HIDE DEF Means
  <2> QED
    BY <1>1, <1>2, <2>1, TextScanned
<1> HIDE DEF N
<1>6. ASSUME NEW i \in 1..N
      PROVE  PlainLine(pane[i]) = P[i] /\ Styles(pane[i]) = Solid(P[i], DefaultStyle)
  <2>1. /\ PlainLine(ScanLine(P[i], DefaultStyle).spans) = P[i]
        /\ Styles(ScanLine(P[i], DefaultStyle).spans) = Solid(P[i], DefaultStyle)
    BY <1>3, <1>4, MeansLine
  <2> QED
    BY <1>5, <2>1
<1> QED
  BY <1>1, <1>5, <1>6 DEF pane, P, N

(* A pane is that of a report, in colours or without.                       *)
LEMMA PaneParts ==
  ASSUME NEW p \in AllPanes
  PROVE  p[1] \in DOMAIN Reports \cup {"failed", "none"} /\ p[2] \in BOOLEAN
<1>1. PICK r \in DOMAIN Reports \cup {"failed", "none"}, c \in BOOLEAN : p = <<r, c>>
  BY DEF AllPanes
<1> QED
  BY <1>1

(* Each pane, in colours and without, shows what is printed.                *)
LEMMA PanesFaithful == Faithful = AllPanes
<1> SUFFICES ASSUME NEW r \in DOMAIN Reports \cup {"failed", "none"}, NEW b \in BOOLEAN
             PROVE  ShowsReport(r, b)
  <2>1. \A p \in AllPanes : ShowsReport(p[1], p[2])
    BY PaneParts
  <2> QED
    BY <2>1 DEF Faithful
<1> SUFFICES ASSUME r # "none" PROVE ShowsReport(r, b)
  BY DEF ShowsReport
<1> DEFINE pane == PaneOf(r, b)
           text == DeviceText(r, FALSE)
           lines == LinesOf(text)
           want == IF b THEN lines ELSE text
           shown == [i \in DOMAIN pane |-> PlainLine(pane[i])]
<1>1. r \in DOMAIN Reports \cup {"failed"}
  OBVIOUS
<1>2. /\ Len(pane) = Len(want) /\ DOMAIN pane = 1..Len(want) /\ want \in Seq(Pieces)
      /\ \A i \in 1..Len(want) : PlainLine(pane[i]) = want[i]
  <2>1. CASE b
    BY <1>1, <2>1, ColouredPane, Zenon
  <2>2. CASE ~b
    BY <1>1, <2>2, PlainPane, Zenon
  <2> QED
    BY <2>1, <2>2
<1>3. text \in {lines, Append(lines, << >>)}
  BY <1>1, DeviceTwin
<1>4. want \in {lines, Append(lines, << >>)}
  BY <1>3
<1> HIDE DEF pane, want, lines, text
<1>5. shown = want
  BY <1>2
<1> HIDE DEF shown
<1>6. shown \in {lines, Append(lines, << >>)}
  BY <1>4, <1>5
<1> QED
  BY <1>6, Zenon DEF ShowsReport, shown, lines, text, pane

(* Each pane, in colours and without, is red where it tells of a failure.   *)
LEMMA PanesTruthfullyRed == TruthfullyRed = AllPanes
<1> SUFFICES ASSUME NEW r \in DOMAIN Reports \cup {"failed", "none"}, NEW b \in BOOLEAN,
                    NEW i \in DOMAIN PaneOf(r, b)
             PROVE  RedIsFailure(PaneOf(r, b)[i], b)
  <2>1. \A p \in AllPanes : \A i \in DOMAIN PaneOf(p[1], p[2]) :
          RedIsFailure(PaneOf(p[1], p[2])[i], p[2])
    BY PaneParts
  <2> QED
    BY <2>1 DEF TruthfullyRed
<1>1. r # "none"
  BY DEF PaneOf
<1>2. r \in DOMAIN Reports \cup {"failed"}
  BY <1>1
<1>3. CASE b
  <2> DEFINE spans == PaneOf(r, b)[i]
             text  == LinesOf(DeviceText(r, FALSE))
  <2>1. PlainLine(spans) = text[i] /\ Reddened(text[i], Styles(spans))
    BY <1>1, <1>2, <1>3, ColouredPane, Zenon
  <2> HIDE DEF spans, text
  <2>2. Reddened(PlainLine(spans), Styles(spans))
    BY <2>1
  <2>3. RedIsFailure(spans, b)
    BY <1>3, <2>2 DEF RedIsFailure, Reddened, ValueFrom
  <2> QED
    BY <2>3 DEF spans
<1>4. CASE ~b
  <2> DEFINE spans == PaneOf(r, b)[i]
             text  == DeviceText(r, FALSE)
  <2>1. Styles(spans) = Solid(text[i], DefaultStyle)
    BY <1>1, <1>2, <1>4, PlainPane, Zenon
  <2> HIDE DEF spans, text
  <2>2. Range(Styles(spans)) \subseteq {DefaultStyle}
    BY <2>1 DEF Solid, Range
  <2>3. RedIsFailure(spans, b)
    BY <1>4, <2>2 DEF RedIsFailure
  <2> QED
    BY <2>3 DEF spans
<1> QED
  BY <1>3, <1>4

(* What is on the screen is one of the panes.                               *)
LEMMA OneOfThePanes ==
  ASSUME IInv
  PROVE  PaneOnScreen \in AllPanes
<1>1. Selected \in {0} \cup DOMAIN rows /\ detail \in Loaded(Selected) /\ palette \in BOOLEAN
  BY SelectedIsRow DEF IInv, Cursor, Model
<1>2. detail.report \in DOMAIN Reports \cup {"failed", "none"}
  <2>1. CASE Selected # 0 /\ rows[Selected].device
    <3>1. rows[Selected].report \in DOMAIN Reports \cup {"none"}
      BY <1>1, <2>1, ReportsAssumption DEF IInv, Model
    <3> QED
      BY <1>1, <2>1, <3>1 DEF Loaded
  <2>2. CASE ~(Selected # 0 /\ rows[Selected].device)
    <3>1. detail = NoDetail
      BY <1>1, <2>2, Zenon DEF Loaded
    <3> QED
      BY <3>1 DEF NoDetail
  <2> QED
    BY <2>1, <2>2
<1> QED
  BY <1>1, <1>2 DEF PaneOnScreen, AllPanes

(* Whatever inspecting the device under the cursor gave or failed to give,  *)
(* the detail pane shows line by line what lspci-rs prints of the device    *)
(* without colours: ColorizeDetail's sequences and those of the renderer    *)
(* never reach the screen, and no text is lost or split with them.          *)
THEOREM PaneAlwaysShowsReport == Spec => []PaneShowsReport
<1>1. IInv => PaneShowsReport
  BY OneOfThePanes, PanesFaithful DEF PaneShowsReport
<1> QED
  BY Invariant, <1>1, PTL

(* In colours, the values of the pane that tell of a failure are red, all   *)
(* of them and nothing else; without colours everything has the default     *)
(* style.                                                                   *)
THEOREM FailuresAlwaysRed == Spec => []FailuresAreRed
<1>1. IInv => FailuresAreRed
  BY OneOfThePanes, PanesTruthfullyRed DEF FailuresAreRed
<1> QED
  BY Invariant, <1>1, PTL
=============================================================================
