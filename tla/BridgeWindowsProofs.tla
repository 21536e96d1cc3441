------------------------- MODULE BridgeWindowsProofs --------------------------
(***************************************************************************)
(* Proofs about the bridge windows: whatever pair of registers the program *)
(* reads, the size it prints is the number of addresses from the base to   *)
(* the limit, and it panics for a window that fills its integer only.  The *)
(* runs check this for a few addresses, the theorems for any width.        *)
(***************************************************************************)
EXTENDS BridgeWindows, TLAPS

-----------------------------------------------------------------------------
(* Arithmetic, for a scale u and registers of t values with a last digit of  *)
(* e values.                                                                 *)

(* A register without its last digit.                                        *)
LEMMA DigitsOf ==
  ASSUME NEW e \in Nat \ {0}, NEW r \in Nat
  PROVE  r \div e \in Nat /\ e * (r \div e) \in Nat /\ e * (r \div e) <= r
OBVIOUS

(* The granules end where the registers do.                                  *)
LEMMA GranuleBelow ==
  ASSUME NEW e \in Nat \ {0}, NEW t \in Nat \ {0}, t % e = 0, NEW r \in 0..t - 1
  PROVE  e * (r \div e) + e <= t
<1> DEFINE a == r \div e
           q == t \div e
<1>1. t = q * e /\ q \in Nat
  OBVIOUS
<1>2. a \in Nat /\ a * e <= r
  OBVIOUS
<1> HIDE DEF a, q
<1>3. a < q
  <2> SUFFICES ASSUME q <= a PROVE FALSE
    BY <1>1, <1>2
  <2>1. PICK c \in Nat : a = q + c
    <3>1. a - q \in Nat /\ a = q + (a - q)
      BY <1>1, <1>2
    <3> QED
      BY <3>1
  <2>2. a * e = q * e + c * e /\ c * e \in Nat
    BY <1>1, <2>1
  <2> QED
    BY <1>1, <1>2, <2>2
<1>4. PICK c \in Nat : q = a + 1 + c
  <2>1. q - a - 1 \in Nat /\ q = a + 1 + (q - a - 1)
    BY <1>1, <1>2, <1>3
  <2> QED
    BY <2>1
<1>5. t = e * a + e + c * e /\ c * e \in Nat /\ e * a \in Nat
  BY <1>1, <1>2, <1>4
<1> QED
  BY <1>5 DEF a

(* A window's last address is the end of a granule, within the window.       *)
LEMMA ScaledBelow ==
  ASSUME NEW u \in Nat \ {0}, NEW t \in Nat, NEW m \in Nat, NEW e \in Nat \ {0}, m + e <= t
  PROVE  /\ m * u \in Nat /\ e * u \in Nat \ {0} /\ m * u + (e * u - 1) \in Nat
         /\ m * u + (e * u - 1) < u * t
<1>1. PICK c \in Nat : t = m + e + c
  <2>1. t - m - e \in Nat /\ t = m + e + (t - m - e)
    OBVIOUS
  <2> QED
    BY <2>1
<1>2. u * t = m * u + e * u + c * u
  BY <1>1
<1>3. m * u \in Nat /\ c * u \in Nat /\ e * u \in Nat \ {0}
  OBVIOUS
<1> QED
  BY <1>2, <1>3

(* From the start of a granule to the end of one there are whole granules.   *)
LEMMA GranulesBetween ==
  ASSUME NEW g \in Nat \ {0}, NEW n \in Nat, NEW m \in Nat, n * g <= m * g + (g - 1)
  PROVE  \E c \in 1..(m + 1) : m * g + (g - 1) + 1 - n * g = c * g
<1>1. n <= m
  <2> SUFFICES ASSUME m + 1 <= n PROVE FALSE
    OBVIOUS
  <2>1. PICK c \in Nat : n = m + 1 + c
    <3>1. n - m - 1 \in Nat /\ n = m + 1 + (n - m - 1)
      OBVIOUS
    <3> QED
      BY <3>1
  <2>2. n * g = m * g + g + c * g /\ c * g \in Nat /\ m * g \in Nat
    BY <2>1
  <2> QED
    BY <2>2
<1>2. m - n + 1 \in 1..(m + 1)
  BY <1>1
<1>3. m * g + (g - 1) + 1 - n * g = (m - n + 1) * g
  OBVIOUS
<1> QED
  BY <1>2, <1>3

(* A number of units that leaves nothing over is counted exactly.            *)
LEMMA WholeUnits ==
  ASSUME NEW a \in Nat, NEW u \in Nat \ {0}, a % u = 0
  PROVE  a \div u \in Nat /\ (a \div u) * u = a
OBVIOUS

(* Whatever its unit, a printed size is the size.                            *)
LEMMA UnitsAreExact ==
  ASSUME NEW size \in Nat
  PROVE  /\ RenderWindowSize(size) \in [count : Nat, unit : {1, Kilo, Mega}]
         /\ RenderWindowSize(size).count * RenderWindowSize(size).unit = size
         /\ size = 0 => RenderWindowSize(size).count = 0
<1> DEFINE unit == IF size >= Mega /\ size % Mega = 0 THEN Mega
                   ELSE IF size >= Kilo /\ size % Kilo = 0 THEN Kilo ELSE 1
<1>1. unit \in {1, Kilo, Mega} /\ size % unit = 0 /\ unit \in Nat \ {0}
  BY WidthAssumption
<1>2. RenderWindowSize(size) = [count |-> size \div unit, unit |-> unit]
  BY DEF RenderWindowSize
<1> HIDE DEF unit
<1>3. size \div unit \in Nat /\ (size \div unit) * unit = size
  BY <1>1, WholeUnits
<1>4. size = 0 => size \div unit = 0
  BY <1>1
<1> QED
  BY <1>1, <1>2, <1>3, <1>4

(* In an integer of w values, a span of no more than w addresses comes out   *)
(* as it is, or as zero if it fills the integer.                             *)
LEMMA SpanWraps ==
  ASSUME NEW w \in Nat, NEW first \in Nat, NEW last \in Nat, first <= last, last < w,
         NEW size, size = (last - first + 1) % w
  PROVE  /\ size \in Nat
         /\ first + size = last + 1 \/ (first = 0 /\ last + 1 = w /\ size = 0)
         /\ last - first + 1 >= w => first = 0 /\ last + 1 = w
<1> DEFINE span == last - first + 1
<1>1. span \in Nat /\ span <= w /\ (span = w => first = 0 /\ last + 1 = w) /\ w \in Nat \ {0}
  OBVIOUS
<1>2. first + span = last + 1
  OBVIOUS
<1> HIDE DEF span
<1>3. CASE span < w
  <2>1. span % w = span
    BY <1>1, <1>3
  <2> QED
    BY <1>1, <1>2, <1>3, <2>1 DEF span
<1>4. CASE span = w
  <2>1. w % w = 0
    BY <1>1
  <2> QED
    BY <1>1, <1>4, <2>1 DEF span
<1> QED
  BY <1>1, <1>3, <1>4

-----------------------------------------------------------------------------
(* The inductive invariant: past the reading, the header is that of some     *)
(* pair of registers, which need not be the pair they hold by now, and what  *)
(* was printed, or the panic, followed from the header.                      *)

Registers == 0..Steps[window] - 1

Decoded(b, l) == [base    |-> BaseAddress(b),
                  limit   |-> LimitAddress(l),
                  enabled |-> BaseAddress(b) <= LimitAddress(l)]

HeaderRead == \E b, l \in Registers : header = Decoded(b, l)

IInv ==
  /\ TypeOK
  /\ pc # "read" => HeaderRead
  /\ pc = "done" => printed = IF header.enabled THEN RenderWindowSize(Size) ELSE Disabled
  /\ pc = "panicked" => Overflows /\ header.enabled

(* The constants of the window looked at.                                    *)
LEMMA WindowTypes ==
  ASSUME TypeOK
  PROVE  /\ Scale[window] \in Nat \ {0} /\ Steps[window] \in Nat \ {0}
         /\ Low \in Nat \ {0} /\ Steps[window] % Low = 0
         /\ Width[format][window] \in Nat
         /\ Scale[window] * Steps[window] <= Width[format][window]
BY WidthAssumption DEF TypeOK

(* What the registers stand for: the limit is the end of a granule, the base *)
(* the start of one, unless it is the base of the memory window.             *)
LEMMA AddressFacts ==
  ASSUME TypeOK, NEW b \in Registers, NEW l \in Registers
  PROVE  /\ BaseAddress(b) \in Nat
         /\ LimitAddress(l) \in Nat /\ LimitAddress(l) < Scale[window] * Steps[window]
         /\ Granule \in Nat \ {0}
         /\ \E m \in 0..Steps[window] - 1 : LimitAddress(l) = m * Granule + (Granule - 1)
         /\ window # "memory" => AtGranule(BaseAddress(b))
<1> DEFINE u == Scale[window]
           t == Steps[window]
           e == Low
           m == l \div Low
           n == b \div Low
<1>1. /\ u \in Nat \ {0} /\ t \in Nat \ {0} /\ e \in Nat \ {0} /\ t % e = 0
      /\ b \in 0..t - 1 /\ l \in 0..t - 1
  BY WindowTypes DEF Registers
<1>2. /\ Masked(b) = e * n /\ Masked(l) = e * m /\ Granule = e * u
      /\ LimitAddress(l) = Masked(l) * u + (Granule - 1)
      /\ BaseAddress(b) = (IF window = "memory" THEN b ELSE Masked(b)) * u
  BY DEF Masked, Granule, LimitAddress, BaseAddress
<1>3. /\ m \in Nat /\ e * m \in Nat /\ e * m <= l
      /\ n \in Nat /\ e * n \in Nat /\ e * n <= b
  BY <1>1, DigitsOf
<1>4. e * m + e <= t
  BY <1>1, GranuleBelow
<1> HIDE DEF u, t, e, m, n
<1>5. m < t /\ n < t
  <2>1. m <= e * m /\ n <= e * n
    BY <1>1, <1>3
  <2> QED
    BY <1>1, <1>3, <2>1
<1>6. /\ Granule \in Nat \ {0} /\ LimitAddress(l) \in Nat /\ LimitAddress(l) < u * t
  BY <1>1, <1>2, <1>3, <1>4, ScaledBelow
<1>7. BaseAddress(b) \in Nat
  <2>1. b * u \in Nat /\ (e * n) * u \in Nat
    BY <1>1, <1>3
  <2> QED
    BY <1>2, <2>1
<1>8. (e * m) * u = m * (e * u) /\ (e * n) * u = n * (e * u)
  BY <1>1, <1>3
<1>9. m \in 0..t - 1 /\ LimitAddress(l) = m * Granule + (Granule - 1)
  BY <1>1, <1>2, <1>3, <1>5, <1>8
<1>10. window # "memory" => n \in 0..t /\ BaseAddress(b) = n * Granule
  BY <1>1, <1>2, <1>3, <1>5, <1>8
<1> QED
  BY <1>6, <1>7, <1>9, <1>10 DEF AtGranule, u, t

(* The header of any pair of registers has its type.                         *)
LEMMA DecodedTypes ==
  ASSUME TypeOK, NEW b \in Registers, NEW l \in Registers
  PROVE  /\ Decoded(b, l) \in [base : Nat, limit : Nat, enabled : BOOLEAN]
         /\ Decoded(b, l).limit < Scale[window] * Steps[window]
<1>1. BaseAddress(b) \in Nat /\ LimitAddress(l) \in Nat
      /\ LimitAddress(l) < Scale[window] * Steps[window]
  BY AddressFacts
<1>2. (BaseAddress(b) <= LimitAddress(l)) \in BOOLEAN
  BY <1>1
<1> QED
  BY <1>1, <1>2 DEF Decoded

(* What a header that was read says of the size, if the window is on.        *)
LEMMA HeaderSize ==
  ASSUME TypeOK, HeaderRead, header.enabled
  PROVE  /\ Size \in Nat
         /\ \/ header.base + Size = header.limit + 1
            \/ header.base = 0 /\ header.limit + 1 = Width[format][window] /\ Size = 0
         /\ Overflows => header.base = 0 /\ header.limit + 1 = Width[format][window]
<1> DEFINE w == Width[format][window]
           first == header.base
           last == header.limit
<1>1. PICK b, l \in Registers : header = Decoded(b, l)
  BY DEF HeaderRead
<1>2. first \in Nat /\ last \in Nat /\ first <= last
  <2>1. first = BaseAddress(b) /\ last = LimitAddress(l) /\ first <= last
    BY <1>1 DEF Decoded
  <2> QED
    BY <2>1, AddressFacts
<1>3. w \in Nat /\ last < w
  <2>1. w \in Nat /\ Scale[window] * Steps[window] <= w /\ Scale[window] * Steps[window] \in Nat
    BY WindowTypes
  <2>2. last < Scale[window] * Steps[window]
    BY DEF TypeOK
  <2> QED
    BY <1>2, <2>1, <2>2
<1>4. Size = (last - first + 1) % w
  BY DEF Size, Span
<1>5. Overflows <=> (last < first \/ last - first + 1 >= w)
  BY DEF Overflows, Span
<1> HIDE DEF w, first, last
<1>6. /\ Size \in Nat
      /\ first + Size = last + 1 \/ (first = 0 /\ last + 1 = w /\ Size = 0)
      /\ last - first + 1 >= w => first = 0 /\ last + 1 = w
  BY <1>2, <1>3, <1>4, SpanWraps
<1>7. ~(last < first)
  BY <1>2
<1> QED
  BY <1>5, <1>6, <1>7 DEF w, first, last

(* A window that is on and starts at a granule covers whole granules; only   *)
(* the memory window can start elsewhere.                                    *)
LEMMA HeaderGranules ==
  ASSUME TypeOK, HeaderRead, header.enabled
  PROVE  /\ window # "memory" => AtGranule(header.base)
         /\ AtGranule(header.base) => AtGranule(header.limit + 1 - header.base)
<1>1. PICK b, l \in Registers : header = Decoded(b, l)
  BY DEF HeaderRead
<1>2. header.base = BaseAddress(b) /\ header.limit = LimitAddress(l) /\ header.base <= header.limit
  BY <1>1 DEF Decoded
<1>3. Granule \in Nat \ {0} /\ (window # "memory" => AtGranule(header.base))
  BY <1>2, AddressFacts
<1>4. PICK m \in 0..Steps[window] - 1 : header.limit = m * Granule + (Granule - 1)
  BY <1>2, AddressFacts
<1>5. ASSUME AtGranule(header.base)
      PROVE  AtGranule(header.limit + 1 - header.base)
  <2>1. PICK n \in 0..Steps[window] : header.base = n * Granule
    BY <1>5 DEF AtGranule
  <2>2. Steps[window] \in Nat
    BY WindowTypes
  <2>3. n \in Nat /\ m \in Nat /\ 1..(m + 1) \subseteq 0..Steps[window]
    BY <2>2
  <2>4. \E c \in 1..(m + 1) : m * Granule + (Granule - 1) + 1 - n * Granule = c * Granule
    BY <1>2, <1>3, <1>4, <2>1, <2>3, GranulesBetween
  <2> QED
    BY <1>4, <2>1, <2>3, <2>4 DEF AtGranule
<1> QED
  BY <1>3, <1>5

-----------------------------------------------------------------------------
(* The inductive invariant holds.                                            *)

(* At first nothing has been read or printed.                                *)
LEMMA InitIInv ==
  ASSUME Init
  PROVE  IInv
<1>1. /\ window \in Windows
      /\ base \in 0..Steps[window] - 1 /\ limit \in 0..Steps[window] - 1
      /\ header = NoHeader /\ format \in {"text", "json"} /\ printed = Nothing
      /\ build \in Builds /\ pc = "read"
  BY DEF Init
<1>2. Scale[window] \in Nat \ {0} /\ Steps[window] \in Nat \ {0}
  BY <1>1, WidthAssumption
<1>3. 0 < Scale[window] * Steps[window]
  BY <1>2
<1>4. header \in [base : Nat, limit : Nat, enabled : BOOLEAN] /\ header.limit = 0
  BY <1>1 DEF NoHeader
<1>5. printed \in [count : Nat, unit : {0, 1, Kilo, Mega}]
  BY <1>1 DEF Nothing
<1>6. TypeOK
  BY <1>1, <1>3, <1>4, <1>5 DEF TypeOK
<1> QED
  BY <1>1, <1>6 DEF IInv

(* The firmware changes a register, which no later step of the program reads. *)
LEMMA WriteStep ==
  ASSUME IInv, WriteBase \/ WriteLimit
  PROVE  IInv'
<1>1. UNCHANGED <<window, header, format, printed, build, pc>>
  BY DEF WriteBase, WriteLimit
<1>2. base' \in 0..Steps[window] - 1 /\ limit' \in 0..Steps[window] - 1
  BY DEF WriteBase, WriteLimit, IInv, TypeOK
<1>3. TypeOK'
  BY <1>1, <1>2 DEF IInv, TypeOK
<1>4. HeaderRead' <=> HeaderRead
  BY <1>1 DEF HeaderRead, Registers, Decoded, BaseAddress, LimitAddress, Granule, Masked
<1>5. Size' = Size /\ (Overflows' <=> Overflows)
  BY <1>1 DEF Size, Span, Overflows
<1> QED
  BY <1>1, <1>3, <1>4, <1>5 DEF IInv

(* The registers are decoded into the header.                                *)
LEMMA ReadStep ==
  ASSUME IInv, ReadHeader
  PROVE  IInv'
<1>1. /\ header' = Decoded(base, limit) /\ pc' = "render"
      /\ UNCHANGED <<window, base, limit, format, printed, build>>
  BY DEF ReadHeader, Decoded
<1>2. TypeOK /\ base \in Registers /\ limit \in Registers
  BY DEF IInv, TypeOK, Registers
<1>3. /\ header' \in [base : Nat, limit : Nat, enabled : BOOLEAN]
      /\ header'.limit < Scale[window] * Steps[window]
  BY <1>1, <1>2, DecodedTypes
<1>4. TypeOK'
  BY <1>1, <1>2, <1>3 DEF TypeOK
<1>5. HeaderRead'
  BY <1>1, <1>2 DEF HeaderRead, Registers, Decoded, BaseAddress, LimitAddress, Granule, Masked
<1> QED
  BY <1>1, <1>4, <1>5 DEF IInv

(* What was printed, or the panic, follows from the header.                  *)
LEMMA RenderStep ==
  ASSUME IInv, Render \/ RenderPanics
  PROVE  IInv'
<1>1. /\ UNCHANGED <<window, base, limit, header, format, build>>
      /\ TypeOK /\ HeaderRead
  BY DEF Render, RenderPanics, IInv
<1>2. HeaderRead' <=> HeaderRead
  BY <1>1 DEF HeaderRead, Registers, Decoded, BaseAddress, LimitAddress, Granule, Masked
<1>3. Size' = Size /\ (Overflows' <=> Overflows) /\ header'.enabled = header.enabled
  BY <1>1 DEF Size, Span, Overflows
<1>4. CASE Render
  <2>1. /\ printed' = IF header.enabled THEN RenderWindowSize(Size) ELSE Disabled
        /\ pc' = "done"
    BY <1>4 DEF Render
  <2>2. printed' \in [count : Nat, unit : {0, 1, Kilo, Mega}]
    <3>1. CASE header.enabled
      BY <1>1, <2>1, <3>1, HeaderSize, UnitsAreExact
    <3>2. CASE ~header.enabled
      BY <2>1, <3>2 DEF Disabled
    <3> QED
      BY <3>1, <3>2
  <2>3. TypeOK'
    BY <1>1, <2>1, <2>2 DEF TypeOK
  <2>4. printed' = IF header'.enabled THEN RenderWindowSize(Size') ELSE Disabled
    BY <1>3, <2>1
  <2>5. (printed = IF header.enabled THEN RenderWindowSize(Size) ELSE Disabled)'
    BY <2>4 DEF RenderWindowSize, Disabled
  <2> QED
    BY <1>1, <1>2, <2>1, <2>3, <2>5 DEF IInv
<1>5. CASE RenderPanics
  <2>1. Overflows /\ header.enabled /\ pc' = "panicked" /\ printed' = printed
    BY <1>5 DEF RenderPanics
  <2>2. TypeOK'
    BY <1>1, <2>1 DEF TypeOK
  <2> QED
    BY <1>1, <1>2, <1>3, <2>1, <2>2 DEF IInv
<1> QED
  BY <1>4, <1>5

(* The types, a header read from the registers, and an outcome that follows  *)
(* from it hold in every reachable state.                                    *)
THEOREM Invariant == Spec => []IInv
<1>1. Init => IInv
  BY InitIInv
<1>2. IInv /\ [Next]_vars => IInv'
  <2> SUFFICES ASSUME IInv, [Next]_vars
               PROVE  IInv'
    OBVIOUS
  <2>1. CASE WriteBase \/ WriteLimit
    BY <2>1, WriteStep
  <2>2. CASE ReadHeader
    BY <2>2, ReadStep
  <2>3. CASE Render \/ RenderPanics
    BY <2>3, RenderStep
  <2>4. CASE UNCHANGED vars
    <3>1. UNCHANGED <<window, base, limit, header, format, printed, build, pc>>
      BY <2>4 DEF vars
    <3>2. HeaderRead' <=> HeaderRead
      BY <3>1 DEF HeaderRead, Registers, Decoded, BaseAddress, LimitAddress, Granule, Masked
    <3>3. Size' = Size /\ (Overflows' <=> Overflows) /\ (TypeOK' <=> TypeOK)
      BY <3>1 DEF Size, Span, Overflows, TypeOK
    <3> QED
      BY <3>1, <3>2, <3>3 DEF IInv
  <2> QED
    BY <2>1, <2>2, <2>3, <2>4 DEF Next
<1> QED
  BY <1>1, <1>2, PTL DEF Spec

(* The text and the JSON print the number of addresses from the base to the  *)
(* limit of a window, with no unit that rounds it, whatever the registers    *)
(* hold; the one exception is a window as large as the renderer's integer.   *)
THEOREM SizeAlwaysExact == Spec => []SizeIsExact
<1>1. IInv => SizeIsExact
  <2> SUFFICES ASSUME IInv, pc = "done"
               PROVE  LET size == printed.count * printed.unit
                      IN \/ header.limit < header.base /\ printed = Disabled
                         \/ /\ header.base + size = header.limit + 1
                            /\ AtGranule(header.base) => AtGranule(size)
                            /\ window # "memory" => AtGranule(header.base)
                         \/ /\ header.base = 0 /\ header.limit + 1 = Width[format][window]
                            /\ printed.count = 0
    BY DEF SizeIsExact, IInv
  <2>1. /\ TypeOK /\ HeaderRead
        /\ printed = IF header.enabled THEN RenderWindowSize(Size) ELSE Disabled
        /\ header.base \in Nat /\ header.limit \in Nat
    BY DEF IInv, TypeOK
  <2>2. CASE header.enabled
    <3>1. Size \in Nat
      BY <2>1, <2>2, HeaderSize
    <3>2. printed.count * printed.unit = Size /\ (Size = 0 => printed.count = 0)
      BY <2>1, <2>2, <3>1, UnitsAreExact
    <3>3. \/ header.base + Size = header.limit + 1
          \/ header.base = 0 /\ header.limit + 1 = Width[format][window] /\ Size = 0
      BY <2>1, <2>2, HeaderSize
    <3>4. header.base + Size = header.limit + 1 => header.limit + 1 - header.base = Size
      BY <2>1, <3>1
    <3>5. /\ window # "memory" => AtGranule(header.base)
          /\ AtGranule(header.base) => AtGranule(header.limit + 1 - header.base)
      BY <2>1, <2>2, HeaderGranules
    <3> QED
      BY <3>2, <3>3, <3>4, <3>5
  <2>3. CASE ~header.enabled
    <3>1. PICK b, l \in Registers : header = Decoded(b, l)
      BY <2>1 DEF HeaderRead
    <3>2. ~(header.base <= header.limit)
      BY <2>3, <3>1 DEF Decoded
    <3> QED
      BY <2>1, <2>3, <3>2
  <2> QED
    BY <2>2, <2>3
<1> QED
  BY <1>1, Invariant, PTL

(* Only the window that fills the renderer's integer makes it panic, and the *)
(* JSON renderer does for a prefetchable window at most.                     *)
THEOREM PanicsAlwaysFull == Spec => []PanicsOnlyWhenFull
<1>1. IInv => PanicsOnlyWhenFull
  <2> SUFFICES ASSUME IInv, pc = "panicked"
               PROVE  /\ header.base = 0 /\ header.limit + 1 = Width[format][window]
                      /\ format = "json" => window = "prefetchable"
    BY DEF PanicsOnlyWhenFull
  <2>1. TypeOK /\ HeaderRead /\ Overflows /\ header.enabled
    BY DEF IInv
  <2>2. header.base = 0 /\ header.limit + 1 = Width[format][window]
    BY <2>1, HeaderSize
  <2>3. ASSUME format = "json", window # "prefetchable"
        PROVE  FALSE
    <3>1. window \in Windows \ {"prefetchable"}
      BY <2>1, <2>3 DEF TypeOK
    <3>2. Scale[window] * Steps[window] < Width["json"][window]
      BY <3>1, JsonAssumption
    <3>3. Width["json"][window] \in Nat /\ Scale[window] * Steps[window] \in Nat
      BY <2>1, <2>3, WindowTypes
    <3>4. header.limit < Scale[window] * Steps[window] /\ header.limit \in Nat
      BY <2>1 DEF TypeOK
    <3> QED
      BY <2>2, <2>3, <3>2, <3>3, <3>4
  <2> QED
    BY <2>2, <2>3
<1> QED
  BY <1>1, Invariant, PTL

=============================================================================
