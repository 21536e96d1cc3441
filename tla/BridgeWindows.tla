---------------------------- MODULE BridgeWindows ---------------------------
(***************************************************************************)
(* The forwarding windows of a PCI-PCI bridge: the registers that hold     *)
(* one, bridge_header_field (crates/pci/src/header.rs), which decodes      *)
(* them, and the text and JSON renderers of crates/lspci-rs/src/output.rs, *)
(* which print its size.                                                   *)
(*                                                                         *)
(* A register r holds the high bits of an address, scaled by Scale, with   *)
(* the upper halves of the I/O and prefetchable registers as its upper     *)
(* digits.  Its last hexadecimal digit is none of the address: it tells    *)
(* how wide the window's addresses are, or is reserved.  The firmware      *)
(* writes base and limit one after the other, so the program can read any  *)
(* pair.                                                                   *)
(***************************************************************************)
EXTENDS Integers

CONSTANTS
  Windows,      \* "io", "memory", "prefetchable"
  Scale,        \* window -> what the code shifts a register by: 2^8, 2^16, 2^16
  Steps,        \* window -> values of a register: 2^24, 2^16, 2^48
  Low,          \* values of a register's last digit: 16
  Width,        \* format, window -> addresses its integer counts: text 2^32,
                \* 2^32, 2^64, json 2^64
  Kilo, Mega,   \* the units of render_window_size: 0x400 and 0x10_0000
  Builds        \* subset of {"dev", "release"}: dev checks for overflow

ASSUME WidthAssumption ==
  /\ \A w \in Windows :
       /\ Scale[w] \in Nat \ {0} /\ Steps[w] \in Nat \ {0}
       /\ Steps[w] % Low = 0
       /\ \A f \in {"text", "json"} : /\ Width[f][w] \in Nat
                                      /\ Scale[w] * Steps[w] <= Width[f][w]
  /\ Low \in Nat \ {0}
  /\ Kilo \in Nat \ {0} /\ Mega \in Nat \ {0}

(* The JSON renderer counts every window in 64 bits, and the registers of    *)
(* the I/O and of the memory window hold 32.                                 *)
ASSUME JsonAssumption ==
  \A w \in Windows \ {"prefetchable"} : Scale[w] * Steps[w] < Width["json"][w]

VARIABLES
  window,        \* the window looked at
  base, limit,   \* external: its registers
  header,        \* its part of PciBridgeHeader: [base, limit, enabled]
  format,        \* what the program prints: "text" or "json"
  printed,       \* the size in it: [count, unit], Disabled, or Nothing yet
  build,
  pc

vars == <<window, base, limit, header, format, printed, build, pc>>

Nothing == [count |-> 0, unit |-> 0]
Disabled == [count |-> 0, unit |-> 1]
NoHeader == [base |-> 0, limit |-> 0, enabled |-> FALSE]

-----------------------------------------------------------------------------

Init ==
  /\ window \in Windows
  /\ base \in 0..Steps[window] - 1 /\ limit \in 0..Steps[window] - 1
  /\ header = NoHeader
  /\ format \in {"text", "json"}
  /\ printed = Nothing
  /\ build \in Builds
  /\ pc = "read"

(* External: the firmware or the kernel assigns the window. *)
WriteBase ==
  /\ base' \in 0..Steps[window] - 1
  /\ UNCHANGED <<window, limit, header, format, printed, build, pc>>

WriteLimit ==
  /\ limit' \in 0..Steps[window] - 1
  /\ UNCHANGED <<window, base, header, format, printed, build, pc>>

Granule == Low * Scale[window]

Masked(r) == Low * (r \div Low)

(* Mutant: the last digit is taken for a part of every address. *)
Mut_BaseUnmasked(r) == r * Scale[window]

(* bridge_header_field masks the base of the memory window not. *)
BaseAddress(r) == (IF window = "memory" THEN r ELSE Masked(r)) * Scale[window]

(* The last address of the granule. *)
LimitAddress(r) == Masked(r) * Scale[window] + (Granule - 1)

(* Mutant: the heuristic the code once had, a window is on unless its
   registers are zero. *)
Mut_NonzeroIsOn ==
  /\ pc = "read"
  /\ header' = [base    |-> BaseAddress(base),
                limit   |-> LimitAddress(limit),
                enabled |-> base # 0 \/ limit # 0]
  /\ pc' = "render"
  /\ UNCHANGED <<window, base, limit, format, printed, build>>

ReadHeader ==
  /\ pc = "read"
  /\ header' = [base    |-> BaseAddress(base),
                limit   |-> LimitAddress(limit),
                enabled |-> BaseAddress(base) <= LimitAddress(limit)]
  /\ pc' = "render"
  /\ UNCHANGED <<window, base, limit, format, printed, build>>

(* Mutant: the largest unit that fits, whatever it leaves over. *)
Mut_LargestUnit(size) ==
  LET unit == IF size >= Mega THEN Mega ELSE IF size >= Kilo THEN Kilo ELSE 1
  IN  [count |-> size \div unit, unit |-> unit]

RenderWindowSize(size) ==
  LET unit == IF size >= Mega /\ size % Mega = 0 THEN Mega
              ELSE IF size >= Kilo /\ size % Kilo = 0 THEN Kilo ELSE 1
  IN  [count |-> size \div unit, unit |-> unit]

(* limit - base + 1, in the unsigned integers of the renderer. *)
Span == header.limit - header.base + 1
Overflows == header.limit < header.base \/ Span >= Width[format][window]
Size == Span % Width[format][window]

Render ==
  /\ pc = "render" /\ (Overflows /\ header.enabled => build = "release")
  /\ printed' = IF header.enabled THEN RenderWindowSize(Size) ELSE Disabled
  /\ pc' = "done"
  /\ UNCHANGED <<window, base, limit, header, format, build>>

(* The addition panics where overflow checks are on. *)
RenderPanics ==
  /\ pc = "render" /\ Overflows /\ header.enabled /\ build = "dev"
  /\ pc' = "panicked"
  /\ UNCHANGED <<window, base, limit, header, format, printed, build>>

Next == WriteBase \/ WriteLimit \/ ReadHeader \/ Render \/ RenderPanics

Spec == Init /\ [][Next]_vars

-----------------------------------------------------------------------------

(* The variables have the types their comments give them. *)
TypeOK ==
  /\ window \in Windows
  /\ base \in 0..Steps[window] - 1 /\ limit \in 0..Steps[window] - 1
  /\ header \in [base : Nat, limit : Nat, enabled : BOOLEAN]
  /\ header.limit < Scale[window] * Steps[window]
  /\ printed \in [count : Nat, unit : {0, 1, Kilo, Mega}]
  /\ format \in {"text", "json"} /\ build \in Builds
  /\ pc \in {"read", "render", "done", "panicked"}

(* The size printed is the number of addresses from the base to the limit
   of the window, and no unit rounds it; the one exception is a window as
   large as the renderer's integer, whose size comes out as zero.  It is a
   number of whole granules wherever the base is, and in the I/O and the
   prefetchable window the base always is.  A base above its limit, as
   firmware leaves a window it turned off, is printed without a size.
   (With the types of the variables.) *)
AtGranule(a) == \E n \in 0..Steps[window] : a = n * Granule

SizeIsExact ==
  /\ TypeOK
  /\ pc = "done" =>
       LET size == printed.count * printed.unit
       IN \/ header.limit < header.base /\ printed = Disabled
          \/ /\ header.base + size = header.limit + 1
             /\ AtGranule(header.base) => AtGranule(size)
             /\ window # "memory" => AtGranule(header.base)
          \/ header.base = 0 /\ header.limit + 1 = Width[format][window] /\ printed.count = 0

(* Only a window that fills the renderer's integer makes it panic, and in
   JSON no 32-bit window does. *)
PanicsOnlyWhenFull ==
  pc = "panicked" =>
    /\ header.base = 0 /\ header.limit + 1 = Width[format][window]
    /\ format = "json" => window = "prefetchable"

-----------------------------------------------------------------------------
(* What the documents say and the code does not do.                        *)

(* docs/superpowers/specs/2026-08-10-header-remaining-fields-design.md:72-73:
   the size printed is limit - base + 1, and a window that is not configured,
   base above limit or all zero, is printed as disabled.  (All zero: so its
   registers were read, and so they still are.) *)
AllZero ==
  /\ base = 0 /\ limit = 0
  /\ header.base = BaseAddress(0) /\ header.limit = LimitAddress(0)

WindowsAsDesigned ==
  pc = "done" =>
    IF header.limit < header.base \/ AllZero THEN printed = Disabled
    ELSE printed.count * printed.unit = Span

=============================================================================
