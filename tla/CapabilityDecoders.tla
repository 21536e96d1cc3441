------------------------- MODULE CapabilityDecoders -------------------------
(***************************************************************************)
(* crates/pci/src/decoders: which bytes each decoder reads.                *)
(*                                                                         *)
(* A decoder is a function of the snapshot: every register it needs is a   *)
(* snapshot.read(..).ok()?, so it returns content iff all the bytes it     *)
(* reads are in the snapshot.  What matters of a decoder is therefore its  *)
(* footprint: offsets relative to the capability, given what the registers *)
(* themselves say.  A capability is abstracted to                          *)
(*   format : the decoder decode_content picks for its kind and id         *)
(*   has    : the register bits that widen the structure                   *)
(*   n      : the length or count the structure declares                   *)
(*   bars   : of SR-IOV, what each of the six VF BAR registers looks like   *)
(***************************************************************************)
EXTENDS Integers

(* The n bytes of a register, or of a payload, from offset o. *)
Reg(o, n) == o..(o + n - 1)

Pm(c)     == Reg(2, 2) \cup Reg(4, 2)
Vpd(c)    == Reg(2, 2) \cup Reg(4, 2)
SlotId(c) == Reg(2, 1) \cup Reg(3, 1)
HotPlug(c) == {}
PciX(c)   == Reg(2, 2) \cup Reg(4, 4)
MsiX(c)   == Reg(2, 2) \cup Reg(4, 4) \cup Reg(8, 4)

(* Message Control says whether the address has 64 bits. *)
Msi(c) == Reg(2, 2) \cup Reg(4, 4) \cup
          IF "64bit" \in c.has THEN Reg(8, 4) \cup Reg(12, 2) ELSE Reg(8, 2)

(* n bytes of payload after the length byte. *)
Vendor(c) == Reg(2, 1) \cup Reg(3, c.n)

(* Slot, root and second-generation registers are read when the flags word  *)
(* says they exist.                                                         *)
Pcie(c) ==
  Reg(2, 2) \cup Reg(4, 4) \cup Reg(8, 4) \cup Reg(12, 4) \cup Reg(16, 4)
  \cup (IF "slot" \in c.has THEN Reg(20, 4) \cup Reg(24, 4) ELSE {})
  \cup (IF "root" \in c.has THEN Reg(28, 2) \cup Reg(32, 4) ELSE {})
  \cup (IF "v2" \in c.has THEN Reg(36, 6) \cup Reg(44, 4) \cup Reg(48, 4) ELSE {})

Dsn(c)   == Reg(4, 8)
Ari(c)   == Reg(4, 2) \cup Reg(6, 2)
Ats(c)   == Reg(4, 2) \cup Reg(6, 2)
Pasid(c) == Reg(4, 2) \cup Reg(6, 2)
Ltr(c)   == Reg(4, 4)
Ptm(c)   == Reg(4, 4) \cup Reg(8, 4)
Pri(c)   == Reg(4, 2) \cup Reg(6, 2) \cup Reg(8, 4) \cup Reg(12, 4)
SecondaryPcie(c) == Reg(4, 4) \cup Reg(8, 4)

(* The egress vector has n bits, in whole bytes. *)
Acs(c) == Reg(4, 2) \cup Reg(6, 2) \cup
          IF "egress" \in c.has THEN Reg(8, (c.n + 7) \div 8) ELSE {}

(* A bridge (header type 1) has the root error group. *)
Aer(c) == Reg(0, 28) \cup Reg(28, 16) \cup
          IF "bridge" \in c.has THEN Reg(44, 12) ELSE {}

(* The six VF BARs are at 0x24, the migration array registers at 0x40. *)
Sriov(c) == Reg(4, 20) \cup Reg(26, 10) \cup Reg(36, 24) \cup Reg(64, 8)

(* Mutant: the upper half of a 64-bit address is looked at again. *)
Mut_TwoRegisters(bars, b) == FALSE

(* A 64-bit BAR takes the next register as well, if there is one.           *)
TwoRegisters(bars, b) == bars[b] = "mem64" /\ b + 1 < 6

(* The BARs decode_sriov makes of the registers, by the register they start *)
(* at: a register is looked at unless the one before has taken it.          *)
VfBars(bars) ==
  LET visited[b \in 0..5] ==
        b = 0 \/ ~(visited[b - 1] /\ TwoRegisters(bars, b - 1))
  IN [b \in {r \in 0..5 : visited[r] /\ bars[r] # "zero"} |->
        [kind |-> IF bars[b] = "io" THEN "Io" ELSE "Memory",
         is_64_bit |-> bars[b] = "mem64",
         registers |-> IF TwoRegisters(bars, b) THEN {b, b + 1} ELSE {b}]]

(* n table entries of a word each when the table is in the structure. *)
Tph(c) == Reg(4, 4) \cup Reg(8, 4) \cup
          IF "stTable" \in c.has THEN Reg(12, 2 * c.n) ELSE {}

Dpc(c) == Reg(4, 8) \cup IF "rpPio" \in c.has THEN Reg(12, 8) ELSE {}

(* n is the low-priority count: n + 1 resources of three dwords. *)
Vc(c) == Reg(4, 8) \cup Reg(16, 4) \cup Reg(20, 12 * (c.n + 1))

(* n is the structure's length; the payload starts after eight bytes. *)
Payload(c) == IF c.n > 8 THEN Reg(8, c.n - 8) ELSE {}
VendorExt(c) == Reg(4, 4) \cup Payload(c)
Dvsec(c)     == Reg(4, 4) \cup Reg(8, 4) \cup Payload(c)

StandardFormats == {"Pm", "Vpd", "SlotId", "Msi", "PciX", "VendorSpecific",
                    "HotPlug", "Pcie", "MsiX"}

ExtendedFormats == {"Dsn", "Acs", "Ari", "Aer", "Sriov", "Tph", "Dpc", "Vc",
                    "SecondaryPcie", "VendorExt", "Dvsec", "Ats", "Pri",
                    "Ltr", "Pasid", "Ptm"}

(* decode_content's dispatch; "Unknown" stands for an id without decoder. *)
Footprint(c) ==
  CASE c.format = "Pm"      -> Pm(c)     [] c.format = "Vpd"    -> Vpd(c)
    [] c.format = "SlotId"  -> SlotId(c) [] c.format = "Msi"    -> Msi(c)
    [] c.format = "PciX"    -> PciX(c)   [] c.format = "VendorSpecific" -> Vendor(c)
    [] c.format = "HotPlug" -> HotPlug(c)
    [] c.format = "Pcie"    -> Pcie(c)   [] c.format = "MsiX"   -> MsiX(c)
    [] c.format = "Dsn"     -> Dsn(c)    [] c.format = "Acs"    -> Acs(c)
    [] c.format = "Ari"     -> Ari(c)    [] c.format = "Aer"    -> Aer(c)
    [] c.format = "Sriov"   -> Sriov(c)  [] c.format = "Tph"    -> Tph(c)
    [] c.format = "Dpc"     -> Dpc(c)    [] c.format = "Vc"     -> Vc(c)
    [] c.format = "SecondaryPcie" -> SecondaryPcie(c)
    [] c.format = "VendorExt"     -> VendorExt(c)
    [] c.format = "Dvsec"   -> Dvsec(c)  [] c.format = "Ats"    -> Ats(c)
    [] c.format = "Pri"     -> Pri(c)    [] c.format = "Ltr"    -> Ltr(c)
    [] c.format = "Pasid"   -> Pasid(c)  [] c.format = "Ptm"    -> Ptm(c)

HasDecoder(c) == c.format # "Unknown"

(* The absolute offsets a decoder reads. *)
Needs(c) == {c.offset + o : o \in Footprint(c)}
=============================================================================
