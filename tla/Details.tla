------------------------------ MODULE Details -------------------------------
(***************************************************************************)
(* PciDeviceDetails: the state of each field of an inspected device        *)
(* (crates/pci/src/session.rs, details_from_raw and the end of inspect;    *)
(* header.rs for the registers).  A field is available, not applicable, or *)
(* unavailable for a reason; an unavailable field is named by its reason.  *)
(* The session builds the record, the renderers of the command line and    *)
(* the terminal browser print it.                                          *)
(***************************************************************************)

(* What pci_fill_info is asked for, and what no inspection does without. *)
AllFields == {"ident", "class", "ext", "subsys", "parent", "irq", "driver",
              "bases", "sizes", "flags"}
RequiredFields == {"ident", "class"}

(* The fields of the details, by where they come from. *)
Needs == [revision  |-> {"ext"},    subsystem |-> {"subsys"},
          parent    |-> {"parent"}, irq       |-> {"irq"},
          driver    |-> {"driver"}, resources |-> {"bases", "sizes", "flags"}]

Registers == {"command", "status", "cache_line_size", "latency_timer",
              "header_type", "bist", "interrupt_line", "interrupt_pin",
              "expansion_rom"}
KindFields == [cardbus_cis_pointer |-> "CardBus", bridge |-> "Bridge"]

Fields == DOMAIN Needs \cup Registers \cup DOMAIN KindFields \cup {"capabilities"}

Reasons == {"Unknown", "NotBound", "ReadError"}
FieldStates == {"Available", "NotApplicable"} \cup Reasons

(* details_from_raw: a field libpci did not fill is unavailable, one filled
   with nothing (no parent, irq -1, no driver, no BAR) has a state of its own. *)
LibpciField(f, filled, gaps) ==
  CASE ~ (Needs[f] \subseteq filled) -> "Unknown"
    [] f \in gaps -> IF f = "driver" THEN "NotBound" ELSE "NotApplicable"
    [] OTHER -> "Available"

(* The registers are decoded from the snapshot if the header was readable. *)
RegisterField(readable) == IF readable THEN "Available" ELSE "ReadError"

(* The field of one kind of header is NotApplicable until that kind is seen. *)
KindField(f, readable, kind) ==
  IF readable /\ kind = KindFields[f] THEN "Available" ELSE "NotApplicable"

(* capabilities_from_report: "capabilities" is in gaps if the device has
   neither list. *)
CapabilitiesField(readable, gaps) ==
  CASE ~ readable -> "ReadError"
    [] "capabilities" \in gaps -> "NotApplicable"
    [] OTHER -> "Available"

Details(filled, gaps, readable, kind) ==
  [f \in Fields |->
     CASE f \in DOMAIN Needs -> LibpciField(f, filled, gaps)
       [] f \in Registers -> RegisterField(readable)
       [] f \in DOMAIN KindFields -> KindField(f, readable, kind)
       [] OTHER -> CapabilitiesField(readable, gaps)]
=============================================================================
