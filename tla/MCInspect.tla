----------------------------- MODULE MCInspect ------------------------------
(* One device per format and shape of interest, alone in its space or next   *)
(* to another capability, and one per way a chain can be malformed.  The     *)
(* deaf sets are what a device, a backend or a missing permission leaves     *)
(* out: nothing, everything, all past the header, the extended space, one    *)
(* aligned block, two lone bytes.                                            *)
EXTENDS Inspect

NoBars == [b \in 0..5 |-> "zero"]
Cap(o, format, has, n) ==
  [offset |-> o, next |-> 0, format |-> format, has |-> has, n |-> n, bars |-> NoBars]
Plain(o, formats) == {Cap(o, f, {}, 0) : f \in formats}

(* The capabilities of a sequence, each pointing at the one behind it, the   *)
(* last one at end.                                                          *)
Chain(s, end) ==
  [o \in {s[j].offset : j \in DOMAIN s} |->
     LET j == CHOOSE k \in DOMAIN s : s[k].offset = o
     IN [s[j] EXCEPT !.next = IF j < Len(s) THEN s[j + 1].offset ELSE end]]

(* A device whose chains lie there as announced.                             *)
Device(s, e) ==
  [list |-> s # << >>, pointer |-> IF s = << >> THEN 0 ELSE s[1].offset,
   standard |-> Chain(s, 0), extended |-> Chain(e, 0)]

StandardCaps(o) ==
  Plain(o, {"Pm", "Vpd", "SlotId", "PciX", "HotPlug", "MsiX", "Msi", "Unknown"})
  \cup {Cap(o, "Msi", {"64bit"}, 0),
        Cap(o, "Pcie", {}, 0), Cap(o, "Pcie", {"slot", "root", "v2"}, 0)}
  \cup {Cap(o, "VendorSpecific", {}, n) : n \in {0, 20, 61, 62, 125, 126, 200}}

ExtendedCaps(o) ==
  Plain(o, {"Dsn", "Ari", "Ats", "Pasid", "Ltr", "Ptm", "Pri", "SecondaryPcie",
            "Aer", "Acs", "Dpc", "Tph", "Sriov"})
  \cup {Cap(o, "Aer", {"bridge"}, 0), Cap(o, "Acs", {"egress"}, 255),
        Cap(o, "Dpc", {"rpPio"}, 0), Cap(o, "Tph", {"stTable"}, 64),
        Cap(o, "Vc", {}, 0), Cap(o, "Vc", {}, 6),
        Cap(o, "VendorExt", {}, 16), Cap(o, "Dvsec", {}, 100)}

(* Three registers of any look behind none, one or two 64-bit BARs.          *)
SriovCaps(o) ==
  {[Cap(o, "Sriov", {}, 0) EXCEPT !.bars = [b \in 0..5 |->
      IF b < 3 THEN front[b + 1] ELSE back[b]]] :
     front \in {<<"zero", "zero", "zero">>, <<"mem32", "mem64", "mem64">>,
                <<"mem64", "io", "mem64">>},
     back \in [3..5 -> {"zero", "io", "mem64"}]}

(* Announced lists that start nowhere, a register that points at a list no   *)
(* bit announces, chains whose last pointer leads back, astray or to a zero  *)
(* header, and as many nodes as the standard space holds, pointing on.       *)
PmMsix == <<Cap(64, "Pm", {}, 0), Cap(80, "MsiX", {}, 0)>>
AerDsn == <<Cap(256, "Aer", {}, 0), Cap(328, "Dsn", {}, 0)>>
Row    == [j \in 1..48 |-> Cap(60 + 4 * j, "Unknown", {}, 0)]

MalformedDevices ==
  {[Device(<< >>, e) EXCEPT !.list = TRUE, !.pointer = p] :
     e \in {<< >>, AerDsn}, p \in {0, 32, 66, 64}}
  \cup {[Device(PmMsix, << >>) EXCEPT !.list = FALSE]}
  \cup {[Device(PmMsix, << >>) EXCEPT !.standard = Chain(PmMsix, p)] : p \in {64, 80, 20, 70, 200}}
  \cup {[Device(<< >>, AerDsn) EXCEPT !.extended = Chain(AerDsn, p)] : p \in {256, 64, 330, 512}}
  \cup {[Device(Row, << >>) EXCEPT !.standard = Chain(Row, p)] : p \in {0, 64}}

MCDevices ==
  {Device(s, e) :
     s \in {<< >>, <<Cap(64, "Pm", {}, 0)>>}, e \in {<< >>, <<Cap(256, "Dsn", {}, 0)>>}}
  \cup {Device(<<c>>, << >>) :
          c \in StandardCaps(64) \cup StandardCaps(128) \cup StandardCaps(236)}
  \cup {Device(<<c, Cap(200, "MsiX", {}, 0)>>, << >>) : c \in StandardCaps(72)}
  \cup {Device(<< >>, <<c>>) : c \in ExtendedCaps(256) \cup SriovCaps(256)}
  \cup {Device(<< >>, <<Cap(256, "Aer", {}, 0), c>>) :
          c \in ExtendedCaps(328) \cup ExtendedCaps(4000)}
  \cup MalformedDevices

MCDeafSets == {{}, 0..4095, 64..4095, 256..4095, 80..95, {38}, {300}, {330}}
=============================================================================
