------------------------------ MODULE Inspect -------------------------------
(***************************************************************************)
(* crates/pci/src/session.rs: PciSession::inspect, from the first read of  *)
(* the header to the capability field of the report, with the real offsets *)
(* of the configuration space.                                             *)
(*                                                                         *)
(* The inspection composes the reader (ConfigReader), the chain walks      *)
(* (CapabilityWalk) and the decoders (CapabilityDecoders).  All its steps  *)
(* share one reader: a byte is cached by whichever step fetches it first,  *)
(* and the decoders see only what the steps before them have fetched.      *)
(* Between two steps the device may stop answering for some offsets, or    *)
(* start to (it sleeps, wakes up or goes away).                            *)
(***************************************************************************)
EXTENDS CapabilityDecoders, Sequences, FiniteSetsExt

CONSTANTS
  Devices,    \* the devices inspected, see DevicesAssumption
  DeafSets,   \* the sets of offsets a device may not answer for
  MaxFlips    \* bound: how often a device changes what it answers for

VARIABLES
  device,     \* external: the device under inspection
  deaf,       \* external: the offsets it does not answer for now
  flips,      \* number of changes of deaf so far
  stage,      \* the step of inspect that is next
  i,          \* the capability that step handles, after the walks
  cached,     \* offsets held by the reader's snapshot
  headerReadable,
  report,     \* kind -> [list, status], the list of capabilities discovered
  content,    \* kind -> indices of the capabilities with decoded content
  field       \* the capability field of the report

vars == <<device, deaf, flips, stage, i, cached, headerReadable, report,
          content, field>>

MinReadBlock == 16
Kind     == {"standard", "extended"}
First(k) == IF k = "standard" THEN 64 ELSE 256
Limit(k) == IF k = "standard" THEN 256 ELSE 4096
MaxNodes(k) == IF k = "standard" THEN 48 ELSE 256

InRange(k, p) == First(k) <= p /\ p < Limit(k)
Aligned(p)    == p % 4 = 0

(* What a capability of chain k can be: it lies on a dword of the chain's     *)
(* space, its pointer (0 for none) has a byte or twelve bits, the decoder     *)
(* follows from kind and id, and what VendorSpecific and Acs declare is one   *)
(* byte.                                                                      *)
Slots(k) == {o \in First(k)..(Limit(k) - 1) : Aligned(o)}

Capabilities(k) ==
  {c \in [offset : Slots(k),
          next   : 0..(Limit(k) - 1),
          format : {"Unknown"} \cup
                   IF k = "standard" THEN StandardFormats ELSE ExtendedFormats,
          has    : SUBSET {"64bit", "slot", "root", "v2", "egress", "bridge",
                           "stTable", "rpPio"},
          n      : Nat,
          bars   : [0..5 -> {"zero", "io", "mem32", "mem64"}]] :
     c.format \in {"VendorSpecific", "Acs"} => c.n <= 255}

(* Of a device: the capability-list bit of its status register, the byte at   *)
(* 0x34, and, by offset, the capabilities of either space.  Elsewhere in its  *)
(* spaces a header is all zero.                                               *)
IsDevice(d) ==
  /\ d.list \in BOOLEAN /\ d.pointer \in 0..255
  /\ \A k \in Kind :
       /\ DOMAIN d[k] \subseteq Slots(k)
       /\ \A o \in DOMAIN d[k] : d[k][o] \in Capabilities(k) /\ d[k][o].offset = o

ASSUME DevicesAssumption == \A d \in Devices : IsDevice(d)

ASSUME BoundsAssumption == MaxFlips \in Nat

HeaderLength(k) == IF k = "standard" THEN 2 ELSE 4

(* Mutant: the windows are half as long. *)
Mut_WindowHalf(k) == IF k = "standard" THEN 32 ELSE 48

(* The part of a capability that inspect fetches for its decoder. *)
WindowLength(k) == IF k = "standard" THEN 64 ELSE 96
WindowEnd(k, c) == Min({c.offset + WindowLength(k), Limit(k)})

-----------------------------------------------------------------------------
(* The reader, as ConfigReader describes it: a range is read gap by gap, and *)
(* a block the device refuses is halved down to MinReadBlock.                *)

ReadRange(o, n) ==
  LET read[r \in Nat \X (0..n)] ==
        LET left == r[2] \div 2
        IN IF Reg(r[1], r[2]) \cap deaf = {} THEN Reg(r[1], r[2])
           ELSE IF r[2] <= MinReadBlock THEN {}
           ELSE read[<<r[1], left>>] \cup read[<<r[1] + left, r[2] - left>>]
  IN read[<<o, n>>]

(* The snapshot after fetch(o, n). *)
Fetched(o, n) ==
  LET span  == Reg(o, n) \ cached
      first == {b \in span : b - 1 \notin span}
      gapEnd(b) == Min({e \in (b + 1)..(o + n) : e \notin span})
  IN cached \cup UNION {ReadRange(b, gapEnd(b) - b) : b \in first}

-----------------------------------------------------------------------------

Init ==
  /\ device \in Devices
  /\ deaf \in DeafSets
  /\ flips = 0
  /\ stage = "header" /\ i = 1
  /\ cached = {} /\ headerReadable = FALSE
  /\ report = [k \in Kind |-> [list |-> << >>, status |-> "Pending"]]
  /\ content = [k \in Kind |-> {}]
  /\ field = "Pending"

(* External: the device changes what it answers for. *)
DeviceFlips ==
  /\ flips < MaxFlips /\ stage # "done"
  /\ flips' = flips + 1
  /\ deaf' \in DeafSets \ {deaf}
  /\ UNCHANGED <<device, stage, i, cached, headerReadable, report, content, field>>

ReadHeader ==
  /\ stage = "header"
  /\ cached' = Fetched(0, 64)
  /\ headerReadable' = (Reg(0, 64) \subseteq cached')
  /\ stage' = "startStandard"
  /\ UNCHANGED <<device, deaf, flips, i, report, content, field>>

(* A chain's discovery has come to list and status.  Until its status is     *)
(* known the walk goes on; then the other chain, or the first loop, follows. *)
Discovers(k, list, status) ==
  /\ report' = [report EXCEPT ![k] = [list |-> list, status |-> status]]
  /\ stage' = IF status = "Pending" THEN k
              ELSE IF k = "standard" THEN "extended" ELSE "fetchStandard"

(* What a pointer p makes of a chain: none gives the status zero.            *)
PointerStatus(k, p, zero) ==
  IF p = 0 THEN zero
  ELSE IF ~InRange(k, p) THEN "OffsetOutOfRange"
  ELSE IF ~Aligned(p) THEN "MisalignedOffset"
  ELSE "Pending"

(* discover_standard asks for the header again: what is cached is not read   *)
(* twice, what failed is tried again.  The device may announce a list that   *)
(* starts nowhere.                                                           *)
StartStandard ==
  /\ stage = "startStandard"
  /\ cached' = Fetched(0, 64)
  /\ Discovers("standard", << >>,
               IF ~(Reg(0, 64) \subseteq cached') THEN "Unavailable"
               ELSE IF ~device.list THEN "NotPresent"
               ELSE PointerStatus("standard", device.pointer, "InvalidNextPointer"))
  /\ UNCHANGED <<device, deaf, flips, i, headerReadable, content, field>>

-----------------------------------------------------------------------------
(* walk_chain.  Its offset is the start of the chain or where the last node  *)
(* listed points, and the offsets visited are those of the nodes listed.     *)

Start(k) == IF k = "standard" THEN device.pointer ELSE 256

Position(k, list) == IF list = << >> THEN Start(k) ELSE list[Len(list)].next

Offsets(list) == {list[j].offset : j \in 1..Len(list)}

(* The top of the loop: the list is full, or the offset was seen before.     *)
ListFull(k) ==
  /\ stage = k /\ Len(report[k].list) >= MaxNodes(k)
  /\ Discovers(k, report[k].list, "Truncated")
  /\ UNCHANGED <<device, deaf, flips, i, cached, headerReadable, content, field>>

CycleFound(k) ==
  LET list == report[k].list
  IN
  /\ stage = k /\ Len(list) < MaxNodes(k) /\ Position(k, list) \in Offsets(list)
  /\ Discovers(k, list, "CycleDetected")
  /\ UNCHANGED <<device, deaf, flips, i, cached, headerReadable, content, field>>

Header(k, list) == Reg(Position(k, list), HeaderLength(k))

ReadsNode(k) ==
  LET list == report[k].list
  IN
  /\ stage = k /\ Len(list) < MaxNodes(k) /\ Position(k, list) \notin Offsets(list)
  /\ cached' = Fetched(Position(k, list), HeaderLength(k))
  /\ UNCHANGED <<device, deaf, flips, i, headerReadable, content, field>>

(* Mutant: an unreadable header counts as the end of the chain. *)
Mut_NodeUnreadableEnds(k) ==
  LET list == report[k].list
  IN
  /\ ReadsNode(k) /\ ~(Header(k, list) \subseteq cached')
  /\ Discovers(k, list, "Complete")

(* The node's header cannot be read ... *)
NodeUnreadable(k) ==
  LET list == report[k].list
  IN
  /\ ReadsNode(k) /\ ~(Header(k, list) \subseteq cached')
  /\ Discovers(k, list, IF list = << >> THEN "Unavailable" ELSE "Truncated")

(* ... or is all zero: the extended space may be absent, a node may not ...  *)
NodeZero(k) ==
  LET list == report[k].list
  IN
  /\ ReadsNode(k) /\ Header(k, list) \subseteq cached'
  /\ Position(k, list) \notin DOMAIN device[k]
  /\ Discovers(k, list, IF list = << >> /\ k = "extended" THEN "NotPresent"
                        ELSE "MissingHeader")

(* ... or joins the list, and its pointer decides how to go on.              *)
NodeListed(k) ==
  LET list == report[k].list
      c    == device[k][Position(k, list)]
  IN
  /\ ReadsNode(k) /\ Header(k, list) \subseteq cached'
  /\ Position(k, list) \in DOMAIN device[k]
  /\ Discovers(k, Append(list, c), PointerStatus(k, c.next, "Complete"))

WalkNode(k) ==
  ListFull(k) \/ CycleFound(k) \/ NodeUnreadable(k) \/ NodeZero(k) \/ NodeListed(k)

-----------------------------------------------------------------------------

NextStage == [fetchStandard |-> "fetchExtended", fetchExtended |-> "fetchVendor",
              fetchVendor |-> "decode", decode |-> "report"]

(* The loops between discovery and decoding run over report[k].list, one    *)
(* capability a step, and only if the header was readable.                  *)
InLoop(s, k) ==
  /\ stage = s /\ headerReadable
  /\ i <= Len(report[k].list)
  /\ i' = i + 1
  /\ UNCHANGED <<device, deaf, flips, stage, headerReadable, report, content, field>>

LoopDone(s, k) ==
  /\ stage = s
  /\ ~headerReadable \/ i > Len(report[k].list)
  /\ stage' = NextStage[s]
  /\ i' = 1
  /\ UNCHANGED <<device, deaf, flips, cached, headerReadable, report, content, field>>

FetchWindow(s, k) ==
  /\ InLoop(s, k)
  /\ LET c == report[k].list[i]
     IN cached' = Fetched(c.offset, WindowEnd(k, c) - c.offset)

(* Mutant: the length is taken from the start of the capability. *)
Mut_VendorTailShort(c) ==
  LET first == c.offset + 3
      end   == Min({c.offset + c.n, 256})
  IN IF c.format = "VendorSpecific" /\ c.offset + 2 \in cached /\ end > first
     THEN Fetched(first, end - first) ELSE cached

(* A vendor capability names its length itself; the rest of its payload is  *)
(* fetched up to the end of the standard space.                             *)
VendorTail(c) ==
  LET first == c.offset + 3
      end   == Min({first + c.n, 256})
  IN IF c.format = "VendorSpecific" /\ c.offset + 2 \in cached /\ end > first
     THEN Fetched(first, end - first)
     ELSE cached

FetchVendor ==
  /\ InLoop("fetchVendor", "standard")
  /\ cached' = VendorTail(report["standard"].list[i])

(* decode_content for every capability of both chains. *)
Decoded(k) ==
  {j \in 1..Len(report[k].list) :
     LET c == report[k].list[j] IN HasDecoder(c) /\ Needs(c) \subseteq cached}

Decode ==
  /\ stage = "decode"
  /\ content' = IF headerReadable THEN [k \in Kind |-> Decoded(k)] ELSE content
  /\ stage' = NextStage["decode"]
  /\ UNCHANGED <<device, deaf, flips, i, cached, headerReadable, report, field>>

(* Mutant: only the standard chain is looked at. *)
Mut_ReportStandard ==
  /\ stage = "report"
  /\ field' = IF ~headerReadable THEN "Unavailable"
              ELSE IF report["standard"].status = "NotPresent"
              THEN "NotApplicable" ELSE "Available"
  /\ stage' = "done"
  /\ UNCHANGED <<device, deaf, flips, i, cached, headerReadable, report, content>>

(* capabilities_from_report. *)
Report ==
  /\ stage = "report"
  /\ field' = IF ~headerReadable THEN "Unavailable"
              ELSE IF \A k \in Kind : report[k].status = "NotPresent"
              THEN "NotApplicable" ELSE "Available"
  /\ stage' = "done"
  /\ UNCHANGED <<device, deaf, flips, i, cached, headerReadable, report, content>>

InspectStep ==
  \/ ReadHeader \/ StartStandard
  \/ (\E k \in Kind : WalkNode(k))
  \/ FetchWindow("fetchStandard", "standard")
  \/ FetchWindow("fetchExtended", "extended")
  \/ FetchVendor
  \/ LoopDone("fetchStandard", "standard")
  \/ LoopDone("fetchExtended", "extended")
  \/ LoopDone("fetchVendor", "standard")
  \/ Decode \/ Report

Next == InspectStep \/ DeviceFlips

Spec == Init /\ [][Next]_vars

-----------------------------------------------------------------------------

Status == {"Pending", "NotPresent", "Unavailable", "Complete", "Truncated",
           "InvalidNextPointer", "OffsetOutOfRange", "MisalignedOffset",
           "CycleDetected", "MissingHeader"}

(* The variables have the types their comments give them.                   *)
TypeOK ==
  /\ device \in Devices /\ deaf \in DeafSets /\ flips \in 0..MaxFlips
  /\ stage \in {"header", "startStandard", "standard", "extended",
                "fetchStandard", "fetchExtended", "fetchVendor", "decode",
                "report", "done"}
  /\ i \in Nat \ {0}
  /\ cached \subseteq 0..(Limit("extended") - 1)
  /\ headerReadable \in BOOLEAN
  /\ \A k \in Kind :
       /\ report[k].status \in Status
       /\ content[k] \subseteq 1..Len(report[k].list)
  /\ field \in {"Pending", "Unavailable", "NotApplicable", "Available"}

Listed(k) == {report[k].list[j] : j \in 1..Len(report[k].list)}

HasContent(k, c) == \E j \in content[k] : report[k].list[j] = c

(* The formats whose size the format bounds; the others declare a length.   *)
Bounded == (StandardFormats \cup ExtendedFormats)
             \ {"VendorSpecific", "VendorExt", "Dvsec", "Vc", "Tph"}

(* The window inspect fetches is wide enough for every format of bounded    *)
(* size: a listed capability whose window the device answers for, and that  *)
(* does not stick out of its space, is decoded, whatever else is unreadable *)
(* and whichever bits widen it.                                             *)
BoundedFormatsDecode ==
  stage = "done" /\ flips = 0 /\ headerReadable =>
    \A k \in Kind : \A c \in Listed(k) :
      /\ c.format \in Bounded
      /\ Needs(c) \subseteq 0..(Limit(k) - 1)
      /\ c.offset..(WindowEnd(k, c) - 1) \cap deaf = {}
      => HasContent(k, c)

(* A vendor-specific payload is decoded however long it says it is, as long *)
(* as it ends in the standard space and the device answers for all of it.   *)
VendorPayloadDecodes ==
  stage = "done" /\ flips = 0 /\ headerReadable =>
    \A c \in Listed("standard") :
      /\ c.format = "VendorSpecific"
      /\ c.offset + 3 + c.n <= 256
      /\ (c.offset..(WindowEnd("standard", c) - 1) \cup Needs(c)) \cap deaf = {}
      => HasContent("standard", c)

(* The VF BARs of a decoded SR-IOV capability share out its registers: each *)
(* register with a value belongs to one of them, the upper half of a 64-bit *)
(* address, whatever it looks like, to the BAR in front of it; a 64-bit BAR *)
(* has both its halves unless it starts in the last register.               *)
VfBarsTile ==
  stage = "done" =>
    \A j \in content["extended"] :
      LET c == report["extended"].list[j]
          decoded == VfBars(c.bars)
      IN c.format = "Sriov" =>
           /\ \A r \in 0..5 : c.bars[r] # "zero" =>
                \E b \in DOMAIN decoded : r \in decoded[b].registers
           /\ \A a, b \in DOMAIN decoded : a # b =>
                decoded[a].registers \cap decoded[b].registers = {}
           /\ \A b \in DOMAIN decoded : decoded[b].is_64_bit <=>
                decoded[b].registers = {b, b + 1} \/ (b = 5 /\ c.bars[b] = "mem64")

(* A list follows the device's pointers: from the start of the chain each    *)
(* node is the capability the one before it points at, and none comes twice. *)
Followed(k, list) ==
  /\ \A j \in 1..Len(list) :
       LET p == IF j = 1 THEN Start(k) ELSE list[j - 1].next
       IN p \in DOMAIN device[k] /\ list[j] = device[k][p]
  /\ \A a, b \in 1..Len(list) : list[a].offset = list[b].offset => a = b

(* Why the device itself ends a list there, or Pending where it does not.    *)
OwnReason(k, list) ==
  LET p       == Position(k, list)
      pointer == PointerStatus(k, p, IF list = << >> THEN "InvalidNextPointer" ELSE "Complete")
  IN IF k = "standard" /\ ~device.list THEN "NotPresent"
     ELSE IF pointer # "Pending" THEN pointer
     ELSE IF Len(list) = MaxNodes(k) THEN "Truncated"
     ELSE IF p \in Offsets(list) THEN "CycleDetected"
     ELSE IF p \in DOMAIN device[k] THEN "Pending"
     ELSE IF list = << >> /\ k = "extended" THEN "NotPresent"
     ELSE "MissingHeader"

(* The bytes without which a list cannot be gone on with.                    *)
Wanted(k, list) ==
  (IF k = "standard" /\ list = << >> THEN Reg(0, 64) ELSE {})
    \cup IF PointerStatus(k, Position(k, list), "Complete") = "Pending"
         THEN Header(k, list) ELSE {}

(* What cannot be read costs only what it holds: each list follows the       *)
(* device's pointers as far as the device has them lead, and stops short of  *)
(* that only where a byte of the next header was not answered for, which the *)
(* status then says.  What the extended space or a later capability leaves   *)
(* unanswered does not touch the standard chain.  (With the types of the     *)
(* variables.)                                                               *)
FailureStaysLocal ==
  /\ TypeOK
  /\ stage = "done" =>
       /\ \A k \in Kind :
            LET list   == report[k].list
                status == report[k].status
            IN /\ Followed(k, list)
               /\ \/ status = OwnReason(k, list)
                  \/ /\ status = IF list = << >> THEN "Unavailable" ELSE "Truncated"
                     /\ flips = 0 => Wanted(k, list) \cap deaf # {}
       /\ flips = 0 /\ deaf \cap (0..(Limit("standard") - 1)) = {} => headerReadable

(* Without a readable header nothing is decoded and the field says so, even  *)
(* when a later read of the same bytes succeeds and a chain is discovered.   *)
(* NotApplicable is said only of a device that announces no list and has no  *)
(* extended capability; Available only if something is listed, a chain could *)
(* not be read, or a list is announced that starts nowhere.                  *)
FieldIsJustified ==
  stage = "done" =>
    /\ ~headerReadable =>
         field = "Unavailable" /\ \A k \in Kind : content[k] = {}
    /\ field = "NotApplicable" =>
         ~device.list /\ 256 \notin DOMAIN device.extended
    /\ field = "Available" =>
         \/ \E k \in Kind : report[k].list # << >> \/ report[k].status = "Unavailable"
         \/ device.list /\ device.pointer \notin DOMAIN device.standard

(* The design's "if the header is readable but no capability list exists,    *)
(* it is NotApplicable".                                                     *)
NoListIsNotApplicable ==
  stage = "done" /\ headerReadable
    /\ ~device.list /\ DOMAIN device.extended = {}
  => field = "NotApplicable"

=============================================================================
