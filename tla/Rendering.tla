----------------------------- MODULE Rendering -----------------------------
(***************************************************************************)
(* What output.rs prints of an inspection: the lines of                    *)
(* render_inspection_text, with the escape sequences color.rs puts around  *)
(* some of them, and the fields of render_inspection_json.                 *)
(*                                                                         *)
(* A text is the sequence of its lines, the last one empty if it ends with *)
(* a line break.  A line is a sequence of pieces.  Labels, values and      *)
(* names are one piece each; ": " and the parts of an escape sequence are  *)
(* pieces of their own, because styled.rs looks for them.  An available    *)
(* value is the piece "value".                                             *)
(***************************************************************************)
EXTENDS Details, Naturals, SequencesExt, FiniteSetsExt

Esc == "ESC"
BoldCyan == "1;36"
Sgr(code) == <<Esc, "[", code, "m">>

(* Palette::paint and the names its callers give the codes. *)
Paint(color, code, text) == IF color THEN Sgr(code) \o text \o Sgr("0") ELSE text

Address(color, text)     == Paint(color, BoldCyan, text)
Dim(color, text)         == Paint(color, "2", text)
Unavailable(color, text) == Paint(color, "31", text)
Capability(color, text)  == Paint(color, "32", text)

-----------------------------------------------------------------------------
(* The text.                                                               *)

(* Separates a label from its value, and a failure from its reason.          *)
Colon == ": "

Line(label, value) == label \o <<Colon>> \o value

Failure(reason) == <<"<unavailable", Colon, reason, ">">>

(* render_field and render_hex_field know no palette. *)
Uncoloured == DOMAIN Needs \ {"resources"}

NotApplicable(f) ==
  IF f \in {"revision", "parent", "irq", "driver"} THEN <<"<not_available>">>
  ELSE <<"<not-applicable>">>

(* Mutant: a device without driver is said to have no such field. *)
Mut_ShownNotBound(f, state, color) ==
  CASE state = "Available" -> <<"value">>
    [] state \in {"NotApplicable", "NotBound"} -> NotApplicable(f)
    [] state \in Reasons \ {"NotBound"} /\ f \in Uncoloured -> Failure(state)
    [] OTHER -> Unavailable(color, Failure(state))

Shown(f, state, color) ==
  CASE state = "Available" -> <<"value">>
    [] state = "NotApplicable" -> NotApplicable(f)
    [] state \in Reasons /\ f \in Uncoloured -> Failure(state)
    [] OTHER -> Unavailable(color, Failure(state))

(* One line for two fields: it has no reason to give. *)
InterruptValue(details) ==
  IF details.interrupt_pin = "Available" /\ details.interrupt_line = "Available"
  THEN <<"value">> ELSE <<"<unavailable>">>

BridgeLabels == <<"bus", "io_behind_bridge", "memory_behind_bridge",
                  "prefetchable_memory_behind_bridge", "secondary_status",
                  "bridge_control">>

BridgeLines == [i \in DOMAIN BridgeLabels |-> Line(<<BridgeLabels[i]>>, <<"value">>)]

(* Two chains, a capability with decoded content in the first; the second
   could not be read. *)
CapabilityLines(color) ==
  << <<"capabilities:">>,
     Line(Dim(color, <<"standard">>), <<"chain=complete">>),
     Append(Capability(color, <<"name">>), "id_offset_next_state"),
     Line(<<"content">>, <<"value">>),
     Line(Dim(color, <<"extended">>), <<"chain=unavailable", Colon, "ReadError">>) >>

(* The lines of one field: none if it is one of another kind of header. *)
FieldLines(f, details, color) ==
  CASE f = "interrupt" -> <<Line(<<f>>, InterruptValue(details))>>
    [] f \in DOMAIN KindFields /\ details[f] = "NotApplicable" -> << >>
    [] f = "bridge" /\ details[f] = "Available" -> BridgeLines
    [] f = "resources" /\ details[f] = "Available" -> << <<"resources:">>, <<"BAR">> >>
    [] f = "capabilities" /\ details[f] = "Available" -> CapabilityLines(color)
    [] OTHER -> <<Line(<<f>>, Shown(f, details[f], color))>>

TextOrder == <<"revision", "subsystem", "parent", "irq", "driver", "command",
               "status", "cache_line_size", "latency_timer", "header_type",
               "bist", "expansion_rom", "interrupt", "cardbus_cis_pointer",
               "bridge", "resources", "capabilities">>

IdentityLines(color) ==
  << <<"PCI_device">> \o Address(color, <<"address">>) >>
    \o [i \in 1..3 |-> Line(<< <<"vendor", "device", "class">>[i] >>, <<"value">>)]

(* render_inspection_text without a configuration space. *)
ReportText(details, color) ==
  IdentityLines(color)
    \o FlattenSeq([i \in DOMAIN TextOrder |-> FieldLines(TextOrder[i], details, color)])
    \o << << >> >>

-----------------------------------------------------------------------------
(* JSON.                                                                   *)

(* json_field and the functions like it, one per type. *)
JsonField(state) ==
  CASE state \in {"Available", "NotApplicable"} -> [state |-> state, reason |-> "none"]
    [] OTHER -> [state |-> "unavailable", reason |-> state]

(* The object "details": fields of another kind of header are left out. *)
Json(details) ==
  [f \in {g \in Fields : g \in DOMAIN KindFields => details[g] # "NotApplicable"} |->
     JsonField(details[f])]

-----------------------------------------------------------------------------
(* What a reader learns of field f from either.                            *)

TellsFailure(text) ==
  \E i \in 1..(Len(text) - 1) : text[i] = "<unavailable" /\ text[i + 1] = Colon

ToldByText(f, details) ==
  LET lines == FieldLines(f, details, FALSE)
      text  == lines[1]
  IN IF lines = << >> \/ {"<not_available>", "<not-applicable>"} \cap ToSet(text) # {}
     THEN "NotApplicable"
     ELSE IF TellsFailure(text) THEN text[Len(text) - 1]
     ELSE IF Last(text) = "<unavailable>" THEN "unavailable"
     ELSE "Available"

ToldByJson(f, details) ==
  LET object == Json(details)
  IN IF f \notin DOMAIN object THEN "NotApplicable"
     ELSE IF object[f].state = "unavailable" THEN object[f].reason
     ELSE object[f].state
=============================================================================
