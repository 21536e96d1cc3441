------------------------------- MODULE Styled -------------------------------
(***************************************************************************)
(* crates/lspci-rs/src/tui/styled.rs: how the detail pane of the terminal  *)
(* browser comes by its colours.  The report of an inspection is printed   *)
(* as for the command line, escape sequences included; colorize_detail     *)
(* adds more of them around labels and failed values, and text_from_ansi   *)
(* turns the whole into lines of styled spans.                             *)
(***************************************************************************)
EXTENDS Rendering

(* str::lines: no line after the last line break. *)
LinesOf(text) == IF text # << >> /\ Last(text) = << >> THEN Front(text) ELSE text

(* A value that tells of a failure becomes red. *)
FailedValue(value) ==
  IF TellsFailure(value) THEN Paint(TRUE, "31", value) ELSE value

ColorizeLine(line) ==
  LET colons == {i \in DOMAIN line : line[i] = Colon}
      at     == Min(colons)
  IN IF colons = {} THEN line
     ELSE Paint(TRUE, "2", SubSeq(line, 1, at - 1)) \o <<Colon>>
            \o FailedValue(SubSeq(line, at + 1, Len(line)))

(* colorize_detail joins the lines without a line break at the end. *)
ColorizeDetail(text) ==
  LET lines == LinesOf(text)
  IN [i \in DOMAIN lines |-> ColorizeLine(lines[i])]

-----------------------------------------------------------------------------
(* text_from_ansi.                                                         *)

DefaultStyle == [fg |-> "none", bold |-> FALSE, dim |-> FALSE]

(* Mutant: a reset leaves the style as it is. *)
Mut_ApplySgr(style, params) ==
  CASE params = <<BoldCyan>> -> [fg |-> "cyan", bold |-> TRUE, dim |-> FALSE]
    [] params = <<"2">> -> [style EXCEPT !.dim = TRUE]
    [] params = <<"31">> -> [DefaultStyle EXCEPT !.fg = "red"]
    [] params = <<"32">> -> [DefaultStyle EXCEPT !.fg = "green"]
    [] OTHER -> style

(* A colour replaces the style, dim is added to it, other codes are ignored. *)
ApplySgr(style, params) ==
  CASE params \in {<<"0">>, << >>} -> DefaultStyle
    [] params = <<BoldCyan>> -> [fg |-> "cyan", bold |-> TRUE, dim |-> FALSE]
    [] params = <<"2">> -> [style EXCEPT !.dim = TRUE]
    [] params = <<"31">> -> [DefaultStyle EXCEPT !.fg = "red"]
    [] params = <<"32">> -> [DefaultStyle EXCEPT !.fg = "green"]
    [] OTHER -> style

(* Where the scanner stands in a line: the piece it goes on with, the text it
   has not made a span of, the style of that text, and the spans so far. *)
ScanStart(style) == [next |-> 1, buffer |-> << >>, style |-> style, spans |-> << >>]

PushSpan(scan) ==
  IF scan.buffer = << >> THEN scan
  ELSE [scan EXCEPT !.spans = Append(@, [text |-> scan.buffer, style |-> scan.style]),
                    !.buffer = << >>]

(* Mutant: the text in front of a sequence gets the style behind it. *)
Mut_Restyle(scan, params, end) ==
  [scan EXCEPT !.style = ApplySgr(@, params), !.next = end + 1]

(* The sequence ends with the "m" at piece end. *)
Restyle(scan, params, end) ==
  LET pushed == PushSpan(scan)
  IN [pushed EXCEPT !.style = ApplySgr(@, params), !.next = end + 1]

(* A turn of the loop at piece i of a line.  No other sequence than SGR, the
   one that ends in "m", is ever written, and none goes on in the next line;
   an escape that starts none is text. *)
ScanPiece(line, scan, i) ==
  LET ends == {j \in (i + 2)..Len(line) : line[j] = "m"}
      sgr  == line[i] = Esc /\ i < Len(line) /\ line[i + 1] = "[" /\ ends # {}
  IN IF i < scan.next THEN scan
     ELSE IF sgr THEN Restyle(scan, SubSeq(line, i + 2, Min(ends) - 1), Min(ends))
     ELSE [scan EXCEPT !.buffer = Append(@, line[i])]

(* Mutant: what is left of a line is not made a span of. *)
Mut_ScanLine(line, style) ==
  LET scan[n \in 0..Len(line)] ==
        IF n = 0 THEN ScanStart(style) ELSE ScanPiece(line, scan[n - 1], n)
  IN scan[Len(line)]

ScanLine(line, style) ==
  LET scan[n \in 0..Len(line)] ==
        IF n = 0 THEN ScanStart(style) ELSE ScanPiece(line, scan[n - 1], n)
  IN PushSpan(scan[Len(line)])

(* The style outlives the line. *)
TextFromAnsi(text) ==
  LET scan[n \in 0..Len(text)] ==
        IF n = 0 THEN [lines |-> << >>, style |-> DefaultStyle]
        ELSE LET before == scan[n - 1]
                 line   == ScanLine(text[n], before.style)
             IN [lines |-> Append(before.lines, line.spans), style |-> line.style]
  IN scan[Len(text)].lines

-----------------------------------------------------------------------------
(* What is on the screen.                                                  *)

PlainLine(spans) == FlattenSeq([i \in DOMAIN spans |-> spans[i].text])

(* The style of each piece of a line. *)
Styles(spans) ==
  FlattenSeq([i \in DOMAIN spans |-> [j \in DOMAIN spans[i].text |-> spans[i].style]])
=============================================================================
