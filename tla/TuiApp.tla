------------------------------- MODULE TuiApp -------------------------------
(***************************************************************************)
(* The terminal browser: crates/lspci-rs/src/tui/mod.rs (App, run_tui,     *)
(* TerminalGuard), tui/ui.rs (draw_tree) and the view of tui/tree.rs       *)
(* (visible_rows, expand, collapse).                                       *)
(*                                                                         *)
(* The rows are those BusTree builds.  visible, cursor, tree_offset, the   *)
(* detail pane and its scroll position are all derived from one another    *)
(* and kept up by hand in every key handler.  run_tui draws, waits for an  *)
(* event and handles it; each of the three is a step.                      *)
(*                                                                         *)
(* What inspect makes of a device is a record of Details; Rendering prints *)
(* it and Styled turns the print into the lines of the pane.               *)
(***************************************************************************)
EXTENDS Integers, Styled, TreeRows

CONSTANTS
  Reports,    \* name -> Details record: what inspecting a device gives
  Trees,      \* the row sequences browsed: [depth, parent, device,
              \* expandable, text, report]; report is a name, "none" of a bus
  Char,       \* the characters typed into the filter
  MaxFilter,  \* bound: the length of the filter
  Heights,    \* heights the tree list may have, 0 if the window is too low
  Page        \* lines PageUp and PageDown scroll by

(* BusTreeProofs!RowsAlwaysPreorder: TreeModel::build makes no other rows.   *)
ASSUME TreesAssumption  == \A t \in Trees : t \in Seq(Range(t)) /\ Preorder(t)
(* inspect gives each field a state; rows name what it gives.                *)
ASSUME ReportsAssumption ==
  /\ \A r \in DOMAIN Reports : Reports[r] \in [Fields -> FieldStates]
  /\ \A t \in Trees : \A i \in DOMAIN t : t[i].report \in DOMAIN Reports \cup {"none"}
ASSUME BoundsAssumption == MaxFilter \in Nat /\ Page \in Nat /\ Heights \subseteq Nat

VARIABLES
  rows, filter, expanded,                          \* TreeModel
  visible, cursor, offset, detail, scroll,         \* App
  mode, input,
  palette,    \* App.color.enabled(); the same throughout
  pc,         \* the step of run_tui that is next
  guard,      \* _guard is alive
  raw, alt,   \* external: the terminal is in raw mode, on its second screen
  height      \* external: height of the tree list at the last draw

model    == <<rows, filter, expanded>>
view     == <<visible, cursor, detail, scroll>>
terminal == <<guard, raw, alt>>
vars     == <<model, view, offset, mode, input, palette, pc, terminal, height>>

Pred(n) == Max({n - 1, 0})

Holds(text, word) ==
  \E i \in 1..(Len(text) - Len(word) + 1) : SubSeq(text, i, i + Len(word) - 1) = word

-----------------------------------------------------------------------------
(* tui/tree.rs *)

NextSibling(i) ==
  Min({j \in (i + 1)..Len(rows) : rows[j].depth <= rows[i].depth} \cup {Len(rows) + 1})

(* Mutant: a row is kept for its own text only. *)
Mut_OwnMatch(i) == Holds(rows[i].text, filter)

SubtreeHasMatch(i) ==
  \E j \in i..(NextSibling(i) - 1) : Holds(rows[j].text, filter)

VisibleRows ==
  LET filtering == filter # << >>
      keep(i)    == ~filtering \/ SubtreeHasMatch(i)
      descend(i) == IF filtering THEN SubtreeHasMatch(i)
                    ELSE rows[i].expandable /\ i \in expanded
      from[i \in 1..(Len(rows) + 1)] ==
        IF i > Len(rows) THEN << >>
        ELSE (IF keep(i) THEN <<i>> ELSE << >>)
               \o from[IF keep(i) /\ descend(i) THEN i + 1 ELSE NextSibling(i)]
  IN from[1]

(* The row under the cursor, 0 if there is none. *)
Selected == IF cursor < Len(visible) THEN visible[cursor + 1] ELSE 0

(* render_device_detail of a device, or what load_detail has for its error. *)
DeviceText(report, coloured) ==
  IF report = "failed" THEN <<Line(<<"failed_to_load_details">>, <<"error">>)>>
  ELSE ReportText(Reports[report], coloured)

(* The lines load_detail makes of it, none without a device. *)
PaneOf(report, coloured) ==
  LET text == DeviceText(report, coloured)
  IN IF report = "none" THEN << >>
     ELSE TextFromAnsi(IF coloured THEN ColorizeDetail(text) ELSE text)

Pane == PaneOf(detail.report, palette)

(* load_detail inspects the selected device, or fails to.                   *)
NoDetail == [row |-> 0, report |-> "none"]
Loaded(row) ==
  IF row # 0 /\ rows[row].device
  THEN {[row |-> row, report |-> r] : r \in {rows[row].report, "failed"}}
  ELSE {NoDetail}

-----------------------------------------------------------------------------
(* App *)

LoadDetail == scroll' = 0 /\ detail' \in Loaded(Selected')

(* Mutant: the detail is not loaded again. *)
Mut_RefreshList(c) ==
  /\ visible' = VisibleRows'
  /\ cursor' = IF c >= Len(visible') THEN Pred(Len(visible')) ELSE c
  /\ UNCHANGED <<detail, scroll>>

(* refresh, with the cursor its caller leaves. *)
Refresh(c) ==
  /\ visible' = VisibleRows'
  /\ cursor' = IF c >= Len(visible') THEN Pred(Len(visible')) ELSE c
  /\ LoadDetail

Init ==
  /\ rows \in Trees
  /\ filter = << >>
  /\ expanded = {i \in DOMAIN rows : rows[i].depth = 0}
  /\ visible = VisibleRows
  /\ LET devices == {i \in DOMAIN visible : rows[visible[i]].device}
     IN cursor = IF devices = {} THEN 0 ELSE Min(devices) - 1
  /\ palette \in BOOLEAN
  /\ detail \in Loaded(Selected) /\ scroll = 0
  /\ offset = 0 /\ mode = "normal" /\ input = << >>
  /\ pc = "raw" /\ guard = FALSE /\ raw = FALSE /\ alt = FALSE /\ height = 0

(* Every handler that goes on ends in another draw. *)
OnKey(m) == pc = "key" /\ mode = m /\ pc' = "draw"
            /\ UNCHANGED <<rows, palette, terminal, height>>

MoveCursor(delta) ==
  LET next == Max({Min({cursor + delta, Len(visible) - 1}), 0})
  IN
  /\ OnKey("normal")
  /\ IF visible = << >> \/ next = cursor THEN UNCHANGED view
     ELSE cursor' = next /\ UNCHANGED visible /\ LoadDetail
  /\ UNCHANGED <<filter, expanded, offset, mode, input>>

Expand ==
  /\ OnKey("normal")
  /\ IF Selected = 0 THEN UNCHANGED <<expanded, view>>
     ELSE /\ expanded' = expanded \cup {i \in {Selected} : rows[i].expandable}
          /\ UNCHANGED filter
          /\ Refresh(cursor)
  /\ UNCHANGED <<filter, offset, mode, input>>

(* Mutant: the cursor returns to the first row. *)
Mut_CollapseToTop ==
  /\ OnKey("normal")
  /\ Selected \in expanded
  /\ expanded' = expanded \ {Selected}
  /\ UNCHANGED <<filter, offset, mode, input>>
  /\ Refresh(0)

Collapse ==
  /\ OnKey("normal")
  /\ Selected \in expanded
  /\ expanded' = expanded \ {Selected}
  /\ UNCHANGED <<filter, offset, mode, input>>
  /\ Refresh(cursor)

(* An unexpanded row: the cursor goes to its parent, if that is visible. *)
JumpToParent ==
  LET at == {p \in DOMAIN visible : visible[p] = rows[Selected].parent}
  IN
  /\ OnKey("normal")
  /\ Selected # 0 /\ Selected \notin expanded
  /\ IF at = {} THEN UNCHANGED view
     ELSE cursor' = Min(at) - 1 /\ UNCHANGED visible /\ LoadDetail
  /\ UNCHANGED <<filter, expanded, offset, mode, input>>

ScrollDetail ==
  /\ OnKey("normal")
  /\ scroll' \in {Max({scroll - Page, 0}), Min({scroll + Page, Pred(Len(Pane))})}
  /\ UNCHANGED <<filter, expanded, visible, cursor, detail, offset, mode, input>>

OpenFilter ==
  /\ OnKey("normal")
  /\ mode' = "filter" /\ input' = filter
  /\ UNCHANGED <<filter, expanded, view, offset>>

(* Typing, deleting and Esc all start over at the first row. *)
ChangeFilter(text) ==
  /\ OnKey("filter")
  /\ input' = text /\ filter' = text
  /\ offset' = 0
  /\ UNCHANGED expanded
  /\ Refresh(0)

TypeChar == \E c \in Char : /\ Len(input) < MaxFilter
                            /\ ChangeFilter(Append(input, c)) /\ UNCHANGED mode

Backspace == /\ ChangeFilter(IF input = << >> THEN input ELSE Front(input))
             /\ UNCHANGED mode

ClearFilter == ChangeFilter(<< >>) /\ mode' = "normal"

ApplyFilter ==
  /\ OnKey("filter")
  /\ mode' = "normal"
  /\ UNCHANGED <<filter, expanded, view, offset, input>>

(* Mutant: the list moves one row too late. *)
Mut_ScrolledLate(c, h) ==
  IF h = 0 THEN offset
  ELSE IF c < offset THEN c
  ELSE IF c > offset + h THEN c - h + 1
  ELSE offset

(* draw_tree: the list is scrolled so that row c of it is among the h shown. *)
Scrolled(c, h) ==
  IF h = 0 THEN offset
  ELSE IF c < offset THEN c
  ELSE IF c >= offset + h THEN c - h + 1
  ELSE offset

(* The cursor is clamped again, the list scrolled to it. *)
Draw ==
  /\ pc = "draw"
  /\ height' \in Heights
  /\ cursor' = IF cursor >= Len(visible) THEN Pred(Len(visible)) ELSE cursor
  /\ offset' = Scrolled(cursor', height')
  /\ pc' = "key"
  /\ UNCHANGED <<model, visible, detail, scroll, mode, input, palette, terminal>>

(* A resize, the release of a key, a key without a meaning. *)
IgnoreEvent ==
  /\ pc = "key"
  /\ pc' = "draw"
  /\ UNCHANGED <<model, view, offset, mode, input, palette, terminal, height>>

-----------------------------------------------------------------------------
(* run_tui *)

(* Mutant: the guard does not exist yet while the screen is switched. *)
Mut_EnableUnguarded ==
  /\ pc = "raw"
  /\ pc' = "alt" /\ raw' = TRUE
  /\ UNCHANGED <<model, view, offset, mode, input, palette, guard, alt, height>>

EnableRawMode ==
  /\ pc = "raw"
  /\ pc' = "alt" /\ raw' = TRUE /\ guard' = TRUE
  /\ UNCHANGED <<model, view, offset, mode, input, palette, alt, height>>

EnterAlternateScreen ==
  /\ pc = "alt"
  /\ pc' = "draw" /\ alt' = TRUE
  /\ UNCHANGED <<model, view, offset, mode, input, palette, guard, raw, height>>

(* run_tui returns: one of its operations on the terminal has failed, or q,  *)
(* Esc, Ctrl-C or Ctrl-Q was pressed.  TerminalGuard is dropped on the way.  *)
Leave ==
  /\ pc # "exited"
  /\ pc' = "exited" /\ guard' = FALSE
  /\ raw' = (raw /\ ~guard) /\ alt' = (alt /\ ~guard)
  /\ UNCHANGED <<model, view, offset, mode, input, palette, height>>

KeyStep ==
  \/ MoveCursor(1) \/ MoveCursor(-1)
  \/ Expand \/ Collapse \/ JumpToParent \/ ScrollDetail \/ OpenFilter
  \/ TypeChar \/ Backspace \/ ClearFilter \/ ApplyFilter

Next ==
  \/ EnableRawMode \/ EnterAlternateScreen
  \/ Draw \/ KeyStep \/ IgnoreEvent
  \/ Leave

Spec == Init /\ [][Next]_vars

-----------------------------------------------------------------------------

(* The variables have the types their comments give them.                   *)
TypeOK ==
  /\ rows \in Trees /\ expanded \subseteq DOMAIN rows
  /\ filter \in Seq(Char) /\ input \in Seq(Char) /\ Len(input) <= MaxFilter
  /\ visible \in Seq(DOMAIN rows)
  /\ cursor \in Nat /\ offset \in Nat /\ scroll \in Nat
  /\ detail \in (UNION {Loaded(i) : i \in DOMAIN rows}) \cup {NoDetail}
  /\ palette \in BOOLEAN
  /\ mode \in {"normal", "filter"}
  /\ pc \in {"raw", "alt", "draw", "key", "exited"}
  /\ guard \in BOOLEAN /\ raw \in BOOLEAN /\ alt \in BOOLEAN
  /\ height \in Heights \cup {0}

Ancestors(i) ==
  LET up[j \in 0..Len(rows)] == IF j = 0 THEN {} ELSE {j} \cup up[rows[j].parent]
  IN up[rows[i].parent]

(* The list on the screen is the one the filter and the unfolded rows call  *)
(* for now: with a filter, the rows that match and all their ancestors, and *)
(* without, the rows whose ancestors are all unfolded, each once, in order. *)
(* (With the types of the variables.)                                       *)
VisibleIsCurrent ==
  /\ TypeOK
  /\ \A i \in 1..(Len(visible) - 1) : visible[i] < visible[i + 1]
  /\ Range(visible) =
       IF filter # << >>
       THEN UNION {{i} \cup Ancestors(i) :
                     i \in {j \in DOMAIN rows : Holds(rows[j].text, filter)}}
       ELSE {i \in DOMAIN rows : Ancestors(i) \subseteq expanded}

(* The detail pane shows the device under the cursor, and nothing when the  *)
(* cursor is on a bus or the list is empty: draw_tree's clamp of the cursor *)
(* never finds anything to do, or it would leave the detail behind.         *)
DetailFollowsCursor ==
  /\ cursor <= Pred(Len(visible))
  /\ detail \in Loaded(Selected)

PaneOnScreen == <<detail.report, palette>>
AllPanes     == {<<r, c>> : r \in DOMAIN Reports \cup {"failed", "none"}, c \in BOOLEAN}

ShowsReport(report, coloured) ==
  LET pane    == PaneOf(report, coloured)
      shown   == [i \in DOMAIN pane |-> PlainLine(pane[i])]
      printed == LinesOf(DeviceText(report, FALSE))
  IN report # "none" => shown \in {printed, Append(printed, << >>)}

(* A constant, so that TLC looks at each pane once. *)
Faithful == {p \in AllPanes : ShowsReport(p[1], p[2])}

(* The pane shows the text the command line prints of the device without    *)
(* colours, line by line: no escape sequence reaches the screen and nothing *)
(* gets lost with one.  Without colours there is an empty line at the end.  *)
PaneShowsReport == PaneOnScreen \in Faithful

RedIsFailure(spans, coloured) ==
  LET text   == PlainLine(spans)
      styles == Styles(spans)
      valueFrom == Min({j \in DOMAIN text : text[j] = Colon} \cup {Len(text)}) + 1
  IN IF coloured
     THEN {j \in DOMAIN text : styles[j].fg = "red"} =
            IF TellsFailure(text) THEN valueFrom..Len(text) ELSE {}
     ELSE Range(styles) \subseteq {DefaultStyle}

TruthfullyRed ==
  {p \in AllPanes :
     \A i \in DOMAIN PaneOf(p[1], p[2]) : RedIsFailure(PaneOf(p[1], p[2])[i], p[2])}

(* In colours, a value with "<unavailable: ...>" in it is all red, whether   *)
(* or not the command line paints it, and nothing else is: no style outlives*)
(* its sequence.  Without colours everything has the default style.         *)
FailuresAreRed == PaneOnScreen \in TruthfullyRed

(* Each draw shows the row under the cursor, whatever the terminal's height *)
(* has become and whatever was folded or filtered since the last.           *)
CursorOnScreen ==
  pc = "key" /\ height # 0 => offset <= cursor /\ cursor < offset + height

(* Unfolding or folding a row keeps the cursor on it, under a filter as      *)
(* well: rows come and go only below it.                                    *)
FoldingKeepsRow == [][expanded' # expanded => Selected' = Selected]_vars

(* However run_tui ends, the shell gets its terminal back.                  *)
TerminalRestored == pc = "exited" => ~raw /\ ~alt
=============================================================================
