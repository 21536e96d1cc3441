# lspci-rs: a TLA+ model and proofs

`lspci-rs` lists PCI devices, shows one of them in detail, and browses the bus
tree in a terminal. It reads through libpci and writes nothing. Its difficulty
is not in what it writes but in what it may believe: the bytes it shows come
from a device that can refuse any read, change between two reads, link its
capabilities in circles, or be unplugged, and each value has to be reported
together with the reason why another is missing.

This directory models the code under `src/crates`, checks the models with TLC
and proves the central ones with TLAPS.

## 1. The system

| Component | Code | State | Operations | Works with |
|---|---|---|---|---|
| Configuration cache | `pci/src/config.rs` | snapshot: sorted segments of bytes, list of failures | `fetch`, `read`, `snapshot.read` | libpci's `pci_read_block` |
| Capability walker | `pci/src/capability.rs` | nodes so far, visited offsets, current pointer | `discover` | reads headers through the cache |
| Decoders | `pci/src/decoders/*` | none | `decode_content` | read the snapshot only, never the device |
| Inspection | `pci/src/session.rs` `inspect` | report, `header_readable`, details | prefetch, decode, state of every field | cache, walker, decoders |
| Session | `pci/src/session.rs`, `lspci-rs/src/main.rs` | libpci context and its device list | `new`, `scan`, `inspect`, `read_config`, drop | called by all commands |
| Header decoding | `pci/src/header.rs` | none | one function per field | read the snapshot |
| Bus tree | `lspci-rs/src/tree.rs`, `tui/tree.rs` | rows in preorder | `collect_bridge_windows`, `build`, `render_tree` | session for the windows |
| Terminal UI | `lspci-rs/src/tui/mod.rs`, `ui.rs` | visible rows, cursor, offset, detail, scroll, filter, mode | keys, draw, `run_tui` | bus tree, session, rendering |
| Rendering | `lspci-rs/src/output.rs`, `color.rs` | none | text and JSON, colours | values of the above |
| Styled text | `lspci-rs/src/tui/styled.rs` | none between calls | `colorize_detail`, `text_from_ansi` | turns the text of an inspection into the TUI's pane |

The program has one thread. What runs beside it is the machine: devices
answer, change, come and go, the firmware writes bridge registers, the user
presses keys and resizes the terminal. Every model interleaves the program's
steps with those, at the granularity of one call into libpci or one event.

What is hard, component by component, and what makes it correct:

* **Cache.** Blocks are read one by one, a refused one is halved down to 16
  bytes, failures are remembered and may later be overtaken by a success.
  Correct: every byte is one the device showed at that offset, the first read
  of a byte wins, the verdict of a call is the truth about the bytes asked for,
  segments stay sorted and disjoint, and each call returns.
* **Walker.** The chain is whatever the device says. Correct: the list is
  bounded, in range, aligned, linked and free of repetitions, its status is the
  true reason why it ends where it ends, and the walk ends.
* **Inspection.** The decoders see only what was prefetched. Correct: the
  windows are wide enough for the formats, and a failure costs only what it
  holds.
* **Session.** libpci's list grows with every search. Correct: the newest
  entry of a slot is used, a snapshot is the whole machine at one moment, a
  device found once is not lost between two calls.
* **Bus tree.** Membership follows from bus numbers in registers. Correct:
  every device appears once, below the innermost bridge that leads to it, and
  the recursion ends although nothing bounds it.
* **Terminal UI.** Six pieces of derived state are kept by hand. Correct: the
  list is the one filter and folding call for, the detail is of the row under
  the cursor, that row is on the screen, and the terminal is given back.
* **Rendering.** The text, its JSON twin and the TUI's pane are written, and
  parsed again, by separate code. Correct: all three say the same of each
  field, the pane loses nothing to an escape sequence, red is what failed, and
  the hex dump has every cached byte at its offset.

The hazards, each at its line and with the properties aimed at it, are in
`PROJECT.json`.

## 2. Modules

| Module | Models | Notes |
|---|---|---|
| `ConfigCache` | what a reader promises | bytes are settled one set at a time, loaded or given up |
| `ConfigReader` | `ConfigSpaceReader` as written | refines `ConfigCache` |
| `CapabilityWalk` | `discover` | the device answers each header read with anything |
| `CapabilityDecoders` | the bytes each decoder needs, the VF BARs | constant operators |
| `Inspect` | the capability part of `inspect` | over a cache of offsets, uses `CapabilityDecoders` |
| `Details` | `PciDeviceDetails`: the state of each field | constant operators, shared by the next two |
| `Rendering` | what `output.rs` and `color.rs` print of an inspection | constant operators; a text is a sequence of lines, a line of pieces |
| `Session` | `PciSession` under the commands of `main.rs` | machine with hot plug; EXTENDS `Rendering` |
| `BridgeWindows` | bridge registers, decoding, window sizes | integer widths scaled |
| `BusTree` | `TreeModel::build` and `render_tree` | recursion as a stack of frames that can overflow; hot plug between scan and reads |
| `Styled` | `tui/styled.rs` | constant operators over `Rendering`'s texts |
| `TuiApp` | `App`, `visible_rows`, `draw_tree`, `run_tui` | keys, resizes, failures of the terminal; EXTENDS `Styled` |
| `TreeRows` | what both of the above say of their rows | `Preorder`: proved of `BusTree`'s rows, assumed of `TuiApp`'s |
| `ConfigCacheProofs`, `ConfigReaderProofs`, `CapabilityWalkProofs`, `InspectProofs`, `SessionProofs`, `BridgeWindowsProofs`, `BusTreeProofs`, `TuiAppProofs` | theorems | one per proved module |
| `MC*` | instances for TLC | constants only |

How they correspond to the code:

* `ConfigReader` keeps `segments` and `failures` as the snapshot does.
  `StartCall`, `SkipCovered`, `OpenGap`, `CloseGap`, `Return` are the loop of
  `fetch`; `ReadBlock`, `SplitBlock`, `GiveUpBlock` are `read_range`, whose
  recursion is the sequence `work`. One step reads one block, so
  `DeviceChanges` can fall between any two. A byte is the pair of its offset
  and the state of the device when it was read, so that a byte in the wrong
  place or of the wrong moment is visible. `Dump` is what
  `render_config_space_text` prints of the segments, row by row.
* `CapabilityWalk` runs `discover_standard` and then `discover_extended`.
  `TooMany`, `Cycle`, `ReadFails`, `ReadZero`, `ReadNode` are the exits and the
  body of `walk_chain`'s loop in the order of its tests.
* `Inspect` goes through the stages of `inspect`: header, walk, three prefetch
  loops, decode, report. `deaf` is what the device leaves unanswered. A device
  is the two bytes of its header that lead to a list and the capabilities at
  each offset (`IsDevice`), whether its pointers lead to them or not.
  `StartStandard` is `discover_standard` and the check of the start in
  `walk_chain`; `ListFull`, `CycleFound`, `NodeUnreadable`, `NodeZero` and
  `NodeListed` are the exits and the body of its loop. Of `CapabilityWalk` it
  keeps every exit, over what the cache has of one device.
  `VfBars` is the loop of `decode_sriov` over the six BAR registers.
* `Session` has one action for each step between which a device can be
  plugged or unplugged: the scan of the bus, each `pci_fill_info`, the search,
  and the reading of configuration space. `todo` holds the session calls a
  command of `main.rs` has still to make. `Details` gives the state of every
  field of `PciDeviceDetails`, `Rendering` its line in the text (`FieldLines`)
  and its object in JSON (`Json`).
* `BridgeWindows` decodes any pair of register values and renders its size in
  the integers of the renderer, with the overflow check of the build profile.
  `BaseAddress` masks the reserved digit of the I/O and the prefetchable base
  and, as `header.rs:332`, not that of the memory base.
* `BusTree` reads the windows one by one, each of which may be unreadable, and
  then pushes rows; `frames` are the active calls of `push_bus_devices` or
  `render_bus`, at most `StackSize` of them before the program `crashed`.
  `WindowForeign` is the slot of a bridge that holds another device by the time
  its window is read: `collect_bridge_windows` takes whatever bytes are there
  (`Foreign`, the bytes of a BAR). The command `tree` is the same with `BusOf`
  dropping the domain.
* `TuiApp` alternates `Draw` and one key, as `run_tui`'s loop does. `detail`
  names the report on show; `Pane` is the text `load_detail` makes of it, the
  print of `Rendering` through `ColorizeDetail` and `TextFromAnsi` of `Styled`.

Abstractions. The wording of names and values, indentation and the meaning of
most decoded bits are left out. Addresses, identifiers and texts are values of
small sets; a line is a sequence of pieces in which only what the code looks
for has a piece of its own (the escape character, `[`, the parameters, `m`,
`": "`, `<unavailable`). A decoder is the set of bytes it cannot do without.

## 3. Runs

The type invariant is a property of its own in `config_reader` and
`capability_walk`. Elsewhere it is the first conjunct of an invariant that
relates most of the variables (`FailureStaysLocal`, `SnapshotIsOneScan`,
`SizeIsExact`, `TreeShape`, `VisibleIsCurrent`); that of `ConfigCache` is part
of the invariant `ConfigCacheProofs` proves.

| Run | Shows | Bounds, and why they are enough |
|---|---|---|
| `config_cache` | `VerdictSound`, `CachedForever` | 3 offsets, 2 device states: neighbours on both sides and one change |
| `config_reader` | `TypeOK`, `SegmentsCanonical`, `WorkTilesGap`, `ReadReturnsCache`, `FirstFetchPartitions`, `DumpShowsCache`, `RefinesCache`, `EveryCallReturns` | offsets 0..6, MIN_READ_BLOCK 2, c_int to 5, rows of the dump of 3 bytes, two calls out of six ranges: requests that split twice, are odd, empty, overflow, exceed c_int, lie in front of, behind, across and inside what is cached; segments shorter and longer than a row |
| `capability_walk` | `TypeOK`, `ChainsWellFormed`, `StatusExplains`, `NodesPreserved`, `DiscoveryEnds` | four slots per space; the standard bound equals the number of slots and the extended one is less, as 48 and 256 relate to the real spaces; any pointer into and past the space |
| `inspect` | `BoundedFormatsDecode`, `VendorPayloadDecodes`, `FailureStaysLocal`, `FieldIsJustified`, `VfBarsTile` | every format with and without its optional parts, first, behind another, and at the end of its space; announced lists that start nowhere, unannounced ones, last pointers that lead back, astray or to a zero header, and 48 nodes, as many as the standard space holds (a list of 256 extended nodes is `capability_walk`'s, scaled); eight patterns of unreadable bytes; one change of mind; 81 layouts of the VF BAR registers, with 64-bit ones side by side and in the last register |
| `session` | `HandleIsNewest`, `SnapshotIsOneScan`, `FoundStaysFound`, `TextAndJsonAgree`, `CommandEnds` | two slots, three devices, three scans: one replacement of a device between any two steps, and enough calls for a stale entry to be older than the current one; libpci fills everything, some of it, or too little; devices with and without parent, driver, resources and capabilities |
| `bridge_windows` | `SizeIsExact`, `PanicsOnlyWhenFull` | all pairs of register values at 32 for 2^32 and 64 for 2^64, with a reserved digit of two values; the ratios of granule, units and widths keep their order, so that a window can be off, one granule, whole units, odd units, full, or start inside a granule |
| `bus_tree` | `TreeShape`, `ParentIsInnermost`, `NothingElseLost`, `StackSuffices`, `BuildEnds` | every nesting of four buses numbered depth first, three populations, a second domain with or without a bridge, up to two unreadable windows, one replaced bridge with four kinds of BAR bytes; a bridge without bus numbers below another bridge, and two of them below two host bridges with any endpoints; a stack of four calls, as many as there are bus numbers, for both renderers |
| `tui_app` | `VisibleIsCurrent`, `DetailFollowsCursor`, `PaneShowsReport`, `FailuresAreRed`, `CursorOnScreen`, `TerminalRestored`, `FoldingKeepsRow` | a tree with three levels, a bus without devices and the empty tree; five reports in which every field is available somewhere and failed or inapplicable elsewhere, with colours and without; filters of two characters; terminals of height 0, 1 and 3 |

`CHECK_DEADLOCK FALSE` is set where the program really stops: a reader's
bounded number of calls, a finished discovery, inspection, command or tree, a
left TUI, a finished rendering. `config_cache` cannot stop and is checked for
deadlock.

Runs that expect a violation show where the code departs from what a document
of the repository says; each is a finding with its quotation in `PROJECT.json`.

| Run | What the counterexample shows |
|---|---|
| `inspect_no_list` | a conventional device without capabilities is `Available`, not `NotApplicable` |
| `session_unreadable` | a bridge with an unreadable header has its bridge field `NotApplicable` |
| `bridge_windows_design` | registers that are all zero are printed as a window of one granule, not as disabled; a full window, of size 0 in the text of a release build while a dev build panics, fails the property too |
| `bus_tree_hidden` | one bridge without bus numbers empties the tree; devices behind an unreadable inner window or on a bus that is nobody's secondary bus are missing too |

Other departures the models contain and no run of its own demonstrates:

* A cycle through exactly `MaxNodes` nodes is reported as `Truncated`, since the
  bound is tested before the visited set (`capability.rs:114`); `StatusExplains`
  therefore lets `Truncated` stand for both.
* Extended capabilities longer than the prefetched 0x60 bytes (VC, TPH,
  vendor-specific, DVSEC) lose their content (`session.rs:92`);
  `BoundedFormatsDecode` is about the other formats.
* `find_raw_device` scans the bus again on every call (`session.rs:183`), where
  `plans/2026-08-08-rust-lspci-list.md:347` wants one scan per session.
  `Session` models the growing list this leaves.
* A memory window whose base register has its reserved digit set is taken to
  start inside a granule (`header.rs:332`); `SizeIsExact` says that its size is
  exact from there, and that every other window has whole granules.
* `tree` tells buses apart by number only (`tree.rs:43`), the TUI by domain as
  well; `BusOf` of `BusTree` follows each. On a machine of two domains `tree`
  lists a device below the bridges of both, so `ParentIsInnermost` and
  `NothingElseLost` are stated of the TUI and of machines of one domain.
  `tree --format json` prints the text.
* The recursion of the tree has no bound of its own. It runs until the stack is
  full when a bridge's window leads back to a bus whose devices are being pushed:
  two bridges without bus numbers, 00:01.0 and 80:01.0, with 80 a host bridge's
  bus, or the BAR bytes of a device that has replaced a bridge between the scan
  and the reading of its window. `StackSuffices` says that a stack with a call
  for each bus number overflows in no other way: one of the buses is being
  pushed twice over and some window leads to its bridge's own bus or a lower
  one, which no window that firmware has numbered does.
* An unplugged device that an earlier scan of the session has found is still
  found (`session.rs:188`): `HandleIsNewest` permits it where nothing newer sits
  in the slot.
* The command line paints red the failures it prints itself, not those that
  come from `render_field` and `render_hex_field` (revision, programming
  interface, subsystem, parent, irq, driver) nor `interrupt: <unavailable>`;
  `Uncoloured` names them. In the TUI `colorize_detail` makes up for the former,
  and `FailuresAreRed` holds of those. A disabled or inapplicable value is never
  dimmed, which `color.rs:46` has `dim` for.
* Without colours the pane ends in an empty line more (`tui/styled.rs:64`);
  `PaneShowsReport` allows for it.
* The two interrupt registers share a line of the text, which gives no reason;
  `TextAndJsonAgree` asks less of it than of the other fields.

### Fairness

Weak fairness is assumed of the program's own steps only: the process is
scheduled, and each call into libpci returns. `ReaderStep` in `ConfigReader`,
the walk in `CapabilityWalk`, the steps of `BusTree` and `Program` in
`Session` carry it. Nothing is assumed of the machine, of the user or of the
firmware: `CommandEnds` leaves out the TUI, which may wait for a key forever,
and in `Session` a device may be plugged and unplugged at any step. The bound
`MaxPlugs` makes that happen finitely often; no liveness property needs it to
stop, because every program step stays enabled whatever the machine does.

## 4. Proofs

The theorems hold for every value of the constants; the named assumptions are
those of the modules (`ASSUME`), which TLC evaluates on each run. One theorem
about `BusTree` has a hypothesis of its own, see there. `PROJECT.json` lists
the results; what follows is the argument of each module.

* `ConfigCacheProofs`. `IInv` joins the types, `Settled` and the verdict.
  `VerdictSound` alone is not inductive: that a fetch of pending bytes ends in
  the right verdict needs that all bytes no longer pending are cached or failed.
  `Invariant` proves it from one lemma per action; `VerdictsSound` is its
  consequence and `FirstReadWins` the action property, by the same cases.
* `ConfigReaderProofs`. A cache is reasoned about as the bytes its segments
  show (`View`): the insertion, the sort and the merge of `insert_segment` are
  each shown to keep those bytes and the segments canonical, sequence by
  sequence. `IInv` joins the five invariants the run checks but the dump's with
  three of its own: where cursor and gap stand (`CursorInv`), that
  `first_failure` is set exactly if a byte already passed is not cached
  (`FailedInv`), and that during the first fetch failures and segments share
  out what has been passed (`FirstFetchInv`). `SegmentsCanonical` needs
  `WorkTilesGap`: a block may be inserted because nothing of it is cached, and
  that is so because the blocks of the stack tile what is left of the gap. Each
  lemma on an action says both that `IInv` is kept and which step of
  `ConfigCache` it is, or that `ConfigCache` sees nothing of it. So `Refinement`
  is the whole of `RefinesCache`, and `FirstReadWins` carries `ConfigCache`'s
  action property over to the reader. `DumpAlwaysShowsCache` follows from
  canonical segments alone: division says which row of a segment shows which
  byte (`SegmentRows`), and by induction on the number of segments a dump of
  the first `n` of them shows what these hold, its rows one behind another
  (`DumpRenders`). Assumed: the constants are numbers, a
  C `int` is no wider than 32 bits, a block has at least one byte.
* `CapabilityWalkProofs`. `IInv` joins the types, the shape of both finished
  lists and of the list of the walk (in range, aligned, linked, distinct), that
  `visited` is the set of its offsets, and that the cursor is where the last
  node points. The link between `current` and the last node is what makes the
  appended list linked again, `visited` what makes it distinct.
  `AppendListOK` is the lemma on sequences behind it. `TypeCorrect`,
  `WellFormedChains` follow; `StatusesExplain` is a second induction on top of
  `IInv`, by the exits of the loop, and `NodesAlwaysPreserved` the action
  property, by the same cases.
* `InspectProofs`. Every step reads into the one cache, so `IInv` says what each
  loop has brought in so far: `WalkInv`, that a list follows the device's
  pointers, that the next one leads to a place where a header may be while the
  list is walked, and that a list no longer walked has `Ended` for the reason
  the device gives (`OwnReason`) or for want of a byte it did not answer for;
  `HeldInv`, that of the capabilities a loop has handled the windows and vendor
  payloads are cached as far as the device answers for them; `AnsweredInv`, that
  a device that answers for its standard space has a readable header;
  `HeaderInv`, that content and field are what follows from the cache. The reads
  need two facts: a fetch brings in any range that is answered, however it is
  cut into gaps and blocks (`ReadRange`'s recursion on the length), and takes
  nothing out. With the exits of the loop, `DiscoversInv` says once what a list
  and its status have to be for `WalkInv` to hold after any of them.
  `FailureAlwaysLocal` reads that off the invariant, `FieldAlwaysJustified` from
  what the reasons say of the device (`EmptyReason`, `NotPresentReason`).
  `BoundedFormatsAlwaysDecode` then is that the bytes each format of bounded
  size needs lie in its window (format by format, for any offset and any
  optional part), `VendorPayloadAlwaysDecodes` that window and tail meet.
  `VfBarsAlwaysTile` is about the registers in order: which of them are visited
  determines which BAR owns the next. Assumed: `DevicesAssumption`, pointers fit
  their fields and a length byte is a byte; the capabilities lie anywhere on the
  dwords of the two spaces, overlap as they like, and their pointers lead where
  they like, in circles and past the bounds on the nodes included.
* `SessionProofs`. libpci puts what a scan finds in front of what it has found
  before, so the invariant is about places in the list: the entries of the last
  scan are its first `n`, one for each device the machine had (`ListInv`), and
  those of the snapshot are further down, unmoved and in order (`SnapshotInv`).
  From the first follows `HandleIsNewest` (`find` takes the first match), from
  the second `SnapshotIsOneScan`, and `FoundStaysFound` from both.
  `TextAndJsonAlwaysAgree` needs no more of the state than that an inspection
  has a state for each field; its proof goes through the pieces of each line.
  Assumed: finitely many slots, fields and commands are those of the program.
* `BridgeWindowsProofs`. The arithmetic of `render_window_size` for any scale,
  reserved digit, number of register values and integer width: the size wraps
  exactly for the window that fills the integer, no unit rounds, and from the
  start of a granule to the limit there are whole granules (`GranulesBetween`).
  `IInv` says that the header is decoded from one pair of values and what is
  printed follows from it. Assumed, beside `WidthAssumption`: JSON counts in 64
  bits what the I/O and the memory window hold in 32 (`JsonAssumption`), which
  is why a prefetchable window is the only one that makes the JSON renderer
  panic.
* `BusTreeProofs`. `IInv` joins the types, `Forest` and `Stack`: the call at
  depth `i` pushes below a row of depth `i - 1` after which nothing has come but
  rows below it. That is what makes a pushed row hang where `TreeShape` wants
  it, whatever the windows hold. `StackInv` adds that the calls follow the
  windows. On it rest the other three: `StackAlwaysSuffices` is the pigeonhole
  on the buses of a crash, more than there are numbers: two are the same, and
  they cannot rise all the way, so a window leads back (`BusesCannotRise`);
  `InnerInv` says of each call that as many windows are over its bus as calls
  are below it, the smallest of them its parent's. For `NothingElseIsLost`,
  `OnceInv` says that no bus is entered twice: one the loop has still to visit
  is covered if it has been entered, and a bridge that leads to an entered bus
  has been listed, which one bridge only does (`SecondaryApart`). `KeptInv` says
  that no device is left behind: its bus is covered or yet to come, or it is
  listed or waits in a call, and a listed bridge's devices are or do. So at the
  end an unlisted device has a bridge above it that has no window or is not
  listed itself, and induction on the number of windows over it ends at one
  without. Assumed: a finite set of devices in each topology, bytes for bus
  numbers, a stack for at least one call. `StackAlwaysSuffices` has one
  hypothesis, `BusNumbersFit`, a stack with a call for each bus number (256 are
  enough), and none about the windows. The other two have none; what they need
  of the firmware is a condition of the properties themselves: `AsConfigured`,
  with windows nested as their bridges are (`Nested`), and, for the devices
  lost, `Reached`, a bridge to every bus in a window that has a device on it,
  which the bus of a virtual function is not (`bus_tree_hidden` shows what is
  lost then). `MCBusTree` asserts that the numbered topologies satisfy both,
  and all of them `BusNumbersFit`.
* `TuiAppProofs`. `visible_rows` jumps over subtrees by depth alone. In a forest
  in preorder (`TreesAssumption`, which is what `BusTreeProofs!RowsAlwaysPreorder`
  proves of the rows the program makes) the rows before the next sibling of a
  row are the row and those it is an ancestor of, so the recursive `VisibleRows`
  lists, in order, the rows all of whose ancestors are unfolded or match. `IInv`
  says that of the list, and of cursor, offset, detail, scroll and guard what
  the handlers must keep; `CursorAlwaysOnScreen`, `DetailAlwaysFollows`,
  `ListAlwaysCurrent` and `TerminalAlwaysRestored` follow from it.
  `FoldingAlwaysKeepsRow`, the action property, compares the lists before and
  after: the rows up to the cursor are the same.
  The last part of the module is about text, with `ReportsAssumption`: a report
  is any assignment of states to fields. Written output is read back by a
  scanner, piece by piece, so the proof is about parts of a line. `Means` says
  of one that wherever it stands in a line, scanned in some style it shows this
  text in these styles and leaves that style; parts joined mean what the parts
  mean one after the other (`MeansConcat`), a plain piece means itself
  (`MeansPiece`), a sequence nothing but its style (`MeansSgr`). Hence the
  meaning of a painted word, of a dimmed label, of a value that
  `colorize_detail` wraps in red around what the printer painted already. `Twin`
  is what follows for a line: its coloured print, colourized and scanned, shows
  its plain print, red exactly from the colon on if that tells of a failure, and
  leaves the default style. All lines of a report are twins (`BodyTwin`), field
  by field, state by state; since no style outlives a line, the pane is the
  lines' spans one by one (`TextScanned`). `PanesFaithful` and
  `PanesTruthfullyRed` say so of every pane there can be, and by `IInv` the one
  on the screen is one of them (`OneOfThePanes`). Assumed of the bounds: they
  are numbers.

The prover has no induction over data. Where a proof needs one, on the length of
a sequence or down a recursive function, it is stated as a set of numbers and
the lemma `Induct` applied to it, which each module that needs it proves from
the library's `WFMin`; a recursive function is first shown to
satisfy its equation. Sorting (`Sorted` of `BusTree`, the segments of
`ConfigReader`) is by rank or by insertion, whose properties are lemmas. To keep
the theorems of `BusTree` within reach of the prover, its sort and its windows
are written with functions instead of the library's `SetToSortSeq`, `:>` and
`@@`, which the prover does not know.

Only model-checked: liveness (`EveryCallReturns`, `DiscoveryEnds`,
`CommandEnds`, `BuildEnds`), which the prover cannot do. Every invariant and
every action property that a passing run checks is the subject of a theorem.

## 5. Not modelled

* The wording and indentation of available values, the text of the device
  list, vendor and capability names: formatting of values that no other code
  reads back.
* The bits of command, status, BIST, BAR and of most capabilities: masks of one
  word with no state and no decision that depends on them. The exceptions
  (bridge windows, VF BARs, the lengths inside a capability) are modelled.
* `PciAddress`: parsing and printing a string of fixed columns in one pass; a
  model of it would be the string put together character by character.
* `cli.rs`: declarations for `clap`. The commands they lead to are `Session`'s.
* `draw`'s division of the window, the status line and titles: layout.
* Sequences other than SGR in `text_from_ansi`, and one that does not end in
  its line: nothing the program prints contains one.
* Domains wider than 16 bits, which libpci reports as one and the same
  (`session.rs:203`): addresses are unique in every module.
* libpci: external, with the outcomes the code tests for. Its error callback
  is left at the default, which ends the process; what the terminal looks like
  afterwards is libpci's doing and not modelled.

## 6. Plan

Done: the cache and its refinement, the walker, inspection, session, bridge
windows, bus tree, terminal UI, rendering and styled text, and the proofs of
section 4. Left, most important first:

1. **Compose.** `ConfigReader` as the reader of `CapabilityWalk`, so that the
   walk's answers come from a changing device through the cache. Today the
   walk's device answers each read with anything, which includes those answers.
