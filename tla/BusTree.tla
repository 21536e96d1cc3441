------------------------------ MODULE BusTree -------------------------------
(***************************************************************************)
(* The bus tree: crates/lspci-rs/src/tui/tree.rs (TreeModel::build), with  *)
(* the bridge windows of crates/lspci-rs/src/tree.rs, and that file's      *)
(* render_tree, which builds the same tree as text but tells buses apart   *)
(* by their number only, whatever their domain.                            *)
(*                                                                         *)
(* First the bus window of every bridge is read, then every bus that no    *)
(* window covers becomes a top-level row, under which the devices of the   *)
(* bus are pushed, each bridge followed by the devices of its secondary    *)
(* bus.  The recursion is the stack frames, and it ends in a crash when    *)
(* the stack is full.  A row of depth 0 stands for the "-[dddd:bb]-" in    *)
(* front of render_tree's first device.                                    *)
(*                                                                         *)
(* The windows are read after the scan and from whatever sits in the slot  *)
(* by then: the bytes are taken for bus numbers without a look at the      *)
(* header type, so a device plugged in for a bridge gives the bytes of one *)
(* of its BARs.                                                            *)
(***************************************************************************)
EXTENDS Integers, SequencesExt, FiniteSetsExt

CONSTANTS
  Topologies,     \* renderer -> set of topologies [devices, window]: devices is
                  \* a set of [domain, bus, slot], window maps each bridge to
                  \* the [secondary, subordinate] its registers hold
  MaxUnreadable,  \* bound: how many windows cannot be read
  Foreign,        \* what a device that is no bridge may hold at the place of
                  \* the two bus numbers: set of [secondary, subordinate]
  MaxReplaced,    \* bound: how many bridges are replaced after the scan
  StackSize       \* how many calls of push_bus_devices the stack holds

Address == [domain : Nat, bus : Nat, slot : Nat]
Window  == [secondary : Nat, subordinate : Nat]

ASSUME TopologiesAssumption ==
  /\ DOMAIN Topologies \subseteq {"tui", "cli"}
  /\ \A r \in DOMAIN Topologies : \A t \in Topologies[r] :
       /\ t.devices \subseteq Address /\ IsFiniteSet(t.devices)
       /\ DOMAIN t.window \subseteq t.devices
       /\ \A b \in DOMAIN t.window : t.window[b] \in Window
ASSUME ForeignAssumption == Foreign \subseteq Window
ASSUME StackAssumption == StackSize \in Nat \ {0}

VARIABLES
  renderer,   \* "tui" (TreeModel::build) or "cli" (render_tree)
  topology,   \* external: the devices and bridges of the machine
  unread,     \* bridges collect_bridge_windows has still to visit
  windows,    \* what it returned: bridge -> [secondary, subordinate]
  buses,      \* top-level candidates the loop has still to visit
  frames,     \* active calls of push_bus_devices, innermost last
  crashed,    \* the stack has overflowed
  rows        \* TreeModel.rows: Seq of [kind, at, depth, parent, expandable]

vars == <<renderer, topology, unread, windows, buses, frames, crashed, rows>>

Bridges == DOMAIN topology.window

AddressLess(a, b) ==
  \/ a.slot < b.slot
  \/ a.slot = b.slot /\ a.domain < b.domain

BusLess(a, b) ==
  \/ a.domain < b.domain
  \/ a.domain = b.domain /\ a.bus < b.bus

(* render_tree drops the domain of a bus. *)
BusOf(a) == [domain |-> IF renderer = "tui" THEN a.domain ELSE 0, bus |-> a.bus]

(* S by Less: the element at i is the one i - 1 others are less than.  (What *)
(* SetToSortSeq returns; that one ends in an operator without a definition.) *)
Sorted(S, Less(_, _)) ==
  [i \in 1..Cardinality(S) |->
     CHOOSE a \in S : Cardinality({b \in S : Less(b, a)}) = i - 1]

DevicesOn(bus) ==
  Sorted({a \in topology.devices : BusOf(a) = bus}, AddressLess)

InWindow(w, bus) == bus \in w.secondary .. w.subordinate

(* Mutant: only the secondary bus counts as covered. *)
Mut_CoveredSecondary(bus) ==
  \E b \in DOMAIN windows :
    BusOf(b).domain = bus.domain /\ windows[b].secondary = bus.bus

(* Mutant: a window covers its bus numbers in every domain. *)
Mut_CoveredAnyDomain(bus) ==
  \E b \in DOMAIN windows : InWindow(windows[b], bus.bus)

Covered(bus) ==
  \E b \in DOMAIN windows :
    BusOf(b).domain = bus.domain /\ InWindow(windows[b], bus.bus)

Row(kind, at, depth, parent, expandable) ==
  [kind |-> kind, at |-> at, depth |-> depth, parent |-> parent,
   expandable |-> expandable]

Frame(bus, parent, depth) ==
  [bus |-> bus, todo |-> DevicesOn(bus), parent |-> parent, depth |-> depth]

-----------------------------------------------------------------------------

Init ==
  /\ renderer \in DOMAIN Topologies
  /\ topology \in Topologies[renderer]
  /\ unread = Bridges
  /\ windows = << >>
  /\ buses = Sorted({BusOf(a) : a \in topology.devices}, BusLess)
  /\ frames = << >> /\ crashed = FALSE
  /\ rows = << >>

(* The next bridge of the snapshot; in which order they come is all the same. *)
NextBridge == CHOOSE b \in unread : TRUE

WithWindow(w) ==
  [b \in DOMAIN windows \cup {NextBridge} |-> IF b = NextBridge THEN w ELSE windows[b]]

Visit(known) ==
  /\ unread' = unread \ {NextBridge}
  /\ windows' = known
  /\ UNCHANGED <<renderer, topology, buses, frames, crashed, rows>>

(* collect_bridge_windows, one bridge: read_config and read succeed ...     *)
ReadWindow ==
  /\ unread # {}
  /\ Visit(WithWindow(topology.window[NextBridge]))

(* ... or one of them fails, and the bridge gets no window ...             *)
WindowUnreadable ==
  /\ unread # {}
  /\ Cardinality(Bridges \ (unread \cup DOMAIN windows)) < MaxUnreadable
  /\ Visit(windows)

Replaced == {b \in DOMAIN windows : windows[b] # topology.window[b]}

(* ... or the slot holds another device by now.                             *)
WindowForeign ==
  /\ unread # {}
  /\ Cardinality(Replaced) < MaxReplaced
  /\ \E w \in Foreign : Visit(WithWindow(w))

AtBus == unread = {} /\ frames = << >> /\ buses # << >>

(* Mutant: the loop does not go on after a covered bus. *)
Mut_SkipBusStays == AtBus /\ Covered(Head(buses)) /\ UNCHANGED vars

(* The loop over the buses: a covered bus is passed over ... *)
SkipBus ==
  /\ AtBus /\ Covered(Head(buses))
  /\ buses' = Tail(buses)
  /\ UNCHANGED <<renderer, topology, unread, windows, frames, crashed, rows>>

(* ... any other becomes a row, labelled by the domain of its first device. *)
PushBus ==
  LET bus == Head(buses)
  IN
  /\ AtBus /\ ~Covered(bus)
  /\ buses' = Tail(buses)
  /\ rows' = Append(rows, Row("bus", DevicesOn(bus)[1], 0, 0, TRUE))
  /\ frames' = <<Frame(bus, Len(rows'), 1)>>
  /\ UNCHANGED <<renderer, topology, unread, windows, crashed>>

AtDevice == ~crashed /\ frames # << >> /\ Last(frames).todo # << >>

(* The rest of a turn: the calls it makes, one at most, go on the stack. *)
Turn(calls) ==
  IF Len(frames) + Len(calls) <= StackSize
  THEN /\ frames' = [frames EXCEPT ![Len(frames)].todo = Tail(@)] \o calls
       /\ UNCHANGED crashed
  ELSE /\ crashed' = TRUE
       /\ UNCHANGED frames

Secondary(a) == [BusOf(a) EXCEPT !.bus = windows[a].secondary]

(* Mutant: the index of a bridge is taken before its row is pushed. *)
Mut_BelowStaleIndex(a, depth) ==
  IF a \in DOMAIN windows THEN <<Frame(Secondary(a), Len(rows), depth + 1)>> ELSE << >>

(* Mutant: the recursion follows the bus of the bridge itself. *)
Mut_BelowOwnBus(a, depth) ==
  IF a \in DOMAIN windows THEN <<Frame(BusOf(a), Len(rows'), depth + 1)>> ELSE << >>

(* A bridge with a window calls push_bus_devices for its secondary bus. *)
Below(a, depth) ==
  IF a \in DOMAIN windows THEN <<Frame(Secondary(a), Len(rows'), depth + 1)>> ELSE << >>

(* One turn of the loop of push_bus_devices. *)
PushDevice ==
  LET top == Last(frames)
      a   == Head(top.todo)
  IN
  /\ AtDevice
  /\ rows' = Append(rows, Row("device", a, top.depth, top.parent, a \in DOMAIN windows))
  /\ Turn(Below(a, top.depth))
  /\ UNCHANGED <<renderer, topology, unread, windows, buses>>

PopFrame ==
  /\ ~crashed /\ frames # << >> /\ Last(frames).todo = << >>
  /\ frames' = Front(frames)
  /\ UNCHANGED <<renderer, topology, unread, windows, buses, crashed, rows>>

Built == unread = {} /\ buses = << >> /\ frames = << >>

Next ==
  \/ ReadWindow \/ WindowUnreadable \/ WindowForeign
  \/ SkipBus \/ PushBus \/ PushDevice \/ PopFrame

(* A single thread that waits for nothing. *)
Spec == Init /\ [][Next]_vars /\ WF_vars(Next)

-----------------------------------------------------------------------------

Listed == {rows[i].at : i \in {j \in DOMAIN rows : rows[j].kind = "device"}}

(* The bridges whose configured window holds the bus of a. *)
Above(a) == {b \in Bridges : b.domain = a.domain /\ InWindow(topology.window[b], a.bus)}

(* render_tree has merged the buses of several domains. *)
DomainsMerged == renderer = "cli" /\ Cardinality({a.domain : a \in topology.devices}) > 1

Size(b) == topology.window[b].subordinate - topology.window[b].secondary

(* The stack holds a call for every bus number a bridge can name.            *)
BusNumbersFit(topologies) ==
  /\ \A r \in DOMAIN topologies : \A t \in topologies[r] :
       /\ \A a \in t.devices : a.bus < StackSize
       /\ \A b \in DOMAIN t.window : t.window[b].secondary < StackSize
  /\ \A w \in Foreign : w.secondary < StackSize

(* Windows as firmware nests them: those that hold a bridge's secondary bus  *)
(* are its own and the ones that hold the bus it sits on, which are larger.  *)
Nested(t) ==
  \A b, c \in DOMAIN t.window :
    b.domain = c.domain =>
      LET above == InWindow(t.window[c], b.bus)
      IN /\ InWindow(t.window[c], t.window[b].secondary) <=> c = b \/ above
         /\ above => /\ c # b
                     /\ t.window[b].subordinate - t.window[b].secondary
                          <= t.window[c].subordinate - t.window[c].secondary

(* And as it leads to them: a bus a window holds is a bridge's secondary     *)
(* bus, if there is a device on it.                                          *)
Reached(t) ==
  \A a \in t.devices, c \in DOMAIN t.window :
    c.domain = a.domain /\ InWindow(t.window[c], a.bus) =>
      \E b \in DOMAIN t.window :
        b.domain = a.domain /\ t.window[b].secondary = a.bus

(* What the tree is built from is what firmware has set up, and in render_tree *)
(* of one domain.                                                              *)
AsConfigured == Replaced = {} /\ ~DomainsMerged /\ Nested(topology)

(* The variables have the types their comments give them.                   *)
TypeOK ==
  /\ renderer \in {"tui", "cli"} /\ topology \in Topologies[renderer]
  /\ unread \subseteq Bridges /\ DOMAIN windows \subseteq Bridges
  /\ \A b \in DOMAIN windows : windows[b] \in Foreign \cup {topology.window[b]}
  /\ \A i \in DOMAIN buses : buses[i] \in {BusOf(a) : a \in topology.devices}
  /\ \A i \in DOMAIN frames :
       /\ Range(frames[i].todo) \subseteq topology.devices
       /\ frames[i].parent \in DOMAIN rows /\ frames[i].depth = i
  /\ crashed \in BOOLEAN
  /\ \A i \in DOMAIN rows :
       /\ rows[i].kind \in {"bus", "device"} /\ rows[i].at \in topology.devices
       /\ rows[i].depth \in Nat /\ rows[i].parent \in Nat
       /\ rows[i].expandable \in BOOLEAN

(* rows is a forest in preorder, which next_sibling_index,                  *)
(* subtree_has_match and the jump to the parent take for granted: a row's   *)
(* parent precedes it one level up, can be unfolded, and every row between  *)
(* the two lies below that parent.  It is one whatever the windows hold.    *)
(* (With the types of the variables.)                                       *)
TreeShape ==
  /\ TypeOK
  /\ \A i \in DOMAIN rows :
       IF rows[i].kind = "bus" THEN rows[i].depth = 0
       ELSE LET p == rows[i].parent
            IN /\ p \in 1..(i - 1)
               /\ rows[p].depth = rows[i].depth - 1 /\ rows[p].expandable
               /\ \A j \in (p + 1)..(i - 1) : rows[j].depth > rows[p].depth

(* Where firmware nests the windows, each device hangs from the innermost   *)
(* bridge whose window holds its bus, as deep as such bridges are nested,   *)
(* and from its bus if there is none.  The code never looks for an          *)
(* innermost window: it follows secondary buses.  Devices of merged domains *)
(* may hang from a bridge of the other one.                                 *)
ParentIsInnermost ==
  AsConfigured =>
    \A i \in DOMAIN rows :
      rows[i].kind = "device" =>
        LET a == rows[i].at
            p == rows[rows[i].parent]
            W == Above(a) \cap DOMAIN windows
        IN /\ rows[i].depth = 1 + Cardinality(W)
           /\ IF W = {} THEN p.kind = "bus" /\ p.at.bus = a.bus
              ELSE p.at \in W /\ \A b \in W : Size(p.at) <= Size(b)

(* There no device is listed twice, and if a bridge leads to each bus, one  *)
(* that is not listed is below a bridge whose window could not be read and  *)
(* which a readable window covers.  Devices of merged domains are listed    *)
(* under the bridges of both.                                               *)
NothingElseLost ==
  AsConfigured =>
    /\ \A i, j \in DOMAIN rows :
         rows[i].kind = "device" /\ rows[j].kind = "device" /\ rows[i].at = rows[j].at
           => i = j
    /\ Built /\ Reached(topology) =>
         \A a \in topology.devices \ Listed :
           \E b \in Above(a) \ DOMAIN windows : Above(b) \cap DOMAIN windows # {}

(* push_bus_devices has no bound of its own.  A stack that holds a call for  *)
(* each bus number overflows only when the devices of a bus are being pushed *)
(* from within the push of that very bus, and then some window leads to its  *)
(* bridge's own bus or a lower one: that of a bridge nobody has given bus    *)
(* numbers, or of another device that sits in a bridge's slot by now.        *)
StackSuffices ==
  crashed =>
    LET calls == [i \in DOMAIN frames |-> frames[i].bus]
                   \o <<Secondary(Head(Last(frames).todo))>>
    IN /\ \E i, j \in DOMAIN calls : i # j /\ calls[i] = calls[j]
       /\ \E b \in DOMAIN windows : windows[b].secondary <= b.bus

(* The recursion along the secondary buses ends, by a crash at the worst.   *)
BuildEnds == <>[](Built \/ crashed)

(* The design of the tree command: a bridge whose window cannot be read is  *)
(* shown as an ordinary node, and a device belongs to the innermost bridge  *)
(* whose [secondary, subordinate] holds its bus: every device is shown.     *)
EveryDeviceListed == Built => Listed = topology.devices

=============================================================================
