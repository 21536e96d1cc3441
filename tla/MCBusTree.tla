----------------------------- MODULE MCBusTree ------------------------------
(* Topologies firmware sets up: up to LastBus + 1 buses of a domain, numbered *)
(* depth first, each below a host bridge of its own or below a bridge of a    *)
(* lower bus, with or without an endpoint on it; a second domain reuses the   *)
(* bus numbers of the first.                                                  *)
EXTENDS BusTree

LastBus == 3

(* Parent functions, Host for a bus that hangs from a host bridge. *)
Host == -1

Depthwise(up) ==
  LET below[b \in 0..LastBus] ==
        {b} \cup UNION {below[c] : c \in {d \in (b + 1)..LastBus : up[d] = b}}
      last(b) == Max(below[b])
  IN [b \in 0..LastBus |-> last(b)]

Parents ==
  {up \in [0..LastBus -> Host..(LastBus - 1)] :
     /\ \A b \in 0..LastBus : up[b] < b
     /\ \A b, c \in 0..LastBus :
          b < c /\ c <= Depthwise(up)[b] => up[c] >= b}

(* Slot 0 holds a bus's endpoint, slot c the bridge to bus c.  A bridge      *)
(* reserves its window even where no device has been found.                  *)
Endpoint(d, b) == [domain |-> d, bus |-> b, slot |-> 0]
Bridge(d, b, c) == [domain |-> d, bus |-> b, slot |-> c]

Machine(d, up, populated) ==
  LET below == {c \in 0..LastBus : up[c] # Host}
  IN [devices |-> {Endpoint(d, b) : b \in populated}
                    \cup {Bridge(d, up[c], c) : c \in below},
      window  |-> [a \in {Bridge(d, up[c], c) : c \in below} |->
                     [secondary |-> a.slot, subordinate |-> Depthwise(up)[a.slot]]]]

Join(m, n) == [devices |-> m.devices \cup n.devices,
               window  |-> [a \in DOMAIN m.window \cup DOMAIN n.window |->
                              IF a \in DOMAIN m.window THEN m.window[a]
                              ELSE n.window[a]]]

Single == {Machine(0, up, p) : up \in Parents, p \in {{0, 1, 2, 3}, {0, 2}, {1, 3}}}

(* The second domain: a bus, or two of them and a bridge. *)
Second ==
  {[devices |-> {Endpoint(1, 0)}, window |-> << >>],
   [devices |-> {Bridge(1, 0, 1), Endpoint(1, 1)},
    window  |-> [a \in {Bridge(1, 0, 1)} |-> [secondary |-> 1, subordinate |-> 2]]]}

Double == {Join(m, n) : m \in Single, n \in Second}

(* A function of a bus number past the secondary one, as SR-IOV hands out:   *)
(* no bridge leads to it.                                                    *)
VirtualFunction ==
  [devices |-> {Bridge(0, 0, 1), Endpoint(0, 1), Endpoint(0, 2)},
   window  |-> [a \in {Bridge(0, 0, 1)} |-> [secondary |-> 1, subordinate |-> 2]]]

(* A bridge below the host bus's bridge that nobody has given bus numbers:   *)
(* its registers read as zero.                                               *)
Unconfigured ==
  [devices |-> {Endpoint(0, 0), Bridge(0, 0, 1), Endpoint(0, 1), Bridge(0, 1, 2)},
   window  |-> [a \in {Bridge(0, 0, 1), Bridge(0, 1, 2)} |->
                  IF a.bus = 0 THEN [secondary |-> 1, subordinate |-> 1]
                  ELSE [secondary |-> 0, subordinate |-> 0]]]

(* BAR bytes of a device that took a bridge's place: no BAR, and addresses    *)
(* that read as a window over the machine's own buses.                        *)
Bars == {[secondary |-> 0, subordinate |-> 0], [secondary |-> 1, subordinate |-> 1],
         [secondary |-> 2, subordinate |-> 1], [secondary |-> 1, subordinate |-> 3]}

(* Bridges without bus numbers below two host bridges, buses 0 and 3: the    *)
(* window [0, 0] of either covers bus 0 and leads there, from bus 3 as well. *)
Unnumbered ==
  LET bridges == {Bridge(0, 0, 1), Bridge(0, 3, 1)}
  IN {[devices |-> bridges \cup endpoints,
       window  |-> [b \in bridges |-> [secondary |-> 0, subordinate |-> 0]]] :
        endpoints \in SUBSET {Endpoint(0, 0), Endpoint(0, 3)}}

Machines == Single \cup Double \cup Unnumbered \cup {VirtualFunction, Unconfigured}
Anything == [tui |-> Machines, cli |-> Machines]

(* The hypothesis of BusTreeProofs; and the topologies above that firmware   *)
(* has numbered are what the invariants ask them to be.                      *)
ASSUME BusNumbersAssumption == BusNumbersFit(Anything)
ASSUME ConfiguredAssumption == \A t \in Single \cup Double : Nested(t) /\ Reached(t)

Hidden == [tui |-> Single \cup {VirtualFunction, Unconfigured},
           cli |-> Single \cup {VirtualFunction, Unconfigured}]
=============================================================================
