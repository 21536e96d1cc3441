-------------------------- MODULE CapabilityWalk ---------------------------
(***************************************************************************)
(* crates/pci/src/capability.rs: discovery of the two capability chains.   *)
(*                                                                         *)
(* The standard chain starts where the header's pointer says, the extended *)
(* one at a fixed offset.  Each node's header names the next node; the     *)
(* device is not trusted, so a pointer may be anything of its width and a  *)
(* header may be unreadable or all zero.  Each header is read once, when   *)
(* the walk gets to it: what the device answers is chosen then.            *)
(***************************************************************************)
EXTENDS Integers, SequencesExt, FiniteSets

CONSTANTS
  StdFirst,     \* 0x40: where standard capabilities may start
  ExtFirst,     \* 0x100: end of the standard, start of the extended space
  ExtEnd,       \* 0x1000: end of the configuration space
  Align,        \* 4: capabilities start on a dword
  StdMaxNodes,  \* 48
  ExtMaxNodes,  \* 256
  Ids           \* capability ids

ASSUME LayoutAssumption ==
  /\ Align \in Nat \ {0}
  /\ StdFirst \in Nat \ {0} /\ ExtFirst \in Nat /\ ExtEnd \in Nat
  /\ StdFirst < ExtFirst /\ ExtFirst < ExtEnd
  /\ ExtFirst % Align = 0
  /\ StdMaxNodes \in Nat \ {0} /\ ExtMaxNodes \in Nat \ {0}

VARIABLES
  chain,    \* the chain being discovered: "standard", "extended", or "done"
  pc,       \* "start" before the chain is entered, "walk" inside walk_chain
  start,    \* the first pointer handed to walk_chain
  current,  \* walk_chain's current offset
  nodes,    \* walk_chain's capabilities
  visited,  \* walk_chain's visited offsets
  found     \* chain -> the ChainDiscovery returned: [capabilities, status]

vars == <<chain, pc, start, current, nodes, visited, found>>

Kind == {"standard", "extended"}

First(k)    == IF k = "standard" THEN StdFirst ELSE ExtFirst
Limit(k)    == IF k = "standard" THEN ExtFirst ELSE ExtEnd
MaxNodes(k) == IF k = "standard" THEN StdMaxNodes ELSE ExtMaxNodes

(* What a pointer field can hold: one byte, or twelve bits. *)
Pointers(k) == 0..(Limit(k) - 1)

InRange(k, p) == First(k) <= p /\ p < Limit(k)
Aligned(p)    == p % Align = 0

(* next = 0 stands for the code's None. *)
Node == [id: Ids, offset: Nat, next: Nat]

Status == {"Pending", "NotPresent", "Unavailable", "Complete", "Truncated",
           "InvalidNextPointer", "OffsetOutOfRange", "MisalignedOffset",
           "CycleDetected", "MissingHeader"}

Offsets(list) == {list[i].offset : i \in 1..Len(list)}

Init ==
  /\ chain = "standard" /\ pc = "start"
  /\ start = 0 /\ current = 0
  /\ nodes = << >> /\ visited = {}
  /\ found = [k \in Kind |-> [capabilities |-> << >>, status |-> "Pending"]]

(* The chain's discovery returns list and status; the other chain follows,  *)
(* whatever became of this one.                                             *)
Finish(list, status) ==
  /\ found' = [found EXCEPT ![chain] = [capabilities |-> list, status |-> status]]
  /\ chain' = IF chain = "standard" THEN "extended" ELSE "done"
  /\ pc' = "start"
  /\ nodes' = << >> /\ visited' = {}

(* discover_standard: the header cannot be read. *)
HeaderUnreadable ==
  /\ chain = "standard" /\ pc = "start"
  /\ Finish(<< >>, "Unavailable")
  /\ UNCHANGED <<start, current>>

(* The status register has no capability-list bit. *)
NoCapabilityList ==
  /\ chain = "standard" /\ pc = "start"
  /\ Finish(<< >>, "NotPresent")
  /\ UNCHANGED <<start, current>>

(* The first pointer is zero, outside the chain's space or misaligned. *)
BadStart(p) ==
  /\ chain = "standard" /\ pc = "start"
  /\ ~InRange(chain, p) \/ ~Aligned(p)
  /\ Finish(<< >>, IF p = 0 THEN "InvalidNextPointer"
                   ELSE IF ~InRange(chain, p) THEN "OffsetOutOfRange"
                   ELSE "MisalignedOffset")
  /\ UNCHANGED <<start, current>>

EnterChain(p) ==
  /\ chain \in Kind /\ pc = "start"
  /\ chain = "extended" => p = ExtFirst
  /\ InRange(chain, p) /\ Aligned(p)
  /\ pc' = "walk"
  /\ start' = p /\ current' = p
  /\ UNCHANGED <<chain, nodes, visited, found>>

(* The top of the loop: the list is full, or the offset was seen before. *)
TooMany ==
  /\ pc = "walk"
  /\ Len(nodes) >= MaxNodes(chain)
  /\ Finish(nodes, "Truncated")
  /\ UNCHANGED <<start, current>>

(* Mutant: an offset seen before is passed over. *)
Mut_CycleIgnored ==
  /\ pc = "walk" /\ Len(nodes) < MaxNodes(chain) /\ current \in visited
  /\ UNCHANGED vars

(* Mutant: a cycle costs the whole list. *)
Mut_CycleForgets ==
  /\ pc = "walk" /\ Len(nodes) < MaxNodes(chain) /\ current \in visited
  /\ Finish(<< >>, "CycleDetected")
  /\ UNCHANGED <<start, current>>

Cycle ==
  /\ pc = "walk"
  /\ Len(nodes) < MaxNodes(chain)
  /\ current \in visited
  /\ Finish(nodes, "CycleDetected")
  /\ UNCHANGED <<start, current>>

(* Mutant: no cycle check. *)
Mut_ReadsAnyHeader == pc = "walk" /\ Len(nodes) < MaxNodes(chain)

ReadsHeader ==
  /\ pc = "walk"
  /\ Len(nodes) < MaxNodes(chain)
  /\ current \notin visited

(* Mutant: the list before the failure is not considered. *)
Mut_ReadFailsUnavailable ==
  /\ ReadsHeader
  /\ Finish(nodes, "Unavailable")
  /\ UNCHANGED <<start, current>>

(* The header's bytes cannot be read. *)
ReadFails ==
  /\ ReadsHeader
  /\ Finish(nodes, IF nodes = << >> THEN "Unavailable" ELSE "Truncated")
  /\ UNCHANGED <<start, current>>

(* They are all zero: the extended space may be absent, a node may not. *)
ReadZero ==
  /\ ReadsHeader
  /\ Finish(nodes, IF nodes = << >> /\ chain = "extended" /\ current = ExtFirst
                   THEN "NotPresent" ELSE "MissingHeader")
  /\ UNCHANGED <<start, current>>

(* Mutant: the pointer is taken relative to the node. *)
Mut_ReadNodeRelative(id, next) ==
  /\ ReadsHeader
  /\ next # 0 /\ InRange(chain, next) /\ Aligned(next)
  /\ nodes' = Append(nodes, [id |-> id, offset |-> current, next |-> next])
  /\ visited' = visited \cup {current}
  /\ current' = next - current
  /\ UNCHANGED <<chain, pc, start, found>>

(* A node: it joins the list, and its pointer decides how to go on. *)
ReadNode(id, next) ==
  LET list == Append(nodes, [id |-> id, offset |-> current, next |-> next])
  IN
  /\ ReadsHeader
  /\ IF next # 0 /\ InRange(chain, next) /\ Aligned(next)
     THEN /\ nodes' = list
          /\ visited' = visited \cup {current}
          /\ current' = next
          /\ UNCHANGED <<chain, pc, start, found>>
     ELSE /\ Finish(list, IF next = 0 THEN "Complete"
                          ELSE IF ~InRange(chain, next) THEN "OffsetOutOfRange"
                          ELSE "MisalignedOffset")
          /\ UNCHANGED <<start, current>>

Walk ==
  \/ TooMany \/ Cycle \/ ReadFails \/ ReadZero
  \/ \E id \in Ids, next \in Pointers(chain) : ReadNode(id, next)

Next ==
  \/ HeaderUnreadable
  \/ NoCapabilityList
  \/ \E p \in Pointers("standard") : BadStart(p)
  \/ \E p \in Pointers(chain) : EnterChain(p)
  \/ Walk

(* discover runs to its end: one thread, no call that waits. *)
Spec == Init /\ [][Next]_vars /\ WF_vars(Next)

-----------------------------------------------------------------------------
(* Invariants *)

TypeOK ==
  /\ chain \in Kind \cup {"done"}
  /\ pc \in {"start", "walk"}
  /\ start \in Nat /\ current \in Nat
  /\ nodes \in Seq(Node)
  /\ visited \subseteq Nat
  /\ found \in [Kind -> [capabilities: Seq(Node), status: Status]]

(* A list of capabilities the decoders can be pointed at: every node starts *)
(* inside its own space on a dword boundary, and each pointer but the last  *)
(* names the node that follows it.                                          *)
WellPlaced(k, list) ==
  \A i \in 1..Len(list) : InRange(k, list[i].offset) /\ Aligned(list[i].offset)

Linked(list) ==
  \A i \in 1..(Len(list) - 1) : list[i].next = list[i + 1].offset

(* No offset is listed twice: a looping chain is cut before it repeats.     *)
Distinct(list) ==
  \A i, j \in 1..Len(list) : list[i].offset = list[j].offset => i = j

(* Whatever the device answers, the chain being walked and both reported    *)
(* chains are bounded, well placed, linked and free of repetitions.         *)
ChainsWellFormed ==
  /\ \A k \in Kind :
       LET list == found[k].capabilities
       IN /\ Len(list) <= MaxNodes(k)
          /\ WellPlaced(k, list) /\ Linked(list) /\ Distinct(list)
  /\ chain \in Kind =>
       /\ Len(nodes) <= MaxNodes(chain)
       /\ WellPlaced(chain, nodes) /\ Linked(nodes) /\ Distinct(nodes)

LastNext(list) == list[Len(list)].next

(* What a status says of the list it comes with: whether there is one, and  *)
(* where its last pointer leads.                                            *)
Explains(k, list, status) ==
  /\ status \in {"Pending", "NotPresent", "Unavailable", "InvalidNextPointer"}
       => list = << >>
  /\ status \in {"Complete", "Truncated", "CycleDetected"} => list # << >>
  /\ list # << >> =>
       LET next == LastNext(list)
       IN /\ status = "Complete" <=> next = 0
          /\ status = "OffsetOutOfRange" <=> next # 0 /\ ~InRange(k, next)
          /\ status = "MisalignedOffset" <=> InRange(k, next) /\ ~Aligned(next)
          /\ status = "CycleDetected" => next \in Offsets(list)
          /\ status = "MissingHeader" => next \notin Offsets(list)

(* The status reported with a chain is the true reason why its list ends    *)
(* where it does, for each of the ways a walk can end.                      *)
StatusExplains ==
  \A k \in Kind : Explains(k, found[k].capabilities, found[k].status)

(* A walk in progress stands on its start or where its last node points,    *)
(* and remembers exactly the nodes it has listed; the chains discovered are *)
(* the ones before it.                                                      *)
WalkState ==
  /\ visited = Offsets(nodes)
  /\ pc = "start" => nodes = << >>
  /\ pc = "walk" =>
       /\ chain \in Kind
       /\ InRange(chain, current) /\ Aligned(current)
       /\ current = IF nodes = << >> THEN start ELSE LastNext(nodes)
  /\ \A k \in Kind : found[k].status = "Pending" <=>
       k = chain \/ (k = "extended" /\ chain = "standard")

(* Entries found before a failure are kept: the list grows at its end, and  *)
(* what a discovery returns contains all that its walk has listed.          *)
NodesPreserved ==
  [][/\ pc = "walk" /\ pc' = "walk" => IsPrefix(nodes, nodes')
     /\ \A k \in Kind :
          found'[k] # found[k] =>
            /\ k = chain /\ found[k].status = "Pending"
            /\ IsPrefix(nodes, found'[k].capabilities)]_vars

(* Discovery ends for every device, one whose chains loop included.         *)
DiscoveryEnds == <>(chain = "done")
=============================================================================
