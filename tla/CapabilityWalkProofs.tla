------------------------ MODULE CapabilityWalkProofs ------------------------
(***************************************************************************)
(* Proofs about capability discovery, for every layout of the              *)
(* configuration space that satisfies LayoutAssumption.                    *)
(***************************************************************************)
EXTENDS CapabilityWalk, TLAPS

(* The list a walk holds once the node at its current offset has joined it. *)
Extended(id, next) == Append(nodes, [id |-> id, offset |-> current, next |-> next])

(* What is true of a list: of nodes during the walk, of a result after it.  *)
ListOK(k, list) ==
  /\ list \in Seq(Node)
  /\ Len(list) <= MaxNodes(k)
  /\ WellPlaced(k, list)
  /\ Linked(list)
  /\ Distinct(list)

(* The layout in the form the steps use. *)
LEMMA LayoutFacts ==
  /\ ExtFirst \in Nat /\ ExtFirst % Align = 0
  /\ \A k \in Kind : /\ First(k) \in Nat \ {0} /\ Limit(k) \in Nat
                     /\ MaxNodes(k) \in Nat \ {0}
                     /\ Pointers(k) \subseteq Nat
BY LayoutAssumption DEF Kind, First, Limit, MaxNodes, Pointers

(* A chain nothing was read of is well formed.                               *)
LEMMA EmptyListOK == \A k \in Kind : ListOK(k, << >>)
BY LayoutFacts DEF ListOK, WellPlaced, Linked, Distinct

(* Appending a node keeps a list well formed: the new offset was not        *)
(* visited, and it is the one the last node points to.                      *)
LEMMA AppendListOK ==
  ASSUME NEW k \in Kind, NEW list \in Seq(Node), NEW id \in Ids,
         NEW offset \in Nat, NEW next \in Nat,
         ListOK(k, list), Len(list) < MaxNodes(k),
         InRange(k, offset), Aligned(offset),
         offset \notin Offsets(list),
         list # << >> => LastNext(list) = offset
  PROVE  LET longer == Append(list, [id |-> id, offset |-> offset, next |-> next])
         IN /\ ListOK(k, longer)
            /\ longer # << >>
            /\ LastNext(longer) = next
            /\ Offsets(longer) = Offsets(list) \cup {offset}
<1> DEFINE node == [id |-> id, offset |-> offset, next |-> next]
           longer == Append(list, node)
<1>1. node \in Node /\ node.offset = offset /\ node.next = next
  BY DEF Node
<1>2. /\ longer \in Seq(Node)
      /\ Len(longer) = Len(list) + 1 /\ Len(list) \in Nat
      /\ longer[Len(list) + 1] = node
      /\ \A i \in 1..Len(list) : longer[i] = list[i]
  BY <1>1
<1> HIDE DEF node, longer
<1>3. Len(longer) <= MaxNodes(k)
  BY <1>2, LayoutFacts
<1>4. WellPlaced(k, longer)
  BY <1>1, <1>2 DEF ListOK, WellPlaced
<1>5. Linked(longer)
  <2> SUFFICES ASSUME NEW i \in 1..(Len(longer) - 1)
               PROVE  longer[i].next = longer[i + 1].offset
    BY DEF Linked
  <2>1. CASE i = Len(list)
    <3>1. list # << >>
      BY <2>1
    <3>2. LastNext(list) = offset
      BY <3>1
    <3> QED
      BY <2>1, <3>2, <1>1, <1>2 DEF LastNext
  <2>2. CASE i < Len(list)
    BY <2>2, <1>2 DEF ListOK, Linked
  <2> QED
    BY <2>1, <2>2, <1>2
<1>6. Distinct(longer)
  BY <1>1, <1>2 DEF ListOK, Distinct, Offsets
<1>7. longer # << >> /\ LastNext(longer) = next
  BY <1>1, <1>2 DEF LastNext
<1>8. Offsets(longer) = Offsets(list) \cup {offset}
  <2>1. 1..Len(longer) = (1..Len(list)) \cup {Len(list) + 1}
    BY <1>2
  <2>2. Offsets(longer) = {longer[i].offset : i \in 1..Len(longer)}
    BY <1>2 DEF Offsets
  <2>3. Offsets(list) = {list[i].offset : i \in 1..Len(list)}
    BY DEF Offsets
  <2>4. longer[Len(list) + 1].offset = offset
    BY <1>1, <1>2
  <2> QED
    BY <2>1, <2>2, <2>3, <2>4, <1>2
<1> QED
  BY <1>2, <1>3, <1>4, <1>5, <1>6, <1>7, <1>8 DEF ListOK, node, longer

-----------------------------------------------------------------------------
(* The inductive invariant: ChainsWellFormed alone is not inductive, since   *)
(* that a new node repeats no offset needs visited to be the offsets listed, *)
(* and that it is linked needs current to be where the last node points.     *)
IInv == TypeOK /\ ChainsWellFormed /\ WalkState

(* The walk starts with two empty chains.                                    *)
LEMMA InitIInv == Init => IInv
<1> SUFFICES ASSUME Init PROVE IInv
  OBVIOUS
<1>1. \A k \in Kind : found[k] = [capabilities |-> << >>, status |-> "Pending"]
  BY DEF Init
<1>2. TypeOK
  BY DEF Init, TypeOK, Kind, Status
<1>3. ChainsWellFormed
  BY <1>1, EmptyListOK DEF Init, ChainsWellFormed, ListOK, Kind
<1>4. WalkState
  BY <1>1 DEF Init, WalkState, Offsets, Kind
<1> QED
  BY <1>2, <1>3, <1>4 DEF IInv

(* Returning a well formed list re-establishes the invariant.               *)
LEMMA FinishIInv ==
  ASSUME IInv, chain \in Kind,
         NEW list, ListOK(chain, list),
         NEW status \in Status \ {"Pending"},
         Finish(list, status), UNCHANGED <<start, current>>
  PROVE  IInv'
<1> USE DEF IInv
<1>1. /\ found' \in [Kind -> [capabilities: Seq(Node), status: Status]]
      /\ found'[chain] = [capabilities |-> list, status |-> status]
      /\ \A k \in Kind \ {chain} : found'[k] = found[k]
  BY DEF Finish, TypeOK, ListOK
<1>2. TypeOK'
  BY <1>1 DEF TypeOK, Finish, Kind
<1>3. ChainsWellFormed'
  <2>1. ASSUME NEW k \in Kind PROVE ListOK(k, found'[k].capabilities)
    <3>1. CASE k = chain
      BY <3>1, <1>1
    <3>2. CASE k # chain
      <4>1. found'[k] = found[k] /\ found[k].capabilities \in Seq(Node)
        BY <3>2, <1>1 DEF TypeOK
      <4> QED
        BY <4>1 DEF ListOK, ChainsWellFormed
    <3> QED
      BY <3>1, <3>2
  <2>2. \A k \in Kind : ListOK(k, nodes')
    BY EmptyListOK DEF Finish
  <2> QED
    BY <2>1, <2>2 DEF ChainsWellFormed, ListOK
<1>4. WalkState'
  <2>1. visited' = Offsets(nodes')
    BY DEF Finish, Offsets
  <2>2. ASSUME NEW k \in Kind
        PROVE  found'[k].status = "Pending" <=>
                 k = chain' \/ (k = "extended" /\ chain' = "standard")
    <3>1. CASE k = chain
      <4>1. found'[k].status # "Pending"
        BY <3>1, <1>1
      <4>2. chain' # k /\ chain' # "standard"
        BY <3>1 DEF Finish, Kind
      <4> QED
        BY <4>1, <4>2
    <3>2. CASE k # chain
      <4>1. found'[k].status = found[k].status
        BY <3>2, <1>1
      <4> QED
        BY <3>2, <4>1 DEF Finish, WalkState, Kind
    <3> QED
      BY <3>1, <3>2
  <2> QED
    BY <2>1, <2>2 DEF Finish, WalkState
<1> QED
  BY <1>2, <1>3, <1>4

(* A walk that starts a chain starts with an empty list.                     *)
LEMMA EnterIInv ==
  ASSUME IInv, NEW p \in Pointers(chain), EnterChain(p)
  PROVE  IInv'
<1>1. chain \in Kind /\ p \in Nat
  BY LayoutFacts DEF EnterChain
<1>2. TypeOK'
  BY <1>1 DEF IInv, TypeOK, EnterChain
<1>3. ChainsWellFormed'
  BY DEF IInv, ChainsWellFormed, EnterChain
<1>4. WalkState'
  BY <1>1 DEF IInv, WalkState, EnterChain
<1> QED
  BY <1>2, <1>3, <1>4 DEF IInv

(* A node that is read is appended at the place the pointer named.           *)
LEMMA ReadNodeIInv ==
  ASSUME IInv, NEW id \in Ids, NEW next \in Pointers(chain), ReadNode(id, next)
  PROVE  IInv'
<1> DEFINE list == Extended(id, next)
<1>1. /\ chain \in Kind /\ pc = "walk" /\ Len(nodes) < MaxNodes(chain)
      /\ current \notin visited
  BY DEF ReadNode, ReadsHeader, IInv, WalkState
<1>2. next \in Nat
  BY <1>1, LayoutFacts
<1>3. ListOK(chain, nodes)
  BY <1>1 DEF IInv, TypeOK, ChainsWellFormed, ListOK
<1>4. /\ ListOK(chain, list)
      /\ list # << >> /\ LastNext(list) = next
      /\ Offsets(list) = visited \cup {current}
  <2>1. /\ nodes \in Seq(Node) /\ current \in Nat
        /\ InRange(chain, current) /\ Aligned(current)
        /\ current \notin Offsets(nodes)
        /\ nodes # << >> => LastNext(nodes) = current
    BY <1>1 DEF IInv, TypeOK, WalkState
  <2> QED
    BY <1>1, <1>2, <1>3, <2>1, AppendListOK DEF Extended, IInv, WalkState
<1> HIDE DEF list
<1>5. CASE next # 0 /\ InRange(chain, next) /\ Aligned(next)
  <2>1. /\ nodes' = list /\ visited' = visited \cup {current} /\ current' = next
        /\ UNCHANGED <<chain, pc, start, found>>
    BY <1>5 DEF ReadNode, list, Extended
  <2>2. TypeOK'
    BY <2>1, <1>2, <1>4 DEF IInv, TypeOK, ListOK
  <2>3. ChainsWellFormed'
    BY <2>1, <1>4 DEF IInv, ChainsWellFormed, ListOK
  <2>4. WalkState'
    BY <2>1, <1>1, <1>4, <1>5 DEF IInv, WalkState
  <2> QED
    BY <2>2, <2>3, <2>4 DEF IInv
<1>6. CASE ~(next # 0 /\ InRange(chain, next) /\ Aligned(next))
  <2> DEFINE status == IF next = 0 THEN "Complete"
                       ELSE IF ~InRange(chain, next) THEN "OffsetOutOfRange"
                       ELSE "MisalignedOffset"
  <2>1. Finish(list, status) /\ UNCHANGED <<start, current>>
    BY <1>6 DEF ReadNode, list, Extended
  <2>2. status \in Status \ {"Pending"}
    BY DEF Status
  <2> QED
    BY <1>1, <1>4, <2>1, <2>2, FinishIInv
<1> QED
  BY <1>5, <1>6

(* Every step keeps the invariant.                                           *)
LEMMA NextIInv == IInv /\ [Next]_vars => IInv'
<1> SUFFICES ASSUME IInv, [Next]_vars PROVE IInv'
  OBVIOUS
<1>1. CASE HeaderUnreadable
  BY <1>1, FinishIInv, EmptyListOK DEF HeaderUnreadable, Kind, Status
<1>2. CASE NoCapabilityList
  BY <1>2, FinishIInv, EmptyListOK DEF NoCapabilityList, Kind, Status
<1>3. ASSUME NEW p \in Pointers("standard"), BadStart(p) PROVE IInv'
  <2> DEFINE status == IF p = 0 THEN "InvalidNextPointer"
                       ELSE IF ~InRange(chain, p) THEN "OffsetOutOfRange"
                       ELSE "MisalignedOffset"
  <2>1. status \in Status \ {"Pending"}
    BY DEF Status
  <2>2. /\ Finish(<< >>, status) /\ UNCHANGED <<start, current>>
        /\ chain \in Kind
    BY <1>3 DEF BadStart, Kind
  <2> HIDE DEF status
  <2> QED
    BY <2>1, <2>2, FinishIInv, EmptyListOK
<1>4. ASSUME NEW p \in Pointers(chain), EnterChain(p) PROVE IInv'
  BY <1>4, EnterIInv
<1>5. CASE TooMany \/ Cycle \/ ReadFails \/ ReadZero
  <2>1. PICK status \in Status \ {"Pending"} :
          Finish(nodes, status) /\ UNCHANGED <<start, current>>
    BY <1>5 DEF TooMany, Cycle, ReadFails, ReadZero, Status
  <2>2. chain \in Kind /\ ListOK(chain, nodes)
    BY <1>5 DEF TooMany, Cycle, ReadFails, ReadZero, ReadsHeader,
                IInv, TypeOK, WalkState, ChainsWellFormed, ListOK
  <2> QED
    BY <2>1, <2>2, FinishIInv
<1>6. ASSUME NEW id \in Ids, NEW next \in Pointers(chain), ReadNode(id, next)
      PROVE  IInv'
  BY <1>6, ReadNodeIInv
<1>7. CASE UNCHANGED vars
  BY <1>7 DEF vars, IInv, TypeOK, ChainsWellFormed, WalkState
<1> QED
  BY <1>1, <1>2, <1>3, <1>4, <1>5, <1>6, <1>7 DEF Next, Walk

-----------------------------------------------------------------------------
(* The status of a chain is settled when its discovery returns.             *)
LEMMA FinishExplains ==
  ASSUME IInv, StatusExplains, chain \in Kind,
         NEW list, NEW status, Explains(chain, list, status),
         Finish(list, status)
  PROVE  StatusExplains'
<1> SUFFICES ASSUME NEW k \in Kind
             PROVE  Explains(k, found'[k].capabilities, found'[k].status)
  BY DEF StatusExplains, Explains, InRange, First, Limit
<1>1. CASE k = chain
  <2>1. found'[k] = [capabilities |-> list, status |-> status]
    BY <1>1 DEF Finish, IInv, TypeOK
  <2> QED
    BY <1>1, <2>1
<1>2. CASE k # chain
  <2>1. found'[k] = found[k]
    BY <1>2 DEF Finish, IInv, TypeOK
  <2> QED
    BY <2>1 DEF StatusExplains
<1> QED
  BY <1>1, <1>2

(* The ends of a walk at the top of the loop or at a header: the list is    *)
(* nodes, and current is where its last node points.                        *)
LEMMA WalkEndExplains ==
  ASSUME IInv, StatusExplains, TooMany \/ Cycle \/ ReadFails \/ ReadZero
  PROVE  StatusExplains'
<1>1. /\ pc = "walk" /\ chain \in Kind
      /\ InRange(chain, current) /\ Aligned(current) /\ current # 0
      /\ visited = Offsets(nodes)
      /\ nodes # << >> => LastNext(nodes) = current
  <2>1. pc = "walk"
    BY DEF TooMany, Cycle, ReadFails, ReadZero, ReadsHeader
  <2>2. chain \in Kind /\ InRange(chain, current) /\ Aligned(current)
    BY <2>1 DEF IInv, WalkState
  <2>3. current # 0
    BY <2>2, LayoutFacts DEF InRange, IInv, TypeOK
  <2> QED
    BY <2>1, <2>2, <2>3 DEF IInv, WalkState
<1>2. Offsets(<< >>) = {}
  BY DEF Offsets
<1>3. CASE TooMany
  <2>1. nodes # << >>
    BY <1>1, <1>3, LayoutFacts DEF TooMany
  <2>2. Explains(chain, nodes, "Truncated")
    BY <1>1, <2>1 DEF Explains
  <2> QED
    BY <1>1, <1>3, <2>2, FinishExplains DEF TooMany
<1>4. CASE Cycle
  <2>1. nodes # << >>
    BY <1>1, <1>2, <1>4 DEF Cycle
  <2>2. Explains(chain, nodes, "CycleDetected")
    BY <1>1, <1>4, <2>1 DEF Explains, Cycle
  <2> QED
    BY <1>1, <1>4, <2>2, FinishExplains DEF Cycle
<1>5. CASE ReadFails
  <2> DEFINE status == IF nodes = << >> THEN "Unavailable" ELSE "Truncated"
  <2>1. Explains(chain, nodes, status)
    BY <1>1 DEF Explains
  <2>2. Finish(nodes, status)
    BY <1>5 DEF ReadFails
  <2> HIDE DEF status
  <2> QED
    BY <1>1, <2>1, <2>2, FinishExplains
<1>6. CASE ReadZero
  <2> DEFINE status == IF nodes = << >> /\ chain = "extended" /\ current = ExtFirst
                       THEN "NotPresent" ELSE "MissingHeader"
  <2>1. Explains(chain, nodes, status)
    BY <1>1, <1>6 DEF Explains, ReadZero, ReadsHeader
  <2>2. Finish(nodes, status)
    BY <1>6 DEF ReadZero
  <2> HIDE DEF status
  <2> QED
    BY <1>1, <2>1, <2>2, FinishExplains
<1> QED
  BY <1>3, <1>4, <1>5, <1>6

(* A node that is read explains the status it leaves.                        *)
LEMMA ReadNodeExplains ==
  ASSUME IInv, StatusExplains,
         NEW id \in Ids, NEW next \in Pointers(chain), ReadNode(id, next)
  PROVE  StatusExplains'
<1> DEFINE list == Extended(id, next)
<1>1. chain \in Kind /\ current \in Nat /\ next \in Nat /\ nodes \in Seq(Node)
  BY LayoutFacts DEF ReadNode, ReadsHeader, IInv, TypeOK, WalkState
<1>2. list # << >> /\ LastNext(list) = next
  BY <1>1 DEF Extended, LastNext
<1> HIDE DEF list
<1>3. CASE next # 0 /\ InRange(chain, next) /\ Aligned(next)
  <2>1. UNCHANGED found
    BY <1>3 DEF ReadNode
  <2> QED
    BY <2>1 DEF StatusExplains
<1>4. CASE ~(next # 0 /\ InRange(chain, next) /\ Aligned(next))
  <2> DEFINE status == IF next = 0 THEN "Complete"
                       ELSE IF ~InRange(chain, next) THEN "OffsetOutOfRange"
                       ELSE "MisalignedOffset"
  <2>1. next = 0 => ~InRange(chain, next)
    BY <1>1, LayoutFacts DEF InRange
  <2>2. Explains(chain, list, status)
    BY <1>2, <1>4, <2>1 DEF Explains
  <2>3. Finish(list, status)
    BY <1>4 DEF ReadNode, list, Extended
  <2> HIDE DEF status
  <2> QED
    BY <1>1, <2>2, <2>3, FinishExplains
<1> QED
  BY <1>3, <1>4

(* Every step keeps the status explained.                                    *)
LEMMA NextExplains == IInv /\ StatusExplains /\ [Next]_vars => StatusExplains'
<1> SUFFICES ASSUME IInv, StatusExplains, [Next]_vars PROVE StatusExplains'
  OBVIOUS
<1>1. CASE HeaderUnreadable \/ NoCapabilityList \/
           \E p \in Pointers("standard") : BadStart(p)
  <2>1. PICK status \in Status :
          Finish(<< >>, status) /\ chain \in Kind
          /\ status \notin {"Complete", "Truncated", "CycleDetected"}
    BY <1>1 DEF HeaderUnreadable, NoCapabilityList, BadStart, Status, Kind
  <2>2. Explains(chain, << >>, status)
    BY <2>1 DEF Explains
  <2> QED
    BY <2>1, <2>2, FinishExplains
<1>2. CASE \E p \in Pointers(chain) : EnterChain(p)
  <2>1. UNCHANGED found
    BY <1>2 DEF EnterChain
  <2> QED
    BY <2>1 DEF StatusExplains
<1>3. CASE TooMany \/ Cycle \/ ReadFails \/ ReadZero
  BY <1>3, WalkEndExplains
<1>4. ASSUME NEW id \in Ids, NEW next \in Pointers(chain), ReadNode(id, next)
      PROVE  StatusExplains'
  BY <1>4, ReadNodeExplains
<1>5. CASE UNCHANGED vars
  BY <1>5 DEF vars, StatusExplains
<1> QED
  BY <1>1, <1>2, <1>3, <1>4, <1>5 DEF Next, Walk

(* Every reachable state satisfies the inductive invariant.                 *)
THEOREM Invariant == Spec => []IInv
BY InitIInv, NextIInv, PTL DEF Spec

(* The state of a discovery is well typed.                                  *)
THEOREM TypeCorrect == Spec => []TypeOK
<1>1. IInv => TypeOK
  BY DEF IInv
<1> QED
  BY <1>1, Invariant, PTL

(* The status reported for a chain is the true reason why its list ends.    *)
THEOREM StatusesExplain == Spec => []StatusExplains
<1>1. Init => StatusExplains
  BY DEF Init, StatusExplains, Explains
<1> QED
  BY <1>1, NextExplains, Invariant, PTL DEF Spec

(* Whatever a device answers, the chains walk_chain reports stay within     *)
(* their node limit and their address range, are linked by their pointers   *)
(* and list no offset twice, for every layout and every node limit.         *)
THEOREM WellFormedChains == Spec => []ChainsWellFormed
<1>1. IInv => ChainsWellFormed
  BY DEF IInv
<1> QED
  BY <1>1, Invariant, PTL

-----------------------------------------------------------------------------
(* What a step may do to the lists.                                         *)
Kept ==
  /\ pc = "walk" /\ pc' = "walk" => IsPrefix(nodes, nodes')
  /\ \A k \in Kind :
       found'[k] # found[k] =>
         /\ k = chain /\ found[k].status = "Pending"
         /\ IsPrefix(nodes, found'[k].capabilities)

(* A list is a prefix of itself and of the list with one more node.         *)
LEMMA PrefixOf ==
  ASSUME NEW s \in Seq(Node), NEW e
  PROVE  IsPrefix(s, s) /\ (e \in Node => IsPrefix(s, Append(s, e)))
<1>1. IsPrefix(s, s)
  BY DEF IsPrefix
<1>2. ASSUME e \in Node PROVE IsPrefix(s, Append(s, e))
  <2> DEFINE t == Append(s, e)
             n == Len(s)
  <2>1. n \in Nat /\ t \in Seq(Node) /\ Len(t) = n + 1 /\ \A i \in 1..n : t[i] = s[i]
    BY <1>2
  <2> HIDE DEF t
  <2>2. SubSeq(s, 1, n) = SubSeq(t, 1, n)
    BY <2>1
  <2> QED
    BY <2>1, <2>2 DEF IsPrefix, t
<1> QED
  BY <1>1, <1>2

(* A discovery returns once, with what its walk has listed.                 *)
LEMMA FinishKeeps ==
  ASSUME IInv, chain \in Kind, NEW list, IsPrefix(nodes, list),
         NEW status, Finish(list, status)
  PROVE  Kept
<1>1. pc' = "start"
  BY DEF Finish
<1>2. ASSUME NEW k \in Kind, found'[k] # found[k]
      PROVE  /\ k = chain /\ found[k].status = "Pending"
             /\ IsPrefix(nodes, found'[k].capabilities)
  <2>1. k = chain /\ found'[k] = [capabilities |-> list, status |-> status]
    BY <1>2 DEF Finish, IInv, TypeOK
  <2>2. found[k].status = "Pending"
    BY <2>1 DEF IInv, WalkState
  <2> QED
    BY <2>1, <2>2
<1> QED
  BY <1>1, <1>2 DEF Kept

(* Whatever ends a walk, the nodes it found before are in the list that is  *)
(* returned, and a list that has been returned is not touched again.        *)
THEOREM NodesAlwaysPreserved == Spec => NodesPreserved
<1>1. ASSUME IInv, Next PROVE Kept
  <2>1. nodes \in Seq(Node) /\ IsPrefix(nodes, nodes) /\ (pc = "start" => nodes = << >>)
    BY <1>1, PrefixOf DEF IInv, TypeOK, WalkState
  <2>2. CASE HeaderUnreadable \/ NoCapabilityList \/
             \E p \in Pointers("standard") : BadStart(p)
    <3>1. PICK status : Finish(<< >>, status) /\ chain \in Kind /\ pc = "start"
      BY <2>2 DEF HeaderUnreadable, NoCapabilityList, BadStart, Kind
    <3> QED
      BY <1>1, <2>1, <3>1, FinishKeeps
  <2>3. CASE \E p \in Pointers(chain) : EnterChain(p)
    BY <2>3 DEF EnterChain, Kept
  <2>4. CASE TooMany \/ Cycle \/ ReadFails \/ ReadZero
    <3>1. PICK status : Finish(nodes, status) /\ pc = "walk"
      BY <2>4 DEF TooMany, Cycle, ReadFails, ReadZero, ReadsHeader
    <3>2. chain \in Kind
      BY <1>1, <3>1 DEF IInv, WalkState
    <3> QED
      BY <1>1, <2>1, <3>1, <3>2, FinishKeeps
  <2>5. ASSUME NEW id \in Ids, NEW next \in Pointers(chain), ReadNode(id, next)
        PROVE  Kept
    <3> DEFINE node == [id |-> id, offset |-> current, next |-> next]
               list == Append(nodes, node)
    <3>1. pc = "walk" /\ chain \in Kind
      BY <1>1, <2>5 DEF ReadNode, ReadsHeader, IInv, WalkState
    <3>2. node \in Node
      BY <1>1, <3>1, LayoutFacts DEF Node, IInv, TypeOK
    <3> HIDE DEF node
    <3>3. IsPrefix(nodes, list)
      BY <2>1, <3>2, PrefixOf
    <3>4. \/ nodes' = list /\ UNCHANGED found
          \/ \E status : Finish(list, status)
      BY <2>5 DEF ReadNode, list, node
    <3> HIDE DEF list
    <3> QED
      BY <1>1, <3>1, <3>3, <3>4, FinishKeeps DEF Kept
  <2> QED
    BY <1>1, <2>2, <2>3, <2>4, <2>5 DEF Next, Walk
<1>2. IInv /\ [Next]_vars => [Kept]_vars
  BY <1>1
<1> QED
  BY <1>2, Invariant, PTL DEF Spec, NodesPreserved, Kept
=============================================================================
