---------------------------- MODULE SessionProofs ---------------------------
(***************************************************************************)
(* Proofs about Session: what a call of inspect or read_config finds in a  *)
(* device list that only grows, what scan returns, and that the text and   *)
(* the JSON output tell the same of an inspected device.                   *)
(*                                                                         *)
(* The invariant says where in the list the entries of the last scan and   *)
(* those of the snapshot are: the last scan's at the head, one per slot,   *)
(* the snapshot's further down, unmoved and in order.                      *)
(***************************************************************************)
EXTENDS Session, FiniteSetTheorems, SequenceTheorems, WellFoundedInduction, TLAPS

-----------------------------------------------------------------------------
(* Least elements, and induction stated about a set of numbers: to show    *)
(* P(n) for all n, apply Induct to {n \in Nat : P(n)}.                      *)

(* A non-empty set of natural numbers has a least element.                 *)
LEMMA Least ==
  ASSUME NEW T \in SUBSET Nat, T # {}
  PROVE  \E x \in T : \A y \in T : x <= y
<1> DEFINE R == OpToRel(<, Nat)
<1>1. IsWellFoundedOn(R, Nat)
  BY NatLessThanWellFounded
<1>2. \A x, y \in Nat : x < y => <<x, y>> \in R
  BY DEF OpToRel
<1> HIDE DEF R
<1>3. PICK x \in T : \A y \in T : ~ (<<y, x>> \in R)
  BY <1>1, WFMin
<1>4. \A y \in T : ~ (y < x)
  BY <1>2, <1>3
<1>5. \A y \in T : x <= y
  BY <1>4
<1> QED
  BY <1>5, Zenon

(* A set with 0 and with the successor of each of its members is all of Nat. *)
LEMMA Induct ==
  ASSUME NEW S, 0 \in S, \A n \in Nat : n \in S => n + 1 \in S
  PROVE  \A n \in Nat : n \in S
<1> DEFINE T == {n \in Nat : n \notin S}
<1> SUFFICES ASSUME T # {} PROVE FALSE
  OBVIOUS
<1>1. PICK x \in T : \A y \in T : x <= y
  <2>1. T \in SUBSET Nat
    OBVIOUS
  <2> HIDE DEF T
  <2> QED
    BY <2>1, Least
<1>2. x # 0 /\ x \in Nat /\ x \notin S
  BY <1>1
<1>3. x - 1 \in Nat /\ x - 1 \in S
  BY <1>1, <1>2
<1> QED
  BY <1>2, <1>3

-----------------------------------------------------------------------------

(* What the machine, as the last scan of the bus saw it, has to list. *)
SeenEntries == {[slot |-> s, device |-> seen[s]] : s \in {t \in Slots : seen[t] # 0}}

OneEntryPerSlot(q) == \A i, j \in DOMAIN q : q[i].slot = q[j].slot => i = j

(* The entries of the last scan are the first n of the list, one per slot.  *)
NewestFirst(n) ==
  /\ {list[i] : i \in 1..n} = SeenEntries
  /\ \A i, j \in 1..n : list[i].slot = list[j].slot => i = j
  /\ scans = 1 => n = Len(list)

ListInv ==
  /\ list \in Seq(Entry)
  /\ pc = "start" => access = "none"
  /\ pc \in {"idle", "scan", "find", "fill", "read"} => access = "open"
  /\ pc = "exit" => access \in {"none", "released"}
  /\ pc # "exit" /\ scans = 0 => list = << >>
  /\ pc # "exit" /\ scans # 0 => \E n \in 0..Len(list) : NewestFirst(n)

(* q lies in the list from entry k + 1 on. *)
ListedFrom(q, k) ==
  /\ Len(list) = k + Len(q)
  /\ \A i \in DOMAIN q : q[i] = list[k + i]

SnapshotInv ==
  /\ snapshot \in Seq(Entry)
  /\ command \notin Scanners => snapshot = << >> /\ ~scanned
  /\ pc \in {"start", "idle"} /\ command \in Scanners /\ ~scanned =>
       scans = 0 /\ snapshot = << >> /\ todo = << >>
  /\ pc = "start" => scans = 0 /\ snapshot = << >> /\ todo = << >> /\ ~scanned
  /\ pc = "scan" =>
       /\ command \in Scanners /\ ~scanned /\ scans = 1 /\ todo = << >>
       /\ cursor \in 1..(Len(list) + 1) /\ Len(snapshot) = cursor - 1
       /\ \A i \in DOMAIN snapshot : snapshot[i] = list[i]
  /\ scanned /\ pc # "exit" =>
       /\ scans # 0 /\ OneEntryPerSlot(snapshot)
       /\ \E k \in 0..Len(list) : ListedFrom(snapshot, k)
       /\ scans = 1 => ToSet(snapshot) = SeenEntries

CallsInv ==
  /\ todo \in Seq([op : {"inspect", "config"}, slot : Slots])
  /\ pc \in {"find", "fill", "read"} =>
       todo # << >> /\ scans # 0 /\ (command \in Scanners => scanned)
  /\ pc \in {"fill", "read"} => handle.slot = Call.slot /\ Call.slot \in SlotsOf(list)
                                /\ handle \in Entry
  /\ command \in Scanners =>
       /\ answer.outcome # "DeviceNotFound"
       /\ \A i \in DOMAIN todo : todo[i].slot \in SlotsOf(snapshot)
  /\ command \notin Scanners /\ pc # "exit" =>
       \A i \in DOMAIN todo : todo[i].op = "config" =>
         \/ i = 1 /\ todo[1].slot \in SlotsOf(list)
         \/ i = 2 /\ todo[1] = [op |-> "inspect", slot |-> todo[2].slot]
  /\ answer.outcome = "DeviceNotFound" => answer.op = "inspect"

(* What inspect tells of a device has every field, in one of its states. *)
AnswerInv ==
  answer.op = "inspect" /\ answer.outcome = "Ok" => answer.details \in [Fields -> FieldStates]

IInv ==
  /\ TypeOK /\ scans \in Nat
  /\ ListInv /\ SnapshotInv /\ CallsInv /\ AnswerInv /\ HandleIsNewest

-----------------------------------------------------------------------------
(* The list that pci_scan_bus makes.                                       *)

(* A finite set as a sequence: each element once.                          *)
LEMMA SetToSeqFacts ==
  ASSUME NEW S, IsFiniteSet(S)
  PROVE  /\ SetToSeq(S) \in Seq(S)
         /\ Len(SetToSeq(S)) = Cardinality(S) /\ Cardinality(S) \in Nat
         /\ {SetToSeq(S)[i] : i \in 1..Cardinality(S)} = S
         /\ \A i, j \in 1..Cardinality(S) : SetToSeq(S)[i] = SetToSeq(S)[j] => i = j
<1> DEFINE n == Cardinality(S)
           q == SetToSeq(S)
<1>1. n \in Nat /\ ExistsBijection(1..n, S)
  BY FS_CardinalityType
<1> HIDE DEF n
<1>2. \E f \in [1..n -> S] : IsInjective(f)
  BY <1>1 DEF ExistsBijection, Bijection, Injection
<1>3. q \in [1..n -> S] /\ IsInjective(q)
  BY <1>2 DEF SetToSeq, n
<1> HIDE DEF q
<1>4. q \in Injection(1..n, S)
  BY <1>3 DEF Injection
<1>5. Cardinality(1..n) = n
  BY <1>1, FS_Interval
<1>6. q \in Surjection(1..n, S)
  BY <1>4, <1>5, FS_Injection DEF n
<1>7. {q[i] : i \in 1..n} = S
  BY <1>3, <1>6 DEF Surjection
<1>8. q \in Seq(S) /\ Len(q) = n
  BY <1>1, <1>3
<1>9. \A i, j \in 1..n : q[i] = q[j] => i = j
  BY <1>3 DEF IsInjective
<1> QED
  BY <1>1, <1>7, <1>8, <1>9 DEF q, n

(* The devices present are finitely many, one per slot. *)
LEMMA PresentFacts ==
  ASSUME machine \in [Slots -> 0..MaxPlugs]
  PROVE  /\ IsFiniteSet(Present)
         /\ Present \subseteq Entry
         /\ \A e, f \in Present : e.slot = f.slot => e = f
<1> DEFINE T == {t \in Slots : machine[t] # 0}
           g == [s \in T |-> [slot |-> s, device |-> machine[s]]]
<1>1. IsFiniteSet(T)
  BY SlotsAssumption, FS_Subset
<1>2. g \in Surjection(T, Present)
  BY DEF Surjection, Present
<1>3. IsFiniteSet(Present)
  BY <1>1, <1>2, FS_Surjection
<1>4. Present \subseteq Entry
  BY BoundsAssumption DEF Present, Entry
<1>5. \A e, f \in Present : e.slot = f.slot => e = f
  BY DEF Present
<1> QED
  BY <1>3, <1>4, <1>5

(* A scan puts the devices present in front of the list, one entry each.   *)
LEMMA ScanBusFacts ==
  ASSUME machine \in [Slots -> 0..MaxPlugs], list \in Seq(Entry), ScanBus
  PROVE  /\ list' \in Seq(Entry) /\ seen' \in [Slots -> 0..MaxPlugs] /\ scans' = scans + 1
         /\ SlotsOf(list) \subseteq SlotsOf(list')
         /\ \E n \in 0..Len(list') :
              /\ Len(list') = n + Len(list)
              /\ \A i \in 1..Len(list) : list'[n + i] = list[i]
              /\ {list'[i] : i \in 1..n} = SeenEntries'
              /\ \A i, j \in 1..n : list'[i].slot = list'[j].slot => i = j
<1> DEFINE q == SetToSeq(Present)
           n == Cardinality(Present)
<1>1. /\ IsFiniteSet(Present) /\ Present \subseteq Entry
      /\ \A e, f \in Present : e.slot = f.slot => e = f
  BY PresentFacts
<1>2. /\ q \in Seq(Present) /\ Len(q) = n /\ n \in Nat
      /\ {q[i] : i \in 1..n} = Present
      /\ \A i, j \in 1..n : q[i] = q[j] => i = j
  BY <1>1, SetToSeqFacts
<1>3. list' = q \o list /\ seen' = machine /\ scans' = scans + 1
  BY DEF ScanBus
<1> HIDE DEF q, n
<1>4. q \in Seq(Entry)
  BY <1>1, <1>2, SeqMonotonic
<1>5. /\ list' \in Seq(Entry) /\ Len(list') = n + Len(list)
      /\ \A i \in 1..(n + Len(list)) : list'[i] = IF i <= n THEN q[i] ELSE list[i - n]
  <2> DEFINE l == list
  <2>1. /\ q \o l \in Seq(Entry) /\ Len(q \o l) = Len(q) + Len(l)
        /\ \A i \in 1..(Len(q) + Len(l)) :
             (q \o l)[i] = IF i <= Len(q) THEN q[i] ELSE l[i - Len(q)]
    BY <1>4, ConcatProperties
  <2> QED
    BY <1>2, <1>3, <2>1
<1>6. Len(list) \in Nat
  OBVIOUS
<1>7. \A i \in 1..Len(list) : list'[n + i] = list[i]
  <2> TAKE i \in 1..Len(list)
  <2>1. n + i \in 1..(n + Len(list)) /\ ~(n + i <= n) /\ (n + i) - n = i
    BY <1>2, <1>6
  <2> QED
    BY <1>5, <2>1
<1>8. \A i \in 1..n : list'[i] = q[i]
  BY <1>2, <1>5, <1>6
<1>9. SeenEntries' = Present
  BY <1>3 DEF SeenEntries, Present
<1>10. {list'[i] : i \in 1..n} = SeenEntries'
  BY <1>2, <1>8, <1>9
<1>11. \A i, j \in 1..n : list'[i].slot = list'[j].slot => i = j
  BY <1>1, <1>2, <1>8
<1>12. SlotsOf(list) \subseteq SlotsOf(list')
  <2>1. DOMAIN list' = 1..(n + Len(list)) /\ DOMAIN list = 1..Len(list)
    BY <1>5
  <2>2. \A i \in 1..Len(list) : n + i \in 1..(n + Len(list))
    BY <1>2, <1>6
  <2> QED
    BY <1>7, <2>1, <2>2 DEF SlotsOf, ToSet
<1>13. n \in 0..Len(list')
  BY <1>2, <1>5, <1>6
<1> QED
  BY <1>3, <1>5, <1>7, <1>10, <1>11, <1>12, <1>13

(* The loop over the list stops at the first entry of the slot.            *)
LEMMA FirstEntryFacts ==
  ASSUME list \in Seq(Entry), NEW slot \in SlotsOf(list)
  PROVE  /\ FirstEntry(slot) \in DOMAIN list /\ list[FirstEntry(slot)].slot = slot
         /\ \A j \in 1..(FirstEntry(slot) - 1) : list[j].slot # slot
<1> DEFINE I == {i \in DOMAIN list : list[i].slot = slot}
<1>1. DOMAIN list = 1..Len(list) /\ Len(list) \in Nat
  OBVIOUS
<1>2. I \in SUBSET Nat /\ I # {}
  BY <1>1 DEF SlotsOf, ToSet
<1>3. PICK m \in I : \A i \in I : m <= i
  <2> HIDE DEF I
  <2> QED
    BY <1>2, Least
<1>4. m \in DOMAIN list /\ list[m].slot = slot /\ \A j \in 1..(m - 1) : list[j].slot # slot
  BY <1>1, <1>3
<1>5. \E i \in DOMAIN list : list[i].slot = slot /\ \A j \in 1..(i - 1) : list[j].slot # slot
  BY <1>4
<1> QED
  BY <1>5 DEF FirstEntry

-----------------------------------------------------------------------------
(* The parts of the invariant that most steps leave alone.                 *)

(* Steps inside a call keep what is known of the list and of the snapshot.   *)
LEMMA SameList ==
  ASSUME ListInv, SnapshotInv,
         UNCHANGED <<access, list, scans, seen, snapshot, scanned, command>>,
         \/ /\ pc \in {"idle", "find", "fill", "read"}
            /\ pc' \in {"idle", "find", "fill", "read"}
            /\ pc' = "idle" /\ command \in Scanners => scanned
         \/ UNCHANGED <<pc, todo, cursor>>
  PROVE  ListInv' /\ SnapshotInv'
<1>1. /\ SeenEntries' = SeenEntries
      /\ \A n : NewestFirst(n)' <=> NewestFirst(n)
      /\ \A k : ListedFrom(snapshot, k)' <=> ListedFrom(snapshot, k)
  BY DEF SeenEntries, NewestFirst, ListedFrom
<1>2. CASE UNCHANGED <<pc, todo, cursor>>
  <2>1. ListInv'
    BY <1>1, <1>2 DEF ListInv
  <2>2. SnapshotInv'
    BY <1>1, <1>2 DEF SnapshotInv, OneEntryPerSlot
  <2> QED
    BY <2>1, <2>2
<1>3. CASE /\ pc \in {"idle", "find", "fill", "read"}
           /\ pc' \in {"idle", "find", "fill", "read"}
           /\ pc' = "idle" /\ command \in Scanners => scanned
  <2>1. pc # "exit" /\ pc' # "exit" /\ pc' # "start" /\ pc' # "scan" /\ access = "open"
    BY <1>3 DEF ListInv
  <2>2. ListInv'
    BY <1>1, <1>3, <2>1 DEF ListInv
  <2>3. SnapshotInv'
    BY <1>1, <1>3, <2>1 DEF SnapshotInv, OneEntryPerSlot
  <2> QED
    BY <2>2, <2>3
<1> QED
  BY <1>2, <1>3

(* An entry of the snapshot is in the list. *)
LEMMA SnapshotListed ==
  ASSUME IInv, scanned, pc # "exit"
  PROVE  SlotsOf(snapshot) \subseteq SlotsOf(list)
<1>1. PICK k \in 0..Len(list) : ListedFrom(snapshot, k)
  BY DEF IInv, SnapshotInv
<1>2. list \in Seq(Entry) /\ snapshot \in Seq(Entry)
  BY DEF IInv, ListInv, SnapshotInv
<1>3. \A i \in DOMAIN snapshot : k + i \in DOMAIN list /\ snapshot[i] = list[k + i]
  BY <1>1, <1>2 DEF ListedFrom
<1> QED
  BY <1>3 DEF SlotsOf, ToSet

(* What is left of a sequence when its head is taken. *)
LEMMA TailFacts ==
  ASSUME NEW S, NEW q \in Seq(S), q # << >>
  PROVE  /\ 1 \in DOMAIN q /\ Head(q) = q[1] /\ q[1] \in S
         /\ Tail(q) \in Seq(S)
         /\ \A i \in DOMAIN Tail(q) :
              i \in Nat \ {0} /\ i + 1 \in DOMAIN q /\ Tail(q)[i] = q[i + 1] /\ Tail(q)[i] \in S
OBVIOUS

(* Elements of a sequence are in its set.                                    *)
LEMMA Elements ==
  ASSUME NEW S, NEW q \in Seq(S), NEW i \in DOMAIN q
  PROVE  q[i] \in S
OBVIOUS

(* Two sequences of one element, concatenated.                               *)
LEMMA Pair ==
  ASSUME NEW a, NEW b
  PROVE  <<a>> \o <<b>> = <<a, b>>
<1> DEFINE S == {a, b}
           s == <<a>> \o <<b>>
           q == <<a, b>>
<1>1. s \in Seq(S) /\ Len(s) = 2 /\ s[1] = a /\ s[2] = b
  OBVIOUS
<1>2. q \in Seq(S) /\ Len(q) = 2 /\ q[1] = a /\ q[2] = b
  OBVIOUS
<1> HIDE DEF s, q, S
<1>3. \A i \in 1..2 : i = 1 \/ i = 2
  OBVIOUS
<1>4. s = q
  BY <1>1, <1>2, <1>3, SeqEqual
<1> QED
  BY <1>4 DEF s, q

(* The command ends: what is left is the answer it gave. *)
LEMMA ExitStep ==
  ASSUME IInv, pc' = "exit", access' \in {"none", "released"}, list' = << >>,
         UNCHANGED <<machineVars, scans, seen, command, scanned>>,
         \/ snapshot' = snapshot
         \/ snapshot' = << >> /\ todo' = << >>,
         todo' \in {todo, << >>},
         handle' \in {handle, NoHandle}, known' \in {known, {}},
         \/ answer' = answer
         \/ /\ answer'.outcome \in {"DeviceNotFound", "DeviceInfo"}
            /\ answer'.details = << >>
            /\ answer'.outcome = "DeviceNotFound" => answer'.op = "inspect" /\ command \notin Scanners
  PROVE  IInv'
<1>1. /\ TypeOK /\ ListInv /\ SnapshotInv /\ CallsInv /\ AnswerInv
      /\ snapshot \in Seq(Entry) /\ todo \in Seq([op : {"inspect", "config"}, slot : Slots])
  BY DEF IInv, SnapshotInv, CallsInv
<1>2. list' \in Seq(Entry) /\ DOMAIN list' = {} /\ snapshot' \in Seq(Entry)
      /\ todo' \in Seq([op : {"inspect", "config"}, slot : Slots])
  <2>1. << >> \in Seq(Entry) /\ << >> \in Seq([op : {"inspect", "config"}, slot : Slots])
        /\ DOMAIN << >> = {}
    BY EmptySeq
  <2>2. list' \in Seq(Entry) /\ DOMAIN list' = {}
    BY <2>1
  <2>3. snapshot' \in Seq(Entry)
    BY <1>1, <2>1, Zenon
  <2>4. todo' = todo \/ todo' = << >>
    OBVIOUS
  <2> QED
    BY <1>1, <2>1, <2>2, <2>3, <2>4, Zenon
<1>3. /\ answer'.outcome \in {"none", "Ok", "DeviceNotFound", "DeviceInfo"}
      /\ \A f \in DOMAIN answer'.details : answer'.details[f] \in FieldStates
      /\ answer'.outcome = "DeviceNotFound" => answer'.op = "inspect" /\ command \notin Scanners
  BY <1>1 DEF TypeOK, CallsInv
<1>4. TypeOK'
  BY <1>1, <1>2, <1>3 DEF TypeOK, machineVars
<1>5. ListInv'
  BY <1>2 DEF ListInv
<1>6. SnapshotInv'
  <2>1. command \notin Scanners => snapshot' = << >> /\ ~scanned
    BY <1>1 DEF SnapshotInv
  <2> QED
    BY <1>2, <2>1 DEF SnapshotInv
<1>7. CallsInv'
  <2>1. command \in Scanners => \A i \in DOMAIN todo' : todo'[i].slot \in SlotsOf(snapshot')
    <3>1. todo' = << >> => DOMAIN todo' = {}
      OBVIOUS
    <3>2. command \in Scanners /\ todo' = todo /\ snapshot' = snapshot =>
            \A i \in DOMAIN todo' : todo'[i].slot \in SlotsOf(snapshot')
      BY <1>1 DEF CallsInv
    <3> QED
      BY <3>1, <3>2
  <2> QED
    BY <1>2, <1>3, <2>1 DEF CallsInv
<1>8. AnswerInv' /\ HandleIsNewest'
  BY <1>1 DEF AnswerInv, HandleIsNewest
<1> QED
  BY <1>4, <1>5, <1>6, <1>7, <1>8, <1>1 DEF IInv

-----------------------------------------------------------------------------
(* One lemma per action: it keeps the invariant.                           *)

(* Before the process starts there is neither a list nor a snapshot.         *)
LEMMA InitIInv ==
  ASSUME Init
  PROVE  IInv
<1>1. plugs \in 0..MaxPlugs
  <2> DEFINE T == {s \in Slots : machine[s] # 0}
  <2>1. IsFiniteSet(T)
    BY SlotsAssumption, FS_Subset
  <2>2. plugs \in Nat
    BY <2>1, FS_CardinalityType DEF Init
  <2>3. {machine[s] : s \in Slots} \ {0} = 1..plugs /\ machine \in [Slots -> 0..MaxPlugs]
    BY DEF Init
  <2>4. plugs # 0 => plugs \in {machine[s] : s \in Slots} \ {0}
    BY <2>2, <2>3
  <2> QED
    BY <2>2, <2>3, <2>4, BoundsAssumption
<1>2. /\ list = << >> /\ snapshot = << >> /\ todo = << >> /\ scans = 0 /\ pc = "start"
      /\ access = "none" /\ scanned = FALSE /\ known = {} /\ handle = NoHandle
      /\ answer.outcome = "none" /\ answer.op = "none" /\ DOMAIN answer.details = {}
      /\ machine \in [Slots -> 0..MaxPlugs] /\ command \in Commands
  BY DEF Init, NoAnswer
<1>3. seen \in [Slots -> 0..MaxPlugs]
  BY BoundsAssumption DEF Init
<1>4. DOMAIN list = {} /\ DOMAIN snapshot = {} /\ DOMAIN todo = {}
      /\ list \in Seq(Entry) /\ snapshot \in Seq(Entry)
      /\ todo \in Seq([op : {"inspect", "config"}, slot : Slots])
  BY <1>2
<1>5. TypeOK
  BY <1>1, <1>2, <1>3, <1>4 DEF TypeOK
<1>6. ListInv /\ SnapshotInv
  BY <1>2, <1>4 DEF ListInv, SnapshotInv
<1>7. CallsInv /\ AnswerInv /\ HandleIsNewest
  BY <1>2, <1>4 DEF CallsInv, AnswerInv, HandleIsNewest
<1> QED
  BY <1>2, <1>5, <1>6, <1>7 DEF IInv

(* PciSession::new starts with an empty list.                                *)
LEMMA NewStep ==
  ASSUME IInv, New
  PROVE  IInv'
<1> USE DEF machineVars, callVars
<1>1. PICK slot \in Slots : todo' = FirstCalls(slot)
  BY DEF New
<1>2. /\ pc = "start" /\ pc' = "idle" /\ access' = "open"
      /\ list = << >> /\ scans = 0 /\ snapshot = << >> /\ ~scanned
      /\ UNCHANGED <<machine, plugs, list, scans, seen, command, snapshot, scanned, cursor, handle, known, answer>>
      /\ TypeOK /\ ListInv /\ SnapshotInv /\ CallsInv /\ AnswerInv
      /\ command \in Commands
  BY DEF New, IInv, ListInv, SnapshotInv, TypeOK
<1> DEFINE A == [op |-> "inspect", slot |-> slot]
           B == [op |-> "config", slot |-> slot]
<1>3. todo' \in {<< >>, <<A>>, <<A, B>>} /\ (command \in Scanners => todo' = << >>)
  <2>1. <<A>> \o <<B>> = <<A, B>>
    BY Pair, Zenon
  <2>2. command \in AllCommands
    BY <1>2, CommandsAssumption
  <2> QED
    BY <1>1, <2>1, <2>2 DEF FirstCalls, Calls, AllCommands, Scanners
<1>4. /\ todo' \in Seq([op : {"inspect", "config"}, slot : Slots])
      /\ \A i \in DOMAIN todo' : todo'[i] \in [op : {"inspect", "config"}, slot : Slots]
      /\ \A i \in DOMAIN todo' : todo'[i].op = "config" =>
           i = 2 /\ todo'[1] = [op |-> "inspect", slot |-> todo'[2].slot]
      /\ command \in Scanners => \A i \in DOMAIN todo' : FALSE
  <2>1. CASE todo' = << >>
    BY <2>1
  <2>2. CASE todo' = <<A>>
    BY <1>3, <2>2
  <2>3. CASE todo' = <<A, B>>
    <3>1. /\ DOMAIN todo' = 1..2 /\ todo'[1] = A /\ todo'[2] = B
          /\ command \notin Scanners
      BY <1>3, <2>3
    <3>2. \A i \in 1..2 : i = 1 \/ i = 2
      OBVIOUS
    <3> QED
      BY <2>3, <3>1, <3>2
  <2> QED
    BY <1>3, <2>1, <2>2, <2>3
<1>5. TypeOK'
  BY <1>2, <1>4 DEF TypeOK
<1>6. ListInv'
  BY <1>2 DEF ListInv
<1>7. SnapshotInv'
  BY <1>2, <1>3 DEF SnapshotInv
<1>8. CallsInv'
  BY <1>2, <1>4 DEF CallsInv
<1>9. AnswerInv' /\ HandleIsNewest'
  BY <1>2 DEF AnswerInv, HandleIsNewest
<1> QED
  BY <1>2, <1>5, <1>6, <1>7, <1>8, <1>9 DEF IInv

(* A process that ends has released its list, or never had one.              *)
LEMMA LeaveSteps ==
  ASSUME IInv, NewFails \/ Exit \/ Quit
  PROVE  IInv'
<1>1. CASE NewFails
  <2>1. list = << >> /\ access = "none"
    BY <1>1 DEF NewFails, IInv, ListInv, SnapshotInv
  <2> QED
    BY <1>1, <2>1, ExitStep DEF NewFails, sessionVars, commandVars, callVars
<1>2. CASE Exit \/ Quit
  BY <1>2, ExitStep DEF Exit, Quit, Leave, commandVars, callVars
<1> QED
  BY <1>1, <1>2

(* The only scan before any other: the list holds its entries and no more. *)
LEMMA StartScanStep ==
  ASSUME IInv, StartScan
  PROVE  IInv'
<1> USE DEF machineVars, commandVars
<1>1. /\ pc = "idle" /\ pc' = "scan" /\ command \in Scanners /\ ~scanned /\ cursor' = 1
      /\ ScanBus /\ UNCHANGED <<machine, plugs, access, command, snapshot, scanned, todo, handle, known, answer>>
  BY DEF StartScan
<1>2. /\ scans = 0 /\ snapshot = << >> /\ todo = << >> /\ list = << >> /\ access = "open"
      /\ TypeOK /\ ListInv /\ SnapshotInv /\ CallsInv /\ AnswerInv
      /\ machine \in [Slots -> 0..MaxPlugs] /\ list \in Seq(Entry)
  BY <1>1 DEF IInv, ListInv, SnapshotInv, TypeOK
<1>3. /\ list' \in Seq(Entry) /\ seen' \in [Slots -> 0..MaxPlugs] /\ scans' = 1
      /\ \E n \in 0..Len(list') :
              /\ Len(list') = n + Len(list)
              /\ {list'[i] : i \in 1..n} = SeenEntries'
              /\ \A i, j \in 1..n : list'[i].slot = list'[j].slot => i = j
  BY <1>1, <1>2, ScanBusFacts
<1>4. ListInv'
  <2>1. \E n \in 0..Len(list') : NewestFirst(n)'
    <3>1. PICK n \in 0..Len(list') :
              /\ Len(list') = n + Len(list)
              /\ {list'[i] : i \in 1..n} = SeenEntries'
              /\ \A i, j \in 1..n : list'[i].slot = list'[j].slot => i = j
      BY <1>3
    <3>2. n = Len(list')
      BY <1>2, <3>1
    <3> QED
      BY <3>1, <3>2 DEF NewestFirst
  <2> QED
    BY <1>1, <1>2, <1>3, <2>1 DEF ListInv
<1>5. Len(list') \in Nat /\ DOMAIN snapshot' = {} /\ Len(snapshot') = 0 /\ snapshot' = << >>
      /\ snapshot' \in Seq(Entry) /\ DOMAIN todo' = {}
      /\ \A i \in DOMAIN list' : list'[i] \in Entry
  BY <1>1, <1>2, <1>3
<1>6. TypeOK'
  BY <1>1, <1>2, <1>3, <1>5 DEF TypeOK
<1>7. SnapshotInv'
  BY <1>1, <1>2, <1>3, <1>5 DEF SnapshotInv
<1>8. CallsInv' /\ AnswerInv' /\ HandleIsNewest'
  BY <1>1, <1>2, <1>5 DEF CallsInv, AnswerInv, HandleIsNewest
<1> QED
  BY <1>3, <1>4, <1>6, <1>7, <1>8 DEF IInv

(* The entry at the cursor is taken, or the whole scan fails.              *)
LEMMA ScanDeviceStep ==
  ASSUME IInv, ScanDevice
  PROVE  IInv'
<1> USE DEF machineVars
<1>1. PICK filled \in FillResults : TakeDevice(filled)
  BY DEF ScanDevice
<1>2. /\ pc = "scan" /\ cursor <= Len(list)
      /\ UNCHANGED <<machine, plugs, scans, seen, command, scanned, todo, handle, known, answer>>
      /\ TypeOK /\ ListInv /\ SnapshotInv /\ CallsInv /\ AnswerInv
  BY DEF ScanDevice, IInv
<1>3. /\ command \in Scanners /\ ~scanned /\ scans = 1 /\ todo = << >>
      /\ cursor \in 1..(Len(list) + 1) /\ Len(snapshot) = cursor - 1
      /\ \A i \in DOMAIN snapshot : snapshot[i] = list[i]
      /\ list \in Seq(Entry) /\ snapshot \in Seq(Entry)
  BY <1>2 DEF SnapshotInv, ListInv
<1>4. CASE ~ (RequiredFields \subseteq filled)
  <2>1. snapshot' = << >> /\ access' = "released" /\ list' = << >> /\ pc' = "exit"
    BY <1>1, <1>4 DEF TakeDevice, Leave
  <2> QED
    BY <1>2, <1>3, <2>1, ExitStep
<1>5. CASE RequiredFields \subseteq filled
  <2>1. /\ snapshot' = Append(snapshot, list[cursor]) /\ cursor' = cursor + 1
        /\ UNCHANGED <<access, list, pc>>
    BY <1>1, <1>5 DEF TakeDevice
  <2>2. list[cursor] \in Entry /\ cursor \in 1..Len(list)
    BY <1>2, <1>3
  <2>3. /\ snapshot' \in Seq(Entry) /\ Len(snapshot') = cursor
        /\ DOMAIN snapshot' = 1..cursor
        /\ \A i \in 1..cursor : snapshot'[i] = list[i]
    BY <1>3, <2>1, <2>2
  <2>4. cursor' \in 1..(Len(list) + 1) /\ Len(snapshot') = cursor' - 1
    BY <2>1, <2>2, <2>3
  <2>5. TypeOK'
    BY <1>2, <2>1, <2>3, <2>4 DEF TypeOK
  <2>6. ListInv'
    <3>1. SeenEntries' = SeenEntries /\ list' = list /\ scans' = scans /\ pc' = pc
          /\ access' = access
      BY <1>2, <2>1 DEF SeenEntries
    <3>2. \A n : NewestFirst(n)' <=> NewestFirst(n)
      BY <3>1 DEF NewestFirst
    <3> QED
      BY <1>2, <3>1, <3>2 DEF ListInv
  <2>7. SnapshotInv'
    BY <1>2, <1>3, <2>1, <2>3, <2>4 DEF SnapshotInv
  <2>8. CallsInv' /\ AnswerInv' /\ HandleIsNewest'
    BY <1>2, <1>3, <2>1 DEF CallsInv, AnswerInv, HandleIsNewest
  <2> QED
    BY <1>2, <2>5, <2>6, <2>7, <2>8 DEF IInv
<1> QED
  BY <1>4, <1>5

(* The bridges whose windows tree and tui read are entries of the snapshot. *)
LEMMA BridgesListed ==
  ASSUME snapshot \in Seq(Entry)
  PROVE  Bridges \in Seq(Entry) /\ \A i \in DOMAIN Bridges : Bridges[i].slot \in SlotsOf(snapshot)
<1> DEFINE S == {e \in Entry : e.slot \in SlotsOf(snapshot)}
           Turn(g, n) == IF n = 0 THEN << >>
                         ELSE IF snapshot[n].slot \in BridgeSlots THEN Append(g[n - 1], snapshot[n])
                         ELSE g[n - 1]
           Rec(g, k) == g = [n \in 0..k |-> Turn(g, n)]
           D == {k \in Nat : k <= Len(snapshot) => \E g : Rec(g, k) /\ g[k] \in Seq(S)}
<1>1. Len(snapshot) \in Nat /\ \A n \in 1..Len(snapshot) : snapshot[n] \in S
  BY DEF SlotsOf, ToSet
<1> HIDE DEF S
<1>2. 0 \in D
  <2>1. Rec([n \in 0..0 |-> << >>], 0) /\ [n \in 0..0 |-> << >>][0] \in Seq(S)
    OBVIOUS
  <2> QED
    BY <2>1
<1>3. ASSUME NEW k \in Nat, k \in D PROVE k + 1 \in D
  <2> HIDE DEF Rec
  <2>0. k + 1 \in Nat /\ (k + 1 <= Len(snapshot) => k <= Len(snapshot))
    BY <1>1
  <2> SUFFICES ASSUME k + 1 <= Len(snapshot) PROVE \E g : Rec(g, k + 1) /\ g[k + 1] \in Seq(S)
    BY <2>0, Zenon
  <2>1. PICK g : Rec(g, k) /\ g[k] \in Seq(S)
    BY <1>3, <2>0, Zenon
  <2> DEFINE h == [n \in 0..(k + 1) |-> IF n = k + 1 THEN Turn(g, k + 1) ELSE g[n]]
  <2> USE DEF Rec
  <2>2. g = [n \in 0..k |-> Turn(g, n)]
    BY <2>1
  <2>3. k + 1 \in 0..(k + 1) /\ (k + 1) - 1 = k /\ k + 1 # 0 /\ snapshot[k + 1] \in S
    BY <1>1
  <2>4. \A n \in 0..(k + 1) : h[n] = IF n = k + 1 THEN Turn(g, k + 1) ELSE g[n]
    OBVIOUS
  <2> HIDE DEF h
  <2>5. h[k + 1] = Turn(g, k + 1) /\ Turn(g, k + 1) \in Seq(S)
    <3>1. Turn(g, k + 1) \in Seq(S)
      <4>1. g[k] \in Seq(S)
        BY <2>1
      <4> QED
        BY <2>3, <4>1
    <3> HIDE DEF Turn
    <3> QED
      BY <2>3, <2>4, <3>1
  <2>6. \A n \in 0..k : h[n] = g[n] /\ g[n] = Turn(g, n)
    <3> HIDE DEF Turn
    <3>1. \A n \in 0..k : n \in 0..(k + 1) /\ n # k + 1
      OBVIOUS
    <3>2. \A n \in 0..k : h[n] = g[n]
      BY <2>4, <3>1
    <3>3. \A n \in 0..k : g[n] = Turn(g, n)
      BY <2>2
    <3> QED
      BY <3>2, <3>3
  <2>7. \A n \in 1..(k + 1) : h[n - 1] = g[n - 1]
    BY <2>6
  <2>8. \A n \in 0..(k + 1) : h[n] = Turn(h, n)
    <3> TAKE n \in 0..(k + 1)
    <3>1. Turn(h, n) = Turn(g, n)
      <4>1. n = 0 \/ n \in 1..(k + 1)
        OBVIOUS
      <4> QED
        BY <4>1, <2>7
    <3>2. h[n] = Turn(g, n)
      BY <2>5, <2>6
    <3> HIDE DEF Turn
    <3> QED
      BY <3>1, <3>2
  <2>9. h = [n \in 0..(k + 1) |-> h[n]]
    BY DEF h
  <2> HIDE DEF Turn
  <2>10. Rec(h, k + 1)
    BY <2>8, <2>9
  <2> HIDE DEF Rec
  <2> QED
    BY <2>5, <2>10
<1> HIDE DEF D
<1>4. \A k \in Nat : k \in D
  BY <1>2, <1>3, Induct
<1>5. PICK g : Rec(g, Len(snapshot)) /\ g[Len(snapshot)] \in Seq(S)
  <2> HIDE DEF Rec
  <2> QED
    BY <1>1, <1>4 DEF D
<1> DEFINE bridges == CHOOSE f : Rec(f, Len(snapshot))
<1>6. Bridges = bridges[Len(snapshot)]
  BY DEF Bridges
<1>7. Rec(bridges, Len(snapshot))
  <2> HIDE DEF Rec
  <2> QED
    BY <1>5
<1> HIDE DEF bridges
<1> DEFINE G == {k \in Nat : k <= Len(snapshot) => bridges[k] \in Seq(S)}
<1>8. 0 \in G
  BY <1>1, <1>7
<1>9. ASSUME NEW k \in Nat, k \in G PROVE k + 1 \in G
  <2> SUFFICES ASSUME k + 1 <= Len(snapshot) PROVE bridges[k + 1] \in Seq(S)
    OBVIOUS
  <2>1. bridges[k] \in Seq(S) /\ snapshot[k + 1] \in S
    BY <1>1, <1>9
  <2>2. bridges[k + 1] = Turn(bridges, k + 1) /\ (k + 1) - 1 = k /\ k + 1 # 0
    <3>1. k + 1 \in 0..Len(snapshot)
      BY <1>1
    <3>2. bridges = [n \in 0..Len(snapshot) |-> Turn(bridges, n)]
      BY <1>7
    <3> HIDE DEF Turn
    <3> QED
      BY <3>1, <3>2
  <2> QED
    BY <2>1, <2>2
<1> HIDE DEF G
<1>10. \A k \in Nat : k \in G
  BY <1>8, <1>9, Induct
<1>11. Bridges \in Seq(S)
  BY <1>1, <1>6, <1>10 DEF G
<1>12. S \subseteq Entry /\ \A e \in S : e.slot \in SlotsOf(snapshot)
  BY DEF S
<1> QED
  BY <1>11, <1>12, SeqMonotonic

(* scan returns: the snapshot is the list, which the one scan has made.    *)
LEMMA ScanReturnsStep ==
  ASSUME IInv, ScanReturns
  PROVE  IInv'
<1> USE DEF machineVars, sessionVars, callVars
<1>1. /\ pc = "scan" /\ cursor > Len(list) /\ scanned' = TRUE /\ pc' = "idle"
      /\ UNCHANGED <<machine, plugs, access, list, scans, seen, command, snapshot, cursor, handle, known, answer>>
      /\ TypeOK /\ ListInv /\ SnapshotInv /\ CallsInv /\ AnswerInv
      /\ todo' = IF command = "list" THEN << >>
                 ELSE [i \in DOMAIN Bridges |-> [op |-> "config", slot |-> Bridges[i].slot]]
  BY DEF ScanReturns, IInv
<1>2. /\ command \in Scanners /\ scans = 1 /\ todo = << >> /\ access = "open"
      /\ Len(snapshot) = Len(list)
      /\ \A i \in DOMAIN snapshot : snapshot[i] = list[i]
      /\ list \in Seq(Entry) /\ snapshot \in Seq(Entry)
  BY <1>1 DEF SnapshotInv, ListInv
<1>3. DOMAIN snapshot = 1..Len(list) /\ DOMAIN list = 1..Len(list) /\ Len(list) \in Nat
  BY <1>2
<1>4. NewestFirst(Len(list))
  BY <1>1, <1>2 DEF ListInv, NewestFirst
<1>5. OneEntryPerSlot(snapshot) /\ ToSet(snapshot) = SeenEntries
  BY <1>2, <1>3, <1>4 DEF NewestFirst, OneEntryPerSlot, ToSet
<1>6. ListedFrom(snapshot, 0)
  BY <1>2, <1>3 DEF ListedFrom
<1>7. /\ todo' \in Seq([op : {"inspect", "config"}, slot : Slots])
      /\ \A i \in DOMAIN todo' : todo'[i].slot \in SlotsOf(snapshot)
  <2>1. Bridges \in Seq(Entry) /\ \A i \in DOMAIN Bridges : Bridges[i].slot \in SlotsOf(snapshot)
    BY <1>2, BridgesListed
  <2>2. CASE command = "list"
    BY <1>1, <2>2
  <2>3. CASE command # "list"
    <3>1. todo' = [i \in 1..Len(Bridges) |-> [op |-> "config", slot |-> Bridges[i].slot]]
      BY <1>1, <2>1, <2>3
    <3>2. \A i \in 1..Len(Bridges) : Bridges[i] \in Entry
      BY <2>1
    <3>3. \A e \in Entry : e.slot \in Slots
      BY DEF Entry
    <3> QED
      BY <2>1, <3>1, <3>2, <3>3
  <2> QED
    BY <2>2, <2>3
<1>8. TypeOK'
  BY <1>1, <1>7 DEF TypeOK
<1>9. SeenEntries' = SeenEntries /\ \A n : NewestFirst(n)' <=> NewestFirst(n)
  BY <1>1 DEF SeenEntries, NewestFirst
<1>10. ListInv'
  BY <1>1, <1>2, <1>9 DEF ListInv
<1>11. SnapshotInv'
  <2>1. ListedFrom(snapshot, 0)' /\ 0 \in 0..Len(list')
    BY <1>1, <1>3, <1>6 DEF ListedFrom
  <2>2. ToSet(snapshot') = SeenEntries' /\ OneEntryPerSlot(snapshot')
    BY <1>1, <1>5, <1>9
  <2> QED
    BY <1>1, <1>2, <2>1, <2>2 DEF SnapshotInv
<1>12. CallsInv' /\ AnswerInv' /\ HandleIsNewest'
  BY <1>1, <1>2, <1>7 DEF CallsInv, AnswerInv, HandleIsNewest
<1> QED
  BY <1>1, <1>8, <1>10, <1>11, <1>12 DEF IInv

(* find_raw_device scans again: the snapshot's entries move down the list. *)
LEMMA StartCallStep ==
  ASSUME IInv, StartCall
  PROVE  IInv'
<1> USE DEF machineVars, commandVars, callVars
<1>1. /\ pc = "idle" /\ pc' = "find" /\ todo # << >> /\ (command \in Scanners => scanned)
      /\ ScanBus
      /\ UNCHANGED <<machine, plugs, access, command, snapshot, scanned, todo, cursor, handle, known, answer>>
      /\ TypeOK /\ ListInv /\ SnapshotInv /\ CallsInv /\ AnswerInv /\ scans \in Nat
      /\ machine \in [Slots -> 0..MaxPlugs] /\ list \in Seq(Entry) /\ access = "open"
  BY DEF StartCall, IInv, ListInv, TypeOK
<1>2. /\ list' \in Seq(Entry) /\ seen' \in [Slots -> 0..MaxPlugs] /\ scans' = scans + 1
      /\ SlotsOf(list) \subseteq SlotsOf(list')
  BY <1>1, ScanBusFacts
<1>3. PICK n \in 0..Len(list') :
              /\ Len(list') = n + Len(list)
              /\ \A i \in 1..Len(list) : list'[n + i] = list[i]
              /\ {list'[i] : i \in 1..n} = SeenEntries'
              /\ \A i, j \in 1..n : list'[i].slot = list'[j].slot => i = j
  BY <1>1, ScanBusFacts
<1>4. scans' \in Nat /\ scans' # 0 /\ (scans' = 1 => scans = 0)
  BY <1>1, <1>2
<1>5. NewestFirst(n)'
  <2>1. scans' = 1 => n = Len(list')
    <3> SUFFICES ASSUME scans' = 1 PROVE n = Len(list')
      OBVIOUS
    <3>1. Len(list) = 0
      BY <1>1, <1>4 DEF ListInv
    <3> QED
      BY <1>3, <3>1
  <2> QED
    BY <1>3, <2>1 DEF NewestFirst
<1>6. \A i \in DOMAIN list' : list'[i] \in Entry
  BY <1>2
<1>7. TypeOK'
  BY <1>1, <1>2, <1>4, <1>6 DEF TypeOK
<1>8. ListInv'
  BY <1>1, <1>2, <1>4, <1>5 DEF ListInv
<1>9. SnapshotInv'
  <2>1. scanned => \E k \in 0..Len(list') : ListedFrom(snapshot, k)'
    <3> SUFFICES ASSUME scanned PROVE \E k \in 0..Len(list') : ListedFrom(snapshot, k)'
      OBVIOUS
    <3>1. PICK k \in 0..Len(list) : ListedFrom(snapshot, k)
      BY <1>1 DEF SnapshotInv
    <3>2. /\ Len(list) \in Nat /\ Len(snapshot) \in Nat /\ DOMAIN snapshot = 1..Len(snapshot)
          /\ n \in Nat
      BY <1>1 DEF SnapshotInv
    <3>3. n + k \in 0..Len(list') /\ Len(list') = (n + k) + Len(snapshot)
      BY <1>3, <3>1, <3>2 DEF ListedFrom
    <3>4. \A i \in DOMAIN snapshot : snapshot[i] = list'[(n + k) + i]
      <4> TAKE i \in DOMAIN snapshot
      <4>1. k + i \in 1..Len(list) /\ snapshot[i] = list[k + i] /\ n + (k + i) = (n + k) + i
        BY <3>1, <3>2 DEF ListedFrom
      <4> QED
        BY <1>3, <4>1
    <3>5. ListedFrom(snapshot, n + k)'
      BY <1>1, <3>3, <3>4 DEF ListedFrom
    <3> QED
      BY <3>3, <3>5
  <2>2. scanned => OneEntryPerSlot(snapshot) /\ scans # 0
    BY <1>1 DEF SnapshotInv
  <2> QED
    BY <1>1, <1>4, <2>1, <2>2 DEF SnapshotInv, OneEntryPerSlot
<1>10. CallsInv'
  <2>1. command \notin Scanners =>
          \A i \in DOMAIN todo' : todo'[i].op = "config" =>
            \/ i = 1 /\ todo'[1].slot \in SlotsOf(list')
            \/ i = 2 /\ todo'[1] = [op |-> "inspect", slot |-> todo'[2].slot]
    BY <1>1, <1>2 DEF CallsInv
  <2> QED
    BY <1>1, <1>4, <2>1 DEF CallsInv
<1>11. AnswerInv' /\ HandleIsNewest'
  BY <1>1 DEF AnswerInv, HandleIsNewest
<1> QED
  BY <1>4, <1>7, <1>8, <1>9, <1>10, <1>11 DEF IInv

(* The first entry of the slot is one of the last scan's, unless that scan *)
(* saw the slot empty.                                                     *)
LEMMA FoundStep ==
  ASSUME IInv, Found
  PROVE  IInv'
<1> USE DEF machineVars, sessionVars, commandVars
<1> DEFINE slot == Call.slot
           m == FirstEntry(slot)
<1>1. /\ pc = "find" /\ slot \in SlotsOf(list) /\ handle' = list[m] /\ pc' \in {"fill", "read"}
      /\ UNCHANGED <<machine, plugs, access, list, scans, seen, command, snapshot, scanned, todo, cursor, known, answer>>
      /\ TypeOK /\ ListInv /\ SnapshotInv /\ CallsInv /\ AnswerInv /\ scans \in Nat
      /\ list \in Seq(Entry) /\ todo # << >> /\ scans # 0 /\ (command \in Scanners => scanned)
  BY DEF Found, IInv, ListInv, CallsInv
<1>2. Call' = Call /\ SlotsOf(list)' = SlotsOf(list) /\ SlotsOf(snapshot)' = SlotsOf(snapshot)
  BY <1>1 DEF Call, SlotsOf
<1> HIDE DEF slot
<1>3. m \in DOMAIN list /\ list[m].slot = slot /\ \A j \in 1..(m - 1) : list[j].slot # slot
  BY <1>1, FirstEntryFacts
<1> HIDE DEF m
<1>4. handle' \in Entry /\ handle'.slot = slot
  BY <1>1, <1>3
<1>5. TypeOK'
  BY <1>1, <1>4 DEF TypeOK
<1>6. ListInv' /\ SnapshotInv'
  <2>1. pc' # "idle"
    BY <1>1
  <2> QED
    BY <1>1, <2>1, SameList
<1>7. CallsInv'
  BY <1>1, <1>2, <1>4 DEF CallsInv, slot
<1>8. AnswerInv'
  BY <1>1 DEF AnswerInv
<1>9. HandleIsNewest'
  <2>1. PICK n \in 0..Len(list) : NewestFirst(n)
    BY <1>1 DEF ListInv
  <2>2. handle'.slot \in Slots
    BY <1>4 DEF Entry
  <2>3. m \in 1..Len(list) /\ Len(list) \in Nat /\ n \in Nat
    BY <1>1, <1>3
  <2>4. CASE m \in 1..n
    <3>1. list[m] \in SeenEntries
      BY <2>1, <2>4 DEF NewestFirst
    <3>2. handle'.device = seen[handle'.slot]
      BY <1>1, <3>1 DEF SeenEntries
    <3> QED
      BY <1>1, <3>2 DEF HandleIsNewest
  <2>5. CASE m \notin 1..n
    <3>1. \A i \in 1..n : list[i].slot # slot
      BY <1>3, <2>3, <2>5
    <3>2. [slot |-> slot, device |-> seen[slot]] \notin SeenEntries
      BY <2>1, <3>1 DEF NewestFirst
    <3>3. seen[slot] = 0
      BY <1>4, <2>2, <3>2 DEF SeenEntries
    <3>4. n # Len(list)
      BY <2>3, <2>5
    <3>5. scans > 1
      BY <1>1, <2>1, <3>4 DEF NewestFirst
    <3> QED
      BY <1>1, <1>4, <3>3, <3>5 DEF HandleIsNewest
  <2> QED
    BY <2>4, <2>5
<1> QED
  BY <1>1, <1>5, <1>6, <1>7, <1>8, <1>9 DEF IInv

(* A call that does not find or fill its device is over. *)
LEMMA CallFailsStep ==
  ASSUME IInv, NotFound \/ FillFails
  PROVE  IInv'
<1> USE DEF machineVars
<1>1. PICK o \in {"DeviceNotFound", "DeviceInfo"} :
        /\ CallFails(o)
        /\ o = "DeviceNotFound" => pc = "find" /\ Call.slot \notin SlotsOf(list)
  BY DEF NotFound, FillFails
<1>2. /\ pc \in {"find", "fill"}
      /\ UNCHANGED <<machine, plugs, scans, seen, command, snapshot, scanned, cursor>>
      /\ TypeOK /\ ListInv /\ SnapshotInv /\ CallsInv /\ AnswerInv /\ scans \in Nat
      /\ todo # << >> /\ (command \in Scanners => scanned)
      /\ todo \in Seq([op : {"inspect", "config"}, slot : Slots])
  BY DEF NotFound, FillFails, IInv, CallsInv
<1>3. /\ answer'.op = Call.op /\ answer'.outcome = o /\ answer'.details = << >>
      /\ handle' = NoHandle /\ known' = {}
  BY <1>1 DEF CallFails, NoAnswer
<1>4. Call = todo[1] /\ 1 \in DOMAIN todo /\ Call \in [op : {"inspect", "config"}, slot : Slots]
  <2> DEFINE X == [op : {"inspect", "config"}, slot : Slots]
  <2>1. todo \in Seq(X) /\ todo # << >>
    BY <1>2
  <2> HIDE DEF X
  <2>2. Head(todo) = todo[1] /\ 1 \in DOMAIN todo /\ Head(todo) \in X
    BY <2>1, TailFacts
  <2> QED
    BY <2>2, Zenon DEF Call, X
<1>5. o = "DeviceNotFound" => Call.op = "inspect" /\ command \notin Scanners
  <2> SUFFICES ASSUME o = "DeviceNotFound" PROVE Call.op = "inspect" /\ command \notin Scanners
    OBVIOUS
  <2>1. Call.slot \notin SlotsOf(list)
    BY <1>1
  <2>2. command \notin Scanners
    <3> SUFFICES ASSUME command \in Scanners PROVE FALSE
      OBVIOUS
    <3>1. Call.slot \in SlotsOf(snapshot)
      BY <1>2, <1>4 DEF CallsInv
    <3> QED
      BY <1>2, <2>1, <3>1, SnapshotListed
  <2>3. Call.op # "config"
    <3>1. Call.op = "config" => todo[1].slot \in SlotsOf(list)
      BY <1>2, <1>4, <2>2 DEF CallsInv
    <3> QED
      BY <1>4, <2>1, <3>1
  <2> QED
    BY <1>4, <2>2, <2>3
<1>6. CASE command \notin Scanners
  <2>1. todo' = << >> /\ access' = "released" /\ list' = << >> /\ pc' = "exit"
    BY <1>1, <1>6 DEF CallFails, Leave
  <2> QED
    BY <1>2, <1>3, <1>5, <2>1, ExitStep
<1>7. CASE command \in Scanners
  <2>1. todo' = Tail(todo) /\ pc' = "idle" /\ UNCHANGED <<access, list>> /\ scanned
    BY <1>1, <1>2, <1>7 DEF CallFails
  <2>2. /\ todo' \in Seq([op : {"inspect", "config"}, slot : Slots])
        /\ \A i \in DOMAIN todo' : i + 1 \in DOMAIN todo /\ todo'[i] = todo[i + 1]
        /\ \A i \in DOMAIN todo' : todo'[i] \in [op : {"inspect", "config"}, slot : Slots]
    <3> DEFINE X == [op : {"inspect", "config"}, slot : Slots]
    <3>1. todo \in Seq(X) /\ todo # << >> /\ todo' = Tail(todo)
      BY <1>2, <2>1
    <3> HIDE DEF X
    <3>2. /\ todo' \in Seq(X)
          /\ \A i \in DOMAIN todo' : i + 1 \in DOMAIN todo /\ todo'[i] = todo[i + 1] /\ todo'[i] \in X
      BY <3>1, TailFacts
    <3> QED
      BY <3>2, Zenon DEF X
  <2>3. TypeOK'
    BY <1>1, <1>2, <1>3, <2>1, <2>2 DEF TypeOK
  <2>4. ListInv' /\ SnapshotInv'
    BY <1>2, <2>1, SameList
  <2>5. \A i \in DOMAIN todo' : todo'[i].slot \in SlotsOf(snapshot')
    BY <1>2, <1>7, <2>2 DEF CallsInv
  <2>6. o = "DeviceInfo"
    BY <1>5, <1>7
  <2>7. CallsInv'
    BY <1>2, <1>3, <1>7, <2>1, <2>2, <2>5, <2>6 DEF CallsInv
  <2>8. AnswerInv' /\ HandleIsNewest'
    BY <1>3, <2>1, <2>6 DEF AnswerInv, HandleIsNewest
  <2> QED
    BY <1>2, <2>3, <2>4, <2>7, <2>8 DEF IInv
<1> QED
  BY <1>6, <1>7

(* What fill_info filled in is known from now on; the handle stays.          *)
LEMMA FillInfoStep ==
  ASSUME IInv, FillInfo
  PROVE  IInv'
<1> USE DEF machineVars, sessionVars, commandVars
<1>1. /\ pc = "fill" /\ pc' = "read" /\ known' \in FillResults
      /\ UNCHANGED <<machine, plugs, access, list, scans, seen, command, snapshot, scanned, todo, cursor, handle, answer>>
      /\ TypeOK /\ ListInv /\ SnapshotInv /\ CallsInv /\ AnswerInv /\ HandleIsNewest /\ scans \in Nat
  BY DEF FillInfo, IInv
<1>2. known' \subseteq AllFields
  BY <1>1, FillAssumption
<1>3. TypeOK'
  BY <1>1, <1>2 DEF TypeOK
<1>4. ListInv' /\ SnapshotInv'
  BY <1>1, SameList
<1>5. CallsInv'
  BY <1>1 DEF CallsInv, Call, SlotsOf
<1>6. AnswerInv' /\ HandleIsNewest'
  BY <1>1 DEF AnswerInv, HandleIsNewest
<1> QED
  BY <1>1, <1>3, <1>4, <1>5, <1>6 DEF IInv

(* Every field of the details is in one of the states a field can have.    *)
LEMMA DetailsType ==
  ASSUME NEW filled, NEW gaps, NEW readable \in BOOLEAN, NEW kind
  PROVE  Details(filled, gaps, readable, kind) \in [Fields -> FieldStates]
<1>1. ASSUME NEW f \in Fields
      PROVE  Details(filled, gaps, readable, kind)[f] \in FieldStates
  <2>1. /\ LibpciField(f, filled, gaps) \in FieldStates
        /\ RegisterField(readable) \in FieldStates
        /\ KindField(f, readable, kind) \in FieldStates
        /\ CapabilitiesField(readable, gaps) \in FieldStates
    BY DEF LibpciField, RegisterField, KindField, CapabilitiesField, FieldStates, Reasons
  <2> QED
    BY <2>1 DEF Details
<1>2. Details(filled, gaps, readable, kind) =
        [f \in Fields |-> Details(filled, gaps, readable, kind)[f]]
  BY DEF Details
<1> QED
  BY <1>1, <1>2

(* The answer of a call comes from the device its handle names.              *)
LEMMA ReadStep ==
  ASSUME IInv, Read
  PROVE  IInv'
<1> USE DEF machineVars, sessionVars
<1>1. PICK readable \in {FALSE, machine[handle.slot] # 0},
           kind \in KindsOf(handle.slot), gaps \in Gaps :
       answer' = [op |-> Call.op, slot |-> Call.slot, outcome |-> "Ok",
                  device |-> handle.device,
                  bytes |-> IF readable THEN machine[handle.slot] ELSE 0,
                  details |-> IF Call.op = "inspect"
                              THEN Details(known, gaps, readable, kind)
                              ELSE << >>]
  BY DEF Read
<1>2. /\ pc = "read" /\ pc' = "idle" /\ todo' = Tail(todo) /\ handle' = NoHandle /\ known' = {}
      /\ UNCHANGED <<machine, plugs, access, list, scans, seen, command, snapshot, scanned, cursor>>
      /\ TypeOK /\ ListInv /\ SnapshotInv /\ CallsInv /\ scans \in Nat
      /\ todo # << >> /\ (command \in Scanners => scanned) /\ Call.slot \in SlotsOf(list)
      /\ todo \in Seq([op : {"inspect", "config"}, slot : Slots])
  BY DEF Read, IInv, CallsInv
<1>3. /\ answer'.op = Call.op /\ answer'.outcome = "Ok"
      /\ answer'.details = IF Call.op = "inspect" THEN Details(known, gaps, readable, kind)
                           ELSE << >>
  BY <1>1
<1>4. Details(known, gaps, readable, kind) \in [Fields -> FieldStates]
  <2>1. readable \in BOOLEAN
    OBVIOUS
  <2> QED
    BY <2>1, DetailsType
<1>5. \A f \in DOMAIN answer'.details : answer'.details[f] \in FieldStates
  BY <1>3, <1>4
<1>6. /\ todo' \in Seq([op : {"inspect", "config"}, slot : Slots])
      /\ \A i \in DOMAIN todo' : i \in Nat \ {0} /\ i + 1 \in DOMAIN todo /\ todo'[i] = todo[i + 1]
      /\ \A i \in DOMAIN todo' : todo'[i] \in [op : {"inspect", "config"}, slot : Slots]
      /\ 1 \in DOMAIN todo /\ Call = todo[1]
  <2> DEFINE X == [op : {"inspect", "config"}, slot : Slots]
  <2>1. todo \in Seq(X) /\ todo # << >> /\ todo' = Tail(todo)
    BY <1>2
  <2> HIDE DEF X
  <2>2. /\ todo' \in Seq(X) /\ 1 \in DOMAIN todo /\ Head(todo) = todo[1]
        /\ \A i \in DOMAIN todo' : /\ i \in Nat \ {0} /\ i + 1 \in DOMAIN todo
                                  /\ todo'[i] = todo[i + 1] /\ todo'[i] \in X
    BY <2>1, TailFacts
  <2> QED
    BY <2>2, Zenon DEF Call, X
<1>7. TypeOK'
  BY <1>2, <1>3, <1>5, <1>6 DEF TypeOK
<1>8. ListInv' /\ SnapshotInv'
  BY <1>2, SameList
<1>9. CallsInv'
  <2>1. command \in Scanners => \A i \in DOMAIN todo' : todo'[i].slot \in SlotsOf(snapshot')
    BY <1>2, <1>6 DEF CallsInv
  <2>2. command \notin Scanners =>
          \A i \in DOMAIN todo' : todo'[i].op = "config" =>
            i = 1 /\ todo'[1].slot \in SlotsOf(list')
    <3> SUFFICES ASSUME command \notin Scanners, NEW i \in DOMAIN todo', todo'[i].op = "config"
                 PROVE  i = 1 /\ todo'[1].slot \in SlotsOf(list')
      OBVIOUS
    <3>1. /\ i + 1 \in DOMAIN todo /\ todo[i + 1].op = "config" /\ i + 1 # 1 /\ i \in Nat
          /\ todo'[i] = todo[i + 1]
      BY <1>6
    <3>2. i + 1 = 2 /\ todo[1] = [op |-> "inspect", slot |-> todo[2].slot]
      BY <1>2, <3>1 DEF CallsInv
    <3>3. i = 1 /\ todo'[1].slot = Call.slot
      BY <1>6, <3>1, <3>2
    <3> QED
      BY <1>2, <3>3 DEF SlotsOf
  <2> QED
    BY <1>2, <1>3, <1>6, <2>1, <2>2 DEF CallsInv
<1>10. AnswerInv' /\ HandleIsNewest'
  BY <1>2, <1>3, <1>4 DEF AnswerInv, HandleIsNewest
<1> QED
  BY <1>2, <1>7, <1>8, <1>9, <1>10 DEF IInv

(* A device chosen in the TUI is inspected next.                             *)
LEMMA SelectStep ==
  ASSUME IInv, Select
  PROVE  IInv'
<1> USE DEF machineVars, sessionVars, callVars
<1>1. PICK s \in SlotsOf(snapshot) : todo' = Calls("inspect", s)
  BY DEF Select
<1>2. /\ pc = "idle" /\ command = "tui" /\ scanned
      /\ UNCHANGED <<machine, plugs, access, list, scans, seen, command, snapshot, scanned, cursor, handle, known, answer, pc>>
      /\ TypeOK /\ ListInv /\ SnapshotInv /\ CallsInv /\ AnswerInv /\ scans \in Nat
      /\ snapshot \in Seq(Entry)
  BY DEF Select, Idle, Scanners, IInv, SnapshotInv
<1>3. s \in Slots
  <2>1. PICK i \in DOMAIN snapshot : s = snapshot[i].slot
    BY DEF SlotsOf, ToSet
  <2>2. snapshot[i] \in Entry
    BY <1>2, Elements
  <2> QED
    BY <2>1, <2>2 DEF Entry
<1>4. /\ todo' \in Seq([op : {"inspect", "config"}, slot : Slots])
      /\ \A i \in DOMAIN todo' : todo'[i] \in [op : {"inspect", "config"}, slot : Slots]
      /\ \A i \in DOMAIN todo' : todo'[i].slot \in SlotsOf(snapshot)
  <2>1. todo' = <<[op |-> "inspect", slot |-> s]>>
    BY <1>1 DEF Calls
  <2>2. DOMAIN todo' = {1} /\ todo'[1] = [op |-> "inspect", slot |-> s]
    BY <2>1
  <2> QED
    BY <1>3, <2>1, <2>2
<1>5. TypeOK'
  BY <1>2, <1>4 DEF TypeOK
<1>6. ListInv' /\ SnapshotInv'
  BY <1>2, SameList
<1>7. CallsInv'
  BY <1>2, <1>4 DEF CallsInv, SlotsOf, Scanners
<1>8. AnswerInv' /\ HandleIsNewest'
  BY <1>2 DEF AnswerInv, HandleIsNewest
<1> QED
  BY <1>2, <1>5, <1>6, <1>7, <1>8 DEF IInv

(* The machine changes behind the session's back: nothing it keeps does.   *)
LEMMA MachineStep ==
  ASSUME IInv, Machine \/ UNCHANGED vars
  PROVE  IInv'
<1> USE DEF machineVars, sessionVars, commandVars, callVars
<1>1. /\ UNCHANGED <<access, list, scans, seen, command, snapshot, scanned, todo, cursor, handle, known, answer, pc>>
      /\ TypeOK /\ ListInv /\ SnapshotInv /\ CallsInv /\ AnswerInv /\ HandleIsNewest /\ scans \in Nat
  BY DEF Machine, vars, IInv
<1>2. machine' \in [Slots -> 0..MaxPlugs] /\ plugs' \in 0..MaxPlugs
  BY <1>1, BoundsAssumption DEF Machine, vars, Plug, Unplug, TypeOK
<1>3. TypeOK'
  BY <1>1, <1>2 DEF TypeOK
<1>4. ListInv' /\ SnapshotInv'
  BY <1>1, SameList
<1>5. CallsInv'
  BY <1>1 DEF CallsInv, Call, SlotsOf
<1>6. AnswerInv' /\ HandleIsNewest'
  BY <1>1 DEF AnswerInv, HandleIsNewest
<1> QED
  BY <1>1, <1>3, <1>4, <1>5, <1>6 DEF IInv

-----------------------------------------------------------------------------
(* Text and JSON.                                                          *)

(* JSON tells the state of every field, whatever it is. *)
LEMMA JsonTells ==
  ASSUME NEW details \in [Fields -> FieldStates], NEW f \in Fields
  PROVE  ToldByJson(f, details) = details[f]
<1> DEFINE object == Json(details)
<1>1. details[f] \in FieldStates
  OBVIOUS
<1>2. f \in DOMAIN object <=> (f \in DOMAIN KindFields => details[f] # "NotApplicable")
  BY DEF Json
<1>3. f \in DOMAIN object => object[f] = JsonField(details[f])
  BY DEF Json
<1> HIDE DEF object
<1>4. CASE f \notin DOMAIN object
  BY <1>2, <1>4 DEF ToldByJson, object
<1>5. CASE f \in DOMAIN object
  <2>1. /\ details[f] \in {"Available", "NotApplicable"} =>
             object[f].state = details[f]
        /\ details[f] \notin {"Available", "NotApplicable"} =>
             object[f].state = "unavailable" /\ object[f].reason = details[f]
    BY <1>3, <1>5 DEF JsonField
  <2> QED
    BY <1>1, <1>5, <2>1 DEF ToldByJson, FieldStates, Reasons, object
<1> QED
  BY <1>4, <1>5

(* A line of three pieces, and one with a reason in it. *)
ThreePieces(t, a, b, c) ==
  Len(t) = 3 /\ DOMAIN t = 1..3 /\ t[1] = a /\ t[2] = b /\ t[3] = c

SixPieces(t, a, b, c, d, e, g) ==
  /\ Len(t) = 6 /\ DOMAIN t = 1..6
  /\ t[1] = a /\ t[2] = b /\ t[3] = c /\ t[4] = d /\ t[5] = e /\ t[6] = g

(* The pieces of a line with a value ...                                     *)
LEMMA ThreeConcatenated ==
  ASSUME NEW a, NEW b, NEW c
  PROVE  ThreePieces(<<a>> \o <<b>> \o <<c>>, a, b, c)
<1> DEFINE S == {a, b, c}
           t == <<a>> \o <<b>> \o <<c>>
<1>1. t \in Seq(S) /\ Len(t) = 3
  OBVIOUS
<1>2. t[1] = a
  OBVIOUS
<1>3. t[2] = b
  OBVIOUS
<1>4. t[3] = c
  OBVIOUS
<1> HIDE DEF t, S
<1>5. DOMAIN t = 1..3
  BY <1>1
<1>6. ThreePieces(t, a, b, c)
  BY <1>1, <1>2, <1>3, <1>4, <1>5, Zenon DEF ThreePieces
<1> QED
  BY <1>6 DEF t

(* ... and of one with a failure.                                            *)
LEMMA SixConcatenated ==
  ASSUME NEW a, NEW b, NEW c, NEW d, NEW e, NEW g
  PROVE  SixPieces(<<a>> \o <<b>> \o <<c, d, e, g>>, a, b, c, d, e, g)
<1> DEFINE S == {a, b, c, d, e, g}
           t == <<a>> \o <<b>> \o <<c, d, e, g>>
<1>1. t \in Seq(S) /\ Len(t) = 6
  OBVIOUS
<1>2. t[1] = a
  OBVIOUS
<1>3. t[2] = b
  OBVIOUS
<1>4. t[3] = c
  OBVIOUS
<1>5. t[4] = d
  OBVIOUS
<1>6. t[5] = e
  OBVIOUS
<1>7. t[6] = g
  OBVIOUS
<1> HIDE DEF t, S
<1>8. DOMAIN t = 1..6
  BY <1>1
<1>9. SixPieces(t, a, b, c, d, e, g)
  BY <1>1, <1>2, <1>3, <1>4, <1>5, <1>6, <1>7, <1>8, Zenon DEF SixPieces
<1> QED
  BY <1>9 DEF t

(* A line that shows a value has three pieces ...                            *)
LEMMA LineOfValue ==
  ASSUME NEW a, NEW v
  PROVE  ThreePieces(Line(<<a>>, <<v>>), a, Colon, v)
BY ThreeConcatenated, Zenon DEF Line

(* ... and one that shows a failure has six.                                 *)
LEMMA LineOfFailure ==
  ASSUME NEW a, NEW r
  PROVE  SixPieces(Line(<<a>>, Failure(r)), a, Colon, "<unavailable", Colon, r, ">")
BY SixConcatenated, Zenon DEF Line, Failure

(* Pieces, whatever they are, as the two tests of a reader see them. *)
LEMMA SetOfThree ==
  ASSUME NEW t, NEW a, NEW b, NEW c, ThreePieces(t, a, b, c)
  PROVE  /\ \A x : x \in ToSet(t) <=> x = a \/ x = b \/ x = c
         /\ Last(t) = c
         /\ \A i \in 1..(Len(t) - 1) : t[i] = a \/ t[i] = b
<1>1. DOMAIN t = 1..3 /\ Len(t) = 3
  BY DEF ThreePieces
<1>2. t[1] = a /\ t[2] = b /\ t[3] = c
  BY DEF ThreePieces
<1>3. \A i \in 1..3 : i = 1 \/ i = 2 \/ i = 3
  OBVIOUS
<1>4. 1 \in 1..3 /\ 2 \in 1..3 /\ 3 \in 1..3
  OBVIOUS
<1>5. \A i \in 1..(3 - 1) : i = 1 \/ i = 2
  OBVIOUS
<1>6. \A x : x \in ToSet(t) <=> x = a \/ x = b \/ x = c
  BY <1>1, <1>2, <1>3, <1>4, Zenon DEF ToSet
<1>7. \A i \in 1..(Len(t) - 1) : t[i] = a \/ t[i] = b
  BY <1>1, <1>2, <1>5, Zenon
<1> QED
  BY <1>1, <1>2, <1>6, <1>7, Zenon DEF Last

(* The pieces of a failure as the two tests of a reader see them.            *)
LEMMA SetOfSix ==
  ASSUME NEW t, NEW a, NEW b, NEW c, NEW d, NEW e, NEW g, SixPieces(t, a, b, c, d, e, g)
  PROVE  /\ \A x \in ToSet(t) : x \in {a, b, c, d, e, g}
         /\ 3 \in 1..(Len(t) - 1) /\ t[3] = c /\ t[3 + 1] = d
         /\ t[Len(t) - 1] = e
<1>1. DOMAIN t = 1..6 /\ Len(t) = 6
  BY DEF SixPieces
<1>2. t[1] = a /\ t[2] = b /\ t[3] = c /\ t[4] = d /\ t[5] = e /\ t[6] = g
  BY DEF SixPieces
<1>3. \A i \in 1..6 : i = 1 \/ i = 2 \/ i = 3 \/ i = 4 \/ i = 5 \/ i = 6
  OBVIOUS
<1>4. \A x \in ToSet(t) : x \in {a, b, c, d, e, g}
  BY <1>1, <1>2, <1>3, Zenon DEF ToSet
<1>5. 3 + 1 = 4 /\ 6 - 1 = 5 /\ 3 \in 1..5
  OBVIOUS
<1> QED
  BY <1>1, <1>2, <1>4, <1>5, Zenon

(* What a reader learns from a line of either kind. *)
Told(text) ==
  IF {"<not_available>", "<not-applicable>"} \cap ToSet(text) # {} THEN "NotApplicable"
  ELSE IF TellsFailure(text) THEN text[Len(text) - 1]
  ELSE IF Last(text) = "<unavailable>" THEN "unavailable"
  ELSE "Available"

Labels == Fields \cup {"interrupt", "bus"}

(* A reader takes a line with a value for what it shows ...                  *)
LEMMA ValueTold ==
  ASSUME NEW a \in Labels, NEW v \in {"value", "<unavailable>", "<not_available>", "<not-applicable>"}
  PROVE  Told(Line(<<a>>, <<v>>)) =
           IF v = "value" THEN "Available"
           ELSE IF v = "<unavailable>" THEN "unavailable" ELSE "NotApplicable"
<1> DEFINE t == Line(<<a>>, <<v>>)
<1>1. ThreePieces(t, a, Colon, v)
  BY LineOfValue, Zenon
<1> HIDE DEF t
<1>2. a \notin {"<not_available>", "<not-applicable>", "<unavailable"}
  BY DEF Labels, Fields, Needs, Registers, KindFields
<1>3. /\ \A x : x \in ToSet(t) <=> x = a \/ x = Colon \/ x = v
      /\ Last(t) = v
      /\ \A i \in 1..(Len(t) - 1) : t[i] = a \/ t[i] = Colon
  BY <1>1, SetOfThree, Zenon
<1>4. Colon # "<unavailable" /\ Colon # "<not_available>" /\ Colon # "<not-applicable>"
  BY DEF Colon
<1>5. ~TellsFailure(t)
  BY <1>2, <1>3, <1>4, Zenon DEF TellsFailure
<1>6. {"<not_available>", "<not-applicable>"} \cap ToSet(t) # {} <=>
        v \in {"<not_available>", "<not-applicable>"}
  BY <1>2, <1>3, <1>4, Zenon
<1> QED
  BY <1>3, <1>5, <1>6 DEF Told, t

(* ... and one with a failure for the reason it gives.                       *)
LEMMA FailureTold ==
  ASSUME NEW a \in Labels, NEW r \in Reasons
  PROVE  Told(Line(<<a>>, Failure(r))) = r
<1> DEFINE t == Line(<<a>>, Failure(r))
<1>1. SixPieces(t, a, Colon, "<unavailable", Colon, r, ">")
  BY LineOfFailure, Zenon
<1> HIDE DEF t
<1>2. /\ a \notin {"<not_available>", "<not-applicable>"}
      /\ r \notin {"<not_available>", "<not-applicable>"}
  BY DEF Labels, Fields, Needs, Registers, KindFields, Reasons
<1>3. /\ \A x \in ToSet(t) : x \in {a, Colon, "<unavailable", Colon, r, ">"}
      /\ 3 \in 1..(Len(t) - 1) /\ t[3] = "<unavailable" /\ t[3 + 1] = Colon
      /\ t[Len(t) - 1] = r
  BY <1>1, SetOfSix, Zenon
<1>4. TellsFailure(t)
  BY <1>3, Zenon DEF TellsFailure
<1>5. \A x \in {a, Colon, "<unavailable", Colon, r, ">"} : x \notin {"<not_available>", "<not-applicable>"}
  <2>1. Colon # "<not_available>" /\ Colon # "<not-applicable>"
    BY DEF Colon
  <2> QED
    BY <1>2, <2>1
<1>6. {"<not_available>", "<not-applicable>"} \cap ToSet(t) = {}
  BY <1>3, <1>5, Zenon
<1> QED
  BY <1>3, <1>4, <1>6, Zenon DEF Told, t

(* The first line of one, and of a few. *)
LEMMA OneLine ==
  ASSUME NEW l
  PROVE  <<l>> # << >> /\ <<l>>[1] = l
OBVIOUS

(* The first of two lines.                                                   *)
LEMMA TwoLines ==
  ASSUME NEW l, NEW m
  PROVE  <<l, m>> # << >> /\ <<l, m>>[1] = l
OBVIOUS

(* The text tells of every field but the interrupt what the details hold.    *)
LEMMA TextTells ==
  ASSUME NEW details \in [Fields -> FieldStates],
         NEW f \in Fields \ {"interrupt_line", "interrupt_pin"}
  PROVE  ToldByText(f, details) = details[f]
<1> DEFINE lines == FieldLines(f, details, FALSE)
<1>1. details[f] \in FieldStates /\ f \in Labels /\ f # "interrupt"
  BY DEF Labels, Fields, Needs, Registers, KindFields
<1>2. lines # << >> => ToldByText(f, details) = Told(lines[1])
  BY DEF ToldByText, Told
<1>3. CASE f \in DOMAIN KindFields /\ details[f] = "NotApplicable"
  <2>1. lines = << >>
    BY <1>1, <1>3, Zenon DEF FieldLines
  <2> QED
    BY <1>3, <2>1 DEF ToldByText
<1>4. CASE f = "bridge" /\ details[f] = "Available"
  <2>1. lines = BridgeLines
    BY <1>4 DEF FieldLines
  <2>2. BridgeLines # << >> /\ BridgeLines[1] = Line(<<"bus">>, <<"value">>)
    <3>1. DOMAIN BridgeLabels = 1..6 /\ BridgeLabels[1] = "bus" /\ 1 \in 1..6
      BY DEF BridgeLabels
    <3>2. BridgeLines = [i \in 1..6 |-> Line(<<BridgeLabels[i]>>, <<"value">>)]
      BY <3>1, Zenon DEF BridgeLines
    <3>3. BridgeLines[1] = Line(<<BridgeLabels[1]>>, <<"value">>)
      BY <3>1, <3>2
    <3>4. DOMAIN BridgeLines = 1..6 /\ DOMAIN << >> = {}
      BY <3>2
    <3>5. BridgeLines # << >>
      BY <3>1, <3>4
    <3> QED
      BY <3>1, <3>3, <3>5, Zenon
  <2> QED
    BY <1>2, <1>4, <2>1, <2>2, ValueTold DEF Labels
<1>5. CASE f = "resources" /\ details[f] = "Available"
  <2>1. lines = << <<"resources:">>, <<"BAR">> >>
    BY <1>5 DEF FieldLines, KindFields
  <2>2. Told(<<"resources:">>) = "Available"
    BY DEF Told, ToSet, TellsFailure, Last
  <2>3. lines # << >> /\ lines[1] = <<"resources:">>
    BY <2>1, TwoLines, Zenon
  <2> QED
    BY <1>2, <1>5, <2>2, <2>3, Zenon
<1>6. CASE f = "capabilities" /\ details[f] = "Available"
  <2>1. lines = CapabilityLines(FALSE)
    BY <1>6 DEF FieldLines, KindFields
  <2>2. CapabilityLines(FALSE) # << >> /\ CapabilityLines(FALSE)[1] = <<"capabilities:">>
    BY DEF CapabilityLines
  <2>3. Told(<<"capabilities:">>) = "Available"
    BY DEF Told, ToSet, TellsFailure, Last
  <2> QED
    BY <1>2, <1>6, <2>1, <2>2, <2>3
<1>7. CASE /\ ~(f \in DOMAIN KindFields /\ details[f] = "NotApplicable")
           /\ ~(f = "bridge" /\ details[f] = "Available")
           /\ ~(f = "resources" /\ details[f] = "Available")
           /\ ~(f = "capabilities" /\ details[f] = "Available")
  <2>1. lines = <<Line(<<f>>, Shown(f, details[f], FALSE))>>
    BY <1>1, <1>7, Zenon DEF FieldLines
  <2>2. lines # << >> /\ lines[1] = Line(<<f>>, Shown(f, details[f], FALSE))
    BY <2>1, OneLine, Zenon
  <2>3. CASE details[f] = "Available"
    <3>1. Shown(f, details[f], FALSE) = <<"value">>
      <4>1. "Available" \notin Reasons /\ "Available" # "NotApplicable"
        BY DEF Reasons
      <4> QED
        BY <2>3, <4>1, Zenon DEF Shown
    <3> QED
      BY <1>1, <1>2, <2>2, <2>3, <3>1, ValueTold
  <2>4. CASE details[f] = "NotApplicable"
    <3>1. Shown(f, details[f], FALSE) \in {<<"<not_available>">>, <<"<not-applicable>">>}
      <4>1. "NotApplicable" \notin Reasons /\ "Available" # "NotApplicable"
        BY DEF Reasons
      <4>2. Shown(f, details[f], FALSE) = NotApplicable(f)
        BY <2>4, <4>1, Zenon DEF Shown
      <4> QED
        BY <4>2 DEF NotApplicable
    <3> QED
      BY <1>1, <1>2, <2>2, <2>4, <3>1, ValueTold
  <2>5. CASE details[f] \in Reasons
    <3>1. Shown(f, details[f], FALSE) = Failure(details[f])
      BY <2>5 DEF Shown, Reasons, Unavailable, Paint
    <3> QED
      BY <1>1, <1>2, <2>2, <2>5, <3>1, FailureTold
  <2> QED
    BY <1>1, <2>3, <2>4, <2>5 DEF FieldStates
<1> QED
  BY <1>3, <1>4, <1>5, <1>6, <1>7

(* The interrupt line of the text tells of both of its fields.               *)
LEMMA InterruptTells ==
  ASSUME NEW details \in [Fields -> FieldStates]
  PROVE  ToldByText("interrupt", details) = "Available" <=>
           \A f \in {"interrupt_line", "interrupt_pin"} : details[f] = "Available"
<1> DEFINE lines == FieldLines("interrupt", details, FALSE)
           both == details.interrupt_pin = "Available" /\ details.interrupt_line = "Available"
<1>1. lines = <<Line(<<"interrupt">>, InterruptValue(details))>>
  <2>1. /\ "interrupt" \notin DOMAIN KindFields /\ "interrupt" # "bridge"
        /\ "interrupt" # "resources" /\ "interrupt" # "capabilities"
    BY DEF KindFields
  <2> QED
    BY <2>1, Zenon DEF FieldLines
<1>2. lines # << >> /\ lines[1] = Line(<<"interrupt">>, InterruptValue(details))
  BY <1>1, OneLine, Zenon
<1>3. ToldByText("interrupt", details) = Told(lines[1])
  BY <1>2 DEF ToldByText, Told
<1>4. InterruptValue(details) = IF both THEN <<"value">> ELSE <<"<unavailable>">>
  BY DEF InterruptValue
<1>5. Told(Line(<<"interrupt">>, <<"value">>)) = "Available"
      /\ Told(Line(<<"interrupt">>, <<"<unavailable>">>)) = "unavailable"
  BY ValueTold DEF Labels
<1>6. ToldByText("interrupt", details) = "Available" <=> both
  BY <1>2, <1>3, <1>4, <1>5
<1> QED
  BY <1>6

-----------------------------------------------------------------------------
(* The theorems.                                                           *)

(* Every step keeps the invariant.                                           *)
LEMMA NextIInv ==
  ASSUME IInv, [Next]_vars
  PROVE  IInv'
<1>1. CASE New
  BY <1>1, NewStep
<1>2. CASE NewFails \/ Exit \/ Quit
  BY <1>2, LeaveSteps
<1>3. CASE StartScan
  BY <1>3, StartScanStep
<1>4. CASE ScanDevice
  BY <1>4, ScanDeviceStep
<1>5. CASE ScanReturns
  BY <1>5, ScanReturnsStep
<1>6. CASE StartCall
  BY <1>6, StartCallStep
<1>7. CASE Found
  BY <1>7, FoundStep
<1>8. CASE NotFound \/ FillFails
  BY <1>8, CallFailsStep
<1>9. CASE FillInfo
  BY <1>9, FillInfoStep
<1>10. CASE Read
  BY <1>10, ReadStep
<1>11. CASE Select
  BY <1>11, SelectStep
<1>12. CASE Machine \/ UNCHANGED vars
  BY <1>12, MachineStep
<1> QED
  BY <1>1, <1>2, <1>3, <1>4, <1>5, <1>6, <1>7, <1>8, <1>9, <1>10, <1>11, <1>12
     DEF Next, Program

(* The invariant holds in every reachable state, whatever is plugged in or  *)
(* out, and whatever pci_fill_info and the reads answer.                    *)
THEOREM Invariant == Spec => []IInv
<1>1. Init => IInv
  BY InitIInv
<1>2. IInv /\ [Next]_vars => IInv'
  BY NextIInv
<1> QED
  BY <1>1, <1>2, PTL DEF Spec

(* The raw device inspect and read_config go on with is the one this call's *)
(* own scan has found in the slot, unless the slot was empty by then.       *)
THEOREM HandleAlwaysNewest == Spec => []HandleIsNewest
<1>1. IInv => HandleIsNewest
  BY DEF IInv
<1> QED
  BY <1>1, Invariant, PTL

(* scan returns the machine as its one pci_scan_bus saw it, and no later    *)
(* scan of the session reaches into that snapshot.                          *)
THEOREM SnapshotAlwaysOneScan == Spec => []SnapshotIsOneScan
<1>1. ASSUME IInv PROVE SnapshotIsOneScan
  <2> SUFFICES ASSUME scanned, access = "open"
               PROVE  /\ OneEntryPerSlot(snapshot) /\ IsSuffix(snapshot, list)
                      /\ scans = 1 => ToSet(snapshot) = SeenEntries
    BY <1>1 DEF IInv, SnapshotIsOneScan, OneEntryPerSlot, SeenEntries
  <2>1. pc # "exit"
    BY <1>1 DEF IInv, ListInv
  <2>2. /\ OneEntryPerSlot(snapshot) /\ (scans = 1 => ToSet(snapshot) = SeenEntries)
        /\ snapshot \in Seq(Entry) /\ list \in Seq(Entry)
    BY <1>1, <2>1 DEF IInv, SnapshotInv, ListInv
  <2>3. PICK k \in 0..Len(list) : ListedFrom(snapshot, k)
    BY <1>1, <2>1 DEF IInv, SnapshotInv
  <2> DEFINE n == Len(snapshot)
             m == Len(list)
             rs == Reverse(snapshot)
             rl == Reverse(list)
  <2>4. n \in Nat /\ m \in Nat /\ m = k + n /\ k \in Nat /\ DOMAIN snapshot = 1..n
        /\ \A i \in 1..n : snapshot[i] = list[k + i]
    BY <2>2, <2>3 DEF ListedFrom
  <2>5. /\ rs = [i \in 1..n |-> snapshot[(n - i) + 1]]
        /\ rl = [i \in 1..m |-> list[(m - i) + 1]]
    BY DEF Reverse
  <2>6. Len(rs) = n /\ Len(rl) = m
    BY <2>4, <2>5
  <2>7. \A i \in 1..n : rs[i] = rl[i] /\ i \in 1..m
    <3> TAKE i \in 1..n
    <3> HIDE DEF n, m
    <3>1. (n - i) + 1 \in 1..n /\ k + ((n - i) + 1) = (m - i) + 1 /\ i \in 1..m
      BY <2>4
    <3> HIDE DEF rs, rl
    <3> QED
      BY <2>4, <2>5, <3>1
  <2>8. SubSeq(rs, 1, n) = [i \in 1..n |-> rs[i]] /\ SubSeq(rl, 1, n) = [i \in 1..n |-> rl[i]]
    <3>1. /\ rs \in Seq(Entry) /\ rl \in Seq(Entry) /\ n <= m
      <4>1. \A i \in 1..n : snapshot[(n - i) + 1] \in Entry
        BY <2>2, <2>4
      <4>2. \A i \in 1..m : list[(m - i) + 1] \in Entry
        BY <2>2, <2>4
      <4> QED
        BY <2>4, <2>5, <4>1, <4>2
    <3> HIDE DEF rs, rl, n, m
    <3>2. n \in 0..Len(rs) /\ n \in 0..Len(rl)
      BY <2>4, <2>6, <3>1
    <3>3. SubSeq(rs, 1, n) = Restrict(rs, 1..n) /\ SubSeq(rl, 1, n) = Restrict(rl, 1..n)
      BY <3>1, <3>2, SubSeqRestrict
    <3> QED
      BY <3>3 DEF Restrict
  <2> HIDE DEF rs, rl, n, m
  <2>9. SubSeq(rs, 1, n) = SubSeq(rl, 1, n)
    BY <2>7, <2>8
  <2>10. IsSuffix(snapshot, list)
    BY <2>4, <2>6, <2>9 DEF IsSuffix, IsPrefix, rs, rl, n, m
  <2> QED
    BY <2>2, <2>10
<1> QED
  BY <1>1, Invariant, PTL

(* No device the session has once shown is answered with DeviceNotFound.    *)
THEOREM FoundAlwaysStaysFound == Spec => []FoundStaysFound
<1>1. ASSUME IInv PROVE FoundStaysFound
  <2> SUFFICES ASSUME answer.outcome = "DeviceNotFound"
               PROVE  answer.slot \notin SlotsOf(snapshot) /\ answer.op = "inspect"
    BY DEF FoundStaysFound
  <2>1. command \notin Scanners /\ answer.op = "inspect"
    BY <1>1 DEF IInv, CallsInv
  <2>2. snapshot = << >>
    BY <1>1, <2>1 DEF IInv, SnapshotInv
  <2>3. SlotsOf(snapshot) = {}
    BY <2>2 DEF SlotsOf, ToSet
  <2> QED
    BY <2>1, <2>3
<1> QED
  BY <1>1, Invariant, PTL

(* The two output formats never disagree about a field of an inspection.    *)
THEOREM TextAndJsonAlwaysAgree == Spec => []TextAndJsonAgree
<1>1. ASSUME IInv PROVE TextAndJsonAgree
  <2> SUFFICES ASSUME answer.op = "inspect", answer.outcome = "Ok"
               PROVE  LET interrupts == {"interrupt_line", "interrupt_pin"}
                      IN /\ \A f \in Fields : ToldByJson(f, answer.details) = answer.details[f]
                         /\ \A f \in Fields \ interrupts :
                              ToldByText(f, answer.details) = answer.details[f]
                         /\ ToldByText("interrupt", answer.details) = "Available" <=>
                              \A f \in interrupts : answer.details[f] = "Available"
    BY DEF TextAndJsonAgree
  <2>1. answer.details \in [Fields -> FieldStates]
    BY <1>1 DEF IInv, AnswerInv
  <2> QED
    BY <2>1, JsonTells, TextTells, InterruptTells
<1> QED
  BY <1>1, Invariant, PTL
=============================================================================
