------------------------------ MODULE Session -------------------------------
(***************************************************************************)
(* PciSession (crates/pci/src/session.rs) as the commands of main.rs use   *)
(* it: one libpci context, the device list libpci keeps in it, and the     *)
(* operations scan, inspect and read_config, while devices are plugged and *)
(* unplugged behind the program's back.                                    *)
(*                                                                         *)
(* libpci is external.  What the code relies on: pci_scan_bus puts one     *)
(* entry for every device present at the head of the list and removes      *)
(* none; an entry names a slot, and reading configuration space through it *)
(* reaches whatever device sits in that slot by then.                      *)
(*                                                                         *)
(* Configuration reads, the capability walk and the decoders of inspect    *)
(* are ConfigReader, CapabilityWalk and Inspect; here a device answers all *)
(* reads of its header or none.                                            *)
(***************************************************************************)
EXTENDS Rendering

CONSTANTS
  Slots,        \* the PciAddresses of the machine
  BridgeSlots,  \* those whose devices have class 0x0604
  FillResults,  \* what pci_fill_info may report: sets of fields
  Gaps,         \* what it may fill with "nothing": sets of libpci fields
  Kinds,        \* header types of the devices in the other slots
  Commands,     \* the commands run: subset of AllCommands
  MaxPlugs,     \* bound: devices plugged in one run, the first ones included
  MaxScans      \* bound: pci_scan_bus calls in one session

AllCommands == {"list", "tree", "show", "show_config", "tui"}
Scanners == {"list", "tree", "tui"}

ASSUME SlotsAssumption == IsFiniteSet(Slots) /\ BridgeSlots \subseteq Slots
ASSUME FillAssumption == FillResults \subseteq SUBSET AllFields
ASSUME CommandsAssumption == Commands \subseteq AllCommands
ASSUME BoundsAssumption == MaxPlugs \in Nat /\ MaxScans \in Nat

VARIABLES
  machine,   \* external: the device in each slot, 0 for none
  plugs,     \* external: devices plugged so far
  access,    \* PciSession.access: "none", "open", "released"
  list,      \* (*access).devices: Seq of [slot, device], head first
  scans,     \* pci_scan_bus calls on this session
  seen,      \* the machine as the last of them saw it (history)
  command,   \* the command the process runs
  snapshot,  \* PciSnapshot.devices of scan
  scanned,   \* scan has returned it
  todo,      \* session calls the command has still to make: Seq of [op, slot]
  cursor,    \* entry of the list scan has come to
  handle,    \* the raw device find_raw_device returned
  known,     \* known_fields of the inspection
  answer,    \* the last answer of inspect or read_config
  pc

machineVars == <<machine, plugs>>
sessionVars == <<access, list, scans, seen>>
callVars == <<cursor, handle, known, answer>>
commandVars == <<command, snapshot, scanned, todo>>
vars == <<machineVars, sessionVars, callVars, commandVars, pc>>

NoHandle == [slot |-> "none", device |-> 0]
NoAnswer == [op |-> "none", slot |-> "none", outcome |-> "none", device |-> 0,
             bytes |-> 0, details |-> << >>]

Calls(op, slot) == <<[op |-> op, slot |-> slot]>>
SlotsOf(s) == {e.slot : e \in ToSet(s)}

-----------------------------------------------------------------------------
(* External: the machine, and pci_scan_bus.                                *)

Plug(s) ==
  /\ machine[s] = 0
  /\ plugs < MaxPlugs
  /\ machine' = [machine EXCEPT ![s] = plugs + 1]
  /\ plugs' = plugs + 1

Unplug(s) ==
  /\ machine[s] # 0
  /\ machine' = [machine EXCEPT ![s] = 0]
  /\ UNCHANGED plugs

Present == {[slot |-> s, device |-> machine[s]] : s \in {t \in Slots : machine[t] # 0}}

(* Mutant: a rescan replaces the list, as PCI_FILL_RESCAN would. *)
Mut_ScanReplaces ==
  /\ list' = SetToSeq(Present)
  /\ seen' = machine
  /\ scans' = scans + 1

ScanBus ==
  /\ list' = SetToSeq(Present) \o list
  /\ seen' = machine
  /\ scans' = scans + 1

-----------------------------------------------------------------------------
(* The commands.                                                           *)

Init ==
  /\ machine \in [Slots -> 0..MaxPlugs]
  /\ plugs = Cardinality({s \in Slots : machine[s] # 0})
  /\ {machine[s] : s \in Slots} \ {0} = 1..plugs
  /\ access = "none"
  /\ list = << >> /\ scans = 0 /\ seen = [s \in Slots |-> 0]
  /\ command \in Commands
  /\ snapshot = << >> /\ scanned = FALSE
  /\ todo = << >>
  /\ cursor = 1 /\ handle = NoHandle /\ known = {} /\ answer = NoAnswer
  /\ pc = "start"

(* What run_show asks for; the others ask for more after their scan. *)
FirstCalls(slot) ==
  CASE command = "show" -> Calls("inspect", slot)
    [] command = "show_config" -> Calls("inspect", slot) \o Calls("config", slot)
    [] OTHER -> << >>

New ==
  /\ pc = "start"
  /\ access' = "open"
  /\ \E slot \in Slots : todo' = FirstCalls(slot)
  /\ pc' = "idle"
  /\ UNCHANGED <<machineVars, list, scans, seen, command, snapshot, scanned, callVars>>

(* pci_alloc returned null. *)
NewFails ==
  /\ pc = "start"
  /\ pc' = "exit"
  /\ UNCHANGED <<machineVars, sessionVars, commandVars, callVars>>

(* The command returns: PciSession is dropped, pci_cleanup frees the list. *)
Leave ==
  /\ access' = "released"
  /\ list' = << >>
  /\ pc' = "exit"

-----------------------------------------------------------------------------
(* scan: a device whose identity or class is not filled fails all of it.   *)

StartScan ==
  /\ pc = "idle" /\ command \in Scanners /\ ~ scanned
  /\ ScanBus
  /\ cursor' = 1
  /\ pc' = "scan"
  /\ UNCHANGED <<machineVars, access, commandVars, handle, known, answer>>

(* Mutant: a device that cannot be filled is passed over. *)
Mut_PassOver(filled) ==
  /\ snapshot' = IF RequiredFields \subseteq filled
                 THEN Append(snapshot, list[cursor]) ELSE snapshot
  /\ cursor' = cursor + 1
  /\ UNCHANGED <<access, list, pc>>

(* Mutant: the loop does not go to raw.next. *)
Mut_SameEntry(filled) ==
  /\ UNCHANGED <<snapshot, cursor, access, list, pc>>

TakeDevice(filled) ==
  IF RequiredFields \subseteq filled
  THEN /\ snapshot' = Append(snapshot, list[cursor])
       /\ cursor' = cursor + 1
       /\ UNCHANGED <<access, list, pc>>
  ELSE /\ snapshot' = << >>
       /\ Leave
       /\ UNCHANGED cursor

ScanDevice ==
  /\ pc = "scan" /\ cursor <= Len(list)
  /\ \E filled \in FillResults : TakeDevice(filled)
  /\ UNCHANGED <<machineVars, scans, seen, command, scanned, todo, handle, known, answer>>

(* tree and tui go on to read the bus window of every bridge. *)
Bridges ==
  LET bridges[n \in 0..Len(snapshot)] ==
        IF n = 0 THEN << >>
        ELSE IF snapshot[n].slot \in BridgeSlots THEN Append(bridges[n - 1], snapshot[n])
        ELSE bridges[n - 1]
  IN bridges[Len(snapshot)]

ScanReturns ==
  /\ pc = "scan" /\ cursor > Len(list)
  /\ scanned' = TRUE
  /\ todo' = IF command = "list" THEN << >>
             ELSE [i \in DOMAIN Bridges |-> [op |-> "config", slot |-> Bridges[i].slot]]
  /\ pc' = "idle"
  /\ UNCHANGED <<machineVars, sessionVars, command, snapshot, callVars>>

-----------------------------------------------------------------------------
(* find_raw_device: scans the bus again, then takes the first match.       *)

Call == Head(todo)

StartCall ==
  /\ pc = "idle" /\ todo # << >>
  /\ command \in Scanners => scanned
  /\ ScanBus
  /\ pc' = "find"
  /\ UNCHANGED <<machineVars, access, commandVars, callVars>>

(* Mutant: the search runs on to the last entry of the slot. *)
Mut_LastEntry(slot) == CHOOSE i \in DOMAIN list :
  /\ list[i].slot = slot
  /\ \A j \in i + 1..Len(list) : list[j].slot # slot

FirstEntry(slot) == CHOOSE i \in DOMAIN list :
  /\ list[i].slot = slot
  /\ \A j \in 1..i - 1 : list[j].slot # slot

Found ==
  /\ pc = "find" /\ Call.slot \in SlotsOf(list)
  /\ handle' = list[FirstEntry(Call.slot)]
  /\ pc' = IF Call.op = "inspect" THEN "fill" ELSE "read"
  /\ UNCHANGED <<machineVars, sessionVars, commandVars, cursor, known, answer>>

(* An error ends show; tui shows it in place of the detail, and the reader
   of bridge windows goes on without the window. *)
CallFails(outcome) ==
  /\ answer' = [NoAnswer EXCEPT !.op = Call.op, !.slot = Call.slot, !.outcome = outcome]
  /\ handle' = NoHandle
  /\ known' = {}
  /\ IF command \in Scanners
     THEN /\ todo' = Tail(todo)
          /\ pc' = "idle"
          /\ UNCHANGED <<access, list>>
     ELSE /\ todo' = << >>
          /\ Leave

NotFound ==
  /\ pc = "find" /\ Call.slot \notin SlotsOf(list)
  /\ CallFails("DeviceNotFound")
  /\ UNCHANGED <<machineVars, scans, seen, command, snapshot, scanned, cursor>>

-----------------------------------------------------------------------------
(* inspect and read_config with the raw device.                            *)

FillInfo ==
  /\ pc = "fill"
  /\ \E filled \in FillResults :
       /\ RequiredFields \subseteq filled
       /\ known' = filled
  /\ pc' = "read"
  /\ UNCHANGED <<machineVars, sessionVars, commandVars, cursor, handle, answer>>

FillFails ==
  /\ pc = "fill"
  /\ \E filled \in FillResults : ~ (RequiredFields \subseteq filled)
  /\ CallFails("DeviceInfo")
  /\ UNCHANGED <<machineVars, scans, seen, command, snapshot, scanned, cursor>>

KindsOf(slot) == IF slot \in BridgeSlots THEN {"Bridge"} ELSE Kinds

(* The header is readable if a device answers; the process may lack the
   right even so. *)
Read ==
  /\ pc = "read"
  /\ \E readable \in {FALSE, machine[handle.slot] # 0},
       kind \in KindsOf(handle.slot), gaps \in Gaps :
       answer' = [op |-> Call.op, slot |-> Call.slot, outcome |-> "Ok",
                  device |-> handle.device,
                  bytes |-> IF readable THEN machine[handle.slot] ELSE 0,
                  details |-> IF Call.op = "inspect"
                              THEN Details(known, gaps, readable, kind)
                              ELSE << >>]
  /\ todo' = Tail(todo)
  /\ handle' = NoHandle
  /\ known' = {}
  /\ pc' = "idle"
  /\ UNCHANGED <<machineVars, sessionVars, command, snapshot, scanned, cursor>>

-----------------------------------------------------------------------------
(* run_tui keeps the session: every row selected is inspected anew.        *)

Idle == pc = "idle" /\ todo = << >> /\ (command \in Scanners => scanned)

Select ==
  /\ Idle /\ command = "tui" /\ scans < MaxScans
  /\ \E s \in SlotsOf(snapshot) : todo' = Calls("inspect", s)
  /\ UNCHANGED <<machineVars, sessionVars, command, snapshot, scanned, callVars, pc>>

Quit ==
  /\ Idle /\ command = "tui"
  /\ Leave
  /\ UNCHANGED <<machineVars, scans, seen, commandVars, callVars>>

Exit ==
  /\ Idle /\ command # "tui"
  /\ Leave
  /\ UNCHANGED <<machineVars, scans, seen, commandVars, callVars>>

Machine ==
  /\ pc # "exit"
  /\ \E s \in Slots : Plug(s) \/ Unplug(s)
  /\ UNCHANGED <<sessionVars, commandVars, callVars, pc>>

Program ==
  \/ New \/ NewFails
  \/ StartScan \/ ScanDevice \/ ScanReturns
  \/ StartCall \/ Found \/ NotFound
  \/ FillInfo \/ FillFails \/ Read
  \/ Exit

Next == Program \/ Select \/ Quit \/ Machine

Spec == Init /\ [][Next]_vars /\ WF_vars(Program)

-----------------------------------------------------------------------------

Entry == [slot : Slots, device : 1..MaxPlugs]

(* The variables have the types their comments give them. *)
TypeOK ==
  /\ machine \in [Slots -> 0..MaxPlugs] /\ plugs \in 0..MaxPlugs
  /\ access \in {"none", "open", "released"}
  /\ \A i \in DOMAIN list : list[i] \in Entry
  /\ scans \in Nat /\ seen \in [Slots -> 0..MaxPlugs]
  /\ command \in Commands
  /\ \A i \in DOMAIN snapshot : snapshot[i] \in Entry
  /\ scanned \in BOOLEAN
  /\ \A i \in DOMAIN todo : todo[i] \in [op : {"inspect", "config"}, slot : Slots]
  /\ cursor \in 1..Len(list) + 1 \/ pc # "scan"
  /\ handle \in Entry \cup {NoHandle} /\ known \subseteq AllFields
  /\ answer.outcome \in {"none", "Ok", "DeviceNotFound", "DeviceInfo"}
  /\ \A f \in DOMAIN answer.details : answer.details[f] \in FieldStates
  /\ pc \in {"start", "idle", "scan", "find", "fill", "read", "exit"}

(* find_raw_device rescans a list that only grows, so a slot can have
   several entries: the raw device inspect and read_config go on with is
   the one this call's own scan found there.  Only when the slot was empty
   by then is it the entry of a device that has left. *)
HandleIsNewest ==
  pc \in {"fill", "read"} =>
    \/ handle.device = seen[handle.slot]
    \/ seen[handle.slot] = 0 /\ scans > 1

(* What scan returns is the machine as its one pci_scan_bus saw it: every
   device once, none left out although pci_fill_info may fail for any, and
   later scans of the session do not reach into it.  (With the types of the
   variables.) *)
SnapshotIsOneScan ==
  /\ TypeOK
  /\ scanned /\ access = "open" =>
       /\ \A i, j \in DOMAIN snapshot : snapshot[i].slot = snapshot[j].slot => i = j
       /\ IsSuffix(snapshot, list)
       /\ scans = 1 => ToSet(snapshot) = {[slot |-> s, device |-> seen[s]] :
                                            s \in {t \in Slots : seen[t] # 0}}

(* A device the session has once shown is never answered with
   DeviceNotFound, even after it was unplugged: no row of the tree or the
   TUI fails that way, and show --config does not lose an inspection that
   succeeded to the read_config behind it. *)
FoundStaysFound ==
  answer.outcome = "DeviceNotFound" =>
    /\ answer.slot \notin SlotsOf(snapshot)
    /\ answer.op = "inspect"

(* Text and JSON tell the same of every field, whatever state it is in: the *)
(* one that inspect gave it.  Only of the two interrupt fields the text     *)
(* tells no more than whether both are there.                               *)
TextAndJsonAgree ==
  answer.op = "inspect" /\ answer.outcome = "Ok" =>
    LET interrupts == {"interrupt_line", "interrupt_pin"}
    IN /\ \A f \in Fields : ToldByJson(f, answer.details) = answer.details[f]
       /\ \A f \in Fields \ interrupts :
            ToldByText(f, answer.details) = answer.details[f]
       /\ ToldByText("interrupt", answer.details) = "Available" <=>
            \A f \in interrupts : answer.details[f] = "Available"

(* A command that does not wait for the user ends, with the libpci context
   released if there was one, whatever the calls answer. *)
CommandEnds ==
  command # "tui" ~> pc = "exit" /\ access \in {"none", "released"}

-----------------------------------------------------------------------------
(* What the documents say and the code does not do.                        *)

(* docs/superpowers/specs/2026-08-10-header-remaining-fields-design.md:32:
   the fields decoded from an unreadable header are Unavailable, and by :50
   only a device that is no bridge has no bridge field. *)
UnreadableIsUnavailable ==
  (answer.op = "inspect" /\ answer.outcome = "Ok" /\ answer.bytes = 0) =>
    /\ \A f \in Registers : answer.details[f] = "ReadError"
    /\ answer.slot \in BridgeSlots => answer.details.bridge = "ReadError"

=============================================================================
