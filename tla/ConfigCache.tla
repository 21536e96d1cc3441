---------------------------- MODULE ConfigCache ----------------------------
(***************************************************************************)
(* What the configuration-space reader of crates/pci promises its callers, *)
(* free of segments, cursors and block sizes.                              *)
(*                                                                         *)
(* A reader owns a cache of bytes.  A fetch asks for a set of byte         *)
(* offsets; the bytes not cached yet are settled group by group, each      *)
(* group either loaded from the device or given up; when nothing is left   *)
(* the fetch returns its verdict.  ConfigReader refines this module.       *)
(***************************************************************************)
EXTENDS Integers

CONSTANTS
  Offset,     \* the byte offsets of the configuration space
  Byte,       \* the values a byte can have
  Contents,   \* Contents[o]: the values the device may show at offset o
  Missing     \* marks a byte the cache does not hold

ASSUME ContentsAssumption == Contents \in [Offset -> SUBSET Byte]
ASSUME MissingAssumption  == Missing \notin Byte

VARIABLES
  cache,      \* offset -> byte, or Missing
  failed,     \* offsets covered by a recorded failure
  wanted,     \* offsets of the current fetch, or of the last one
  pending,    \* offsets of the current fetch not settled yet
  status      \* "idle", "busy", or the verdict of the last fetch

vars == <<cache, failed, wanted, pending, status>>

Cached(o) == cache[o] # Missing

Init ==
  /\ cache = [o \in Offset |-> Missing]
  /\ failed = {}
  /\ wanted = {}
  /\ pending = {}
  /\ status = "idle"

(* Mutant: cached bytes are read again. *)
Mut_BeginAnew(R) ==
  /\ status # "busy" /\ R # {}
  /\ wanted' = R /\ pending' = R /\ status' = "busy"
  /\ UNCHANGED <<cache, failed>>

(* A fetch of the bytes R starts.  R is a non-empty range. *)
Begin(R) ==
  /\ status # "busy"
  /\ R # {}
  /\ wanted' = R
  /\ pending' = {o \in R : ~Cached(o)}
  /\ status' = "busy"
  /\ UNCHANGED <<cache, failed>>

(* A fetch of no byte, or of a range past the end of the address type. *)
Refuse ==
  /\ status # "busy"
  /\ wanted' = {}
  /\ status' = "err"
  /\ UNCHANGED <<cache, failed, pending>>

(* The device answers for the group B: the bytes it shows enter the cache. *)
Load(B) ==
  /\ status = "busy"
  /\ B # {}
  /\ cache' \in [Offset -> Byte \cup {Missing}]
  /\ \A o \in B : cache'[o] \in Contents[o]
  /\ \A o \in Offset \ B : cache'[o] = cache[o]
  /\ pending' = pending \ B
  /\ UNCHANGED <<failed, wanted, status>>

(* The device does not answer for the group B: a failure is recorded. *)
GiveUp(B) ==
  /\ status = "busy"
  /\ B # {}
  /\ failed' = failed \cup B
  /\ pending' = pending \ B
  /\ UNCHANGED <<cache, wanted, status>>

(* Mutant: the verdict is taken from the failures recorded so far. *)
Mut_ReturnByFailures ==
  /\ status = "busy" /\ pending = {}
  /\ status' = IF wanted \cap failed = {} THEN "ok" ELSE "err"
  /\ UNCHANGED <<cache, failed, wanted, pending>>

(* Every byte is settled: the fetch succeeds iff all of them are cached. *)
Return ==
  /\ status = "busy"
  /\ pending = {}
  /\ status' = IF \A o \in wanted : Cached(o) THEN "ok" ELSE "err"
  /\ UNCHANGED <<cache, failed, wanted, pending>>

Next ==
  \/ \E R \in SUBSET Offset : Begin(R)
  \/ Refuse
  \/ \E B \in SUBSET pending : Load(B)
  \/ \E B \in SUBSET pending : GiveUp(B)
  \/ Return

Spec == Init /\ [][Next]_vars

-----------------------------------------------------------------------------

(* The variables have the types their comments give them.                   *)
TypeOK ==
  /\ cache \in [Offset -> Byte \cup {Missing}]
  /\ failed \subseteq Offset
  /\ wanted \subseteq Offset
  /\ pending \subseteq wanted
  /\ status \in {"idle", "busy", "ok", "err"}

(* What is still pending is not cached, and what is settled is cached or   *)
(* covered by a failure: no byte of a request is lost between the two.     *)
Settled ==
  /\ \A o \in pending : ~Cached(o)
  /\ \A o \in wanted \ pending : Cached(o) \/ o \in failed

(* The verdict: a fetch that returned has settled every byte; success      *)
(* means all the bytes asked for are there, and a fetch of actual bytes    *)
(* fails only if one of them is not.                                       *)
VerdictSound ==
  /\ status # "busy" => pending = {}
  /\ status \in {"busy", "ok"} => wanted # {}
  /\ status = "ok" => \A o \in wanted : Cached(o)
  /\ status = "err" => wanted = {} \/ \E o \in wanted : ~Cached(o)

(* First read wins: a cached byte is never dropped or replaced, whatever   *)
(* the device shows later, and a recorded failure is never withdrawn.      *)
CachedForever ==
  [][/\ \A o \in Offset : Cached(o) => cache'[o] = cache[o]
     /\ failed \subseteq failed']_vars
=============================================================================
