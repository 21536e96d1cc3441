-------------------------- MODULE ConfigCacheProofs -------------------------
(***************************************************************************)
(* Proofs about the promise of the configuration-space reader, for every   *)
(* set of offsets and whatever bytes the device shows.                     *)
(***************************************************************************)
EXTENDS ConfigCache, TLAPS

(* VerdictSound alone is not inductive: that a fetch with nothing pending   *)
(* has every byte cached or failed is Settled, and Return reads the cache.  *)
IInv == TypeOK /\ Settled /\ VerdictSound

(* Before the first fetch nothing is asked for.                             *)
LEMMA InitIInv == Init => IInv
BY DEF Init, IInv, TypeOK, Settled, VerdictSound, Cached

(* A call that starts leaves the cache as it is.                             *)
LEMMA BeginIInv ==
  ASSUME IInv, NEW R \in SUBSET Offset, Begin(R)
  PROVE  IInv'
<1>1. TypeOK'
  BY DEF IInv, TypeOK, Begin
<1>2. Settled'
  BY DEF IInv, Settled, Cached, Begin
<1>3. VerdictSound'
  BY DEF IInv, VerdictSound, Begin
<1> QED
  BY <1>1, <1>2, <1>3 DEF IInv

(* So does a call that is refused.                                           *)
LEMMA RefuseIInv ==
  ASSUME IInv, Refuse
  PROVE  IInv'
<1>1. pending = {}
  BY DEF IInv, VerdictSound, TypeOK, Refuse
<1> QED
  BY <1>1 DEF IInv, TypeOK, Settled, VerdictSound, Cached, Refuse

(* Loading a group settles it and changes no other byte.                    *)
LEMMA LoadIInv ==
  ASSUME IInv, NEW B \in SUBSET pending, Load(B)
  PROVE  IInv'
<1>1. /\ B \subseteq Offset
      /\ \A o \in B : cache'[o] \in Contents[o] /\ cache'[o] # Missing
      /\ \A o \in Offset \ B : cache'[o] = cache[o]
  BY ContentsAssumption, MissingAssumption DEF IInv, TypeOK, Load
<1>2. TypeOK'
  BY DEF IInv, TypeOK, Load
<1>3. Settled'
  BY <1>1 DEF IInv, TypeOK, Settled, Cached, Load
<1>4. VerdictSound'
  BY DEF IInv, VerdictSound, Load
<1> QED
  BY <1>2, <1>3, <1>4 DEF IInv

(* Offsets given up were not cached.                                         *)
LEMMA GiveUpIInv ==
  ASSUME IInv, NEW B \in SUBSET pending, GiveUp(B)
  PROVE  IInv'
<1>1. TypeOK'
  BY DEF IInv, TypeOK, GiveUp
<1>2. Settled'
  BY DEF IInv, Settled, Cached, GiveUp
<1>3. VerdictSound'
  BY DEF IInv, VerdictSound, GiveUp
<1> QED
  BY <1>1, <1>2, <1>3 DEF IInv

(* A call that returns leaves the cache as it is.                            *)
LEMMA ReturnIInv ==
  ASSUME IInv, Return
  PROVE  IInv'
BY DEF IInv, TypeOK, Settled, VerdictSound, Cached, Return

(* Every step keeps the invariant.                                           *)
LEMMA NextIInv == IInv /\ [Next]_vars => IInv'
<1>1. ASSUME IInv, UNCHANGED vars PROVE IInv'
  BY <1>1 DEF vars, IInv, TypeOK, Settled, VerdictSound, Cached
<1> QED
  BY <1>1, BeginIInv, RefuseIInv, LoadIInv, GiveUpIInv, ReturnIInv DEF Next

(* The inductive invariant holds in every reachable state.                  *)
THEOREM Invariant == Spec => []IInv
BY InitIInv, NextIInv, PTL DEF Spec

(* A fetch's verdict tells whether all its bytes are cached.                *)
THEOREM VerdictsSound == Spec => []VerdictSound
<1>1. IInv => VerdictSound
  BY DEF IInv
<1> QED
  BY <1>1, Invariant, PTL

(* First read wins, and recorded failures stay.                             *)
THEOREM FirstReadWins == Spec => CachedForever
<1> DEFINE Kept == /\ \A o \in Offset : Cached(o) => cache'[o] = cache[o]
                   /\ failed \subseteq failed'
<1>1. ASSUME IInv, Next PROVE Kept
  <2>1. ASSUME NEW B \in SUBSET pending, Load(B) PROVE Kept
    <3>1. \A o \in B : ~Cached(o)
      BY <1>1 DEF IInv, Settled
    <3> QED
      BY <2>1, <3>1 DEF Load
  <2>2. ASSUME NEW B \in SUBSET pending, GiveUp(B) PROVE Kept
    BY <2>2 DEF GiveUp
  <2> QED
    BY <1>1, <2>1, <2>2 DEF Next, Begin, Refuse, Return
<1>2. IInv /\ [Next]_vars => [Kept]_vars
  BY <1>1
<1> QED
  BY <1>2, Invariant, PTL DEF Spec, CachedForever
=============================================================================
