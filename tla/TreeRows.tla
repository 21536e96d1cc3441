------------------------------ MODULE TreeRows -------------------------------
(* What the browser may take for granted of the rows TreeModel::build makes: *)
(* BusTreeProofs shows it of BusTree's rows, TuiApp assumes it of its own.   *)
EXTENDS Integers

(* A forest in preorder: the parent of a row that is not at the top precedes *)
(* it one level up, can be unfolded, and every row between the two lies      *)
(* below that parent.                                                        *)
Preorder(t) ==
  \A i \in DOMAIN t :
    /\ t[i].depth \in Nat
    /\ IF t[i].depth = 0 THEN t[i].parent = 0 /\ t[i].expandable
       ELSE LET p == t[i].parent
            IN /\ p \in 1..(i - 1)
               /\ t[p].depth = t[i].depth - 1 /\ t[p].expandable
               /\ \A j \in (p + 1)..(i - 1) : t[j].depth > t[p].depth

=============================================================================
