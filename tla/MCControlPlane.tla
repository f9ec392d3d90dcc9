--------------------------- MODULE MCControlPlane ---------------------------
(* Instances of ControlPlane for TLC. *)
EXTENDS ControlPlane, TLC

CONSTANTS i1, i2, net, d1, d2

Spec1 == [dnn |-> net, dest |-> d1]
Spec2 == [dnn |-> net, dest |-> d2]

MCSpecs == {Spec1, Spec2}

\* The second id may ask for the first one's destination.
MCSpecsOf == [i \in Ids |-> IF i = i1 THEN {Spec1} ELSE {Spec1, Spec2}]

\* Nothing tells one policy from another.
MCSymmetry == Permutations(Policies)
=============================================================================
