------------------------------- MODULE MCOdb -------------------------------
(* Small instances of Odb. *)
EXTENDS Odb, TLC

OneDir == [o \in Oid |-> CHOOSE d \in Dir : TRUE]

Symmetry == Permutations(Proc)
=============================================================================
