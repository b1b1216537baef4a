------------------------------ MODULE MCRemote ------------------------------
(***************************************************************************)
(* A remote for TLC: two threads, one place in flight and two in the       *)
(* queue, of which shedding leaves two in all.  MaxTime covers an opening, *)
(* its expiry, and a refill of the budget.                                 *)
(***************************************************************************)
EXTENDS Remote
=============================================================================
