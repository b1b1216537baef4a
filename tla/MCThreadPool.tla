------------------------------ MODULE MCThreadPool ------------------------------
(***************************************************************************)
(* The thread pool for TLC.  The pool run has two workers, two clients, a  *)
(* ring of two slots and three tasks, so that the ring fills, refuses and  *)
(* wraps around; the free run has the one client the code's pools have.    *)
(***************************************************************************)
EXTENDS ThreadPool
================================================================================
