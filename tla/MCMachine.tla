------------------------------ MODULE MCMachine ------------------------------
(* Instances of Machine. *)
EXTENDS Machine
=============================================================================
