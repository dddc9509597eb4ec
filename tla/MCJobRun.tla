------------------------------ MODULE MCJobRun ------------------------------
(* Instances of JobRun. *)
EXTENDS JobRun
=============================================================================
