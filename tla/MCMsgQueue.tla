----------------------------- MODULE MCMsgQueue -----------------------------
(* Instances of MsgQueue: its backoff tables. *)
EXTENDS MsgQueue

MCBackoff == [d \in 0 .. 1 |-> d]
MCNoBackoff == [d \in 0 .. 0 |-> 0]
=============================================================================
