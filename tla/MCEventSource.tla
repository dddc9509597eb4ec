--------------------------- MODULE MCEventSource ---------------------------
(* Instances of EventSource: the mappings read one queue. *)
EXTENDS EventSource

OneQueue == [m \in Mappings |-> "queue"]
=============================================================================
