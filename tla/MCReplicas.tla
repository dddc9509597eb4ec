----------------------------- MODULE MCReplicas -----------------------------
(* Instances of Replicas: the specifications the clouds use and two more. *)
EXTENDS Replicas

MCSpecs == {[restart |-> "Always", inPlace |-> FALSE],      \* Cloud Run
            [restart |-> "Always", inPlace |-> TRUE],       \* Container Apps
            [restart |-> "OnFailure", inPlace |-> FALSE],
            [restart |-> "Never", inPlace |-> TRUE]}
=============================================================================
