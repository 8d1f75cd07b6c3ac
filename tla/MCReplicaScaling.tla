-------------------------- MODULE MCReplicaScaling --------------------------
(* ReplicaScaling with at most three replicas: the smallest number for      *)
(* which disabling from the lowest index up can leave a hole.               *)
EXTENDS ReplicaScaling
=============================================================================
