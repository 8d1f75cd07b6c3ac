-------------------------- MODULE MCServerServices --------------------------
(* ServerServices with one replica of each replicated service at most: what *)
(* several replicas of one service add is the subject of ReplicaScaling.    *)
EXTENDS ServerServices
=============================================================================
