------------------------------ MODULE Replicas ------------------------------
(***************************************************************************)
(* Instances of a systemd template unit, as shared/podman/systemd.go       *)
(* handles them.  Replica i of a service is the unit service@i.service;    *)
(* a set of replicas is the set of their indices.                          *)
(***************************************************************************)
EXTENDS Integers

CONSTANT MaxReplicas          \* named bound: the most replicas ever asked for

ASSUME MaxReplicasAssumption == MaxReplicas \in Nat

Index == 0 .. MaxReplicas - 1

\* The replicas an operator means when asking for n of them.
FirstReplicas(n) == 0 .. n - 1

\* CurrentReplicaCount asks systemctl is-enabled for service@0, service@1, ...
\* and stops at the first one that is not: it is the length of the prefix of
\* enabled replicas, whatever is enabled after the first hole.
CurrentReplicaCount(enabled) ==
  CHOOSE n \in 0 .. MaxReplicas :
    /\ n \notin enabled
    /\ FirstReplicas(n) \subseteq enabled

\* No replica is enabled behind a hole.
IsPrefix(enabled) == enabled = FirstReplicas(CurrentReplicaCount(enabled))
=============================================================================
