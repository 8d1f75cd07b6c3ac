------------------------ MODULE ReplicaScalingProofs ------------------------
(***************************************************************************)
(* Proofs about ReplicaScaling, for any number of replicas.                *)
(***************************************************************************)
EXTENDS ReplicaScaling, WellFoundedInduction, TLAPS

\* CurrentReplicaCount is well defined: the loop over is-enabled ends at the
\* first replica that is not enabled, at the latest after the last replica.
LEMMA CountDefined ==
  ASSUME NEW E \in SUBSET Index
  PROVE  /\ CurrentReplicaCount(E) \in 0 .. MaxReplicas
         /\ CurrentReplicaCount(E) \notin E
         /\ FirstReplicas(CurrentReplicaCount(E)) \subseteq E
<1> DEFINE Holes == {n \in Nat : n \notin E}
<1> USE MaxReplicasAssumption
<1>1. MaxReplicas \in Holes
  BY DEF Index
<1>2. PICK n \in Holes : \A k \in Holes : ~ (<<k, n>> \in OpToRel(<, Nat))
  BY <1>1, NatLessThanWellFounded, WFMin
<1>3. \A k \in Holes : ~ (k < n)
  BY <1>2 DEF OpToRel
<1>4. n \in 0 .. MaxReplicas
  BY <1>1, <1>3
<1>5. FirstReplicas(n) \subseteq E
  BY <1>3, <1>4 DEF FirstReplicas
<1>6. \E m \in 0 .. MaxReplicas : m \notin E /\ FirstReplicas(m) \subseteq E
  BY <1>4, <1>5
<1>7. QED
  BY <1>6, Zenon DEF CurrentReplicaCount

\* Without a hole the count is the number of the replicas.
LEMMA CountOfPrefix ==
  ASSUME NEW n \in 0 .. MaxReplicas
  PROVE  CurrentReplicaCount(FirstReplicas(n)) = n
<1> USE MaxReplicasAssumption
<1> DEFINE m == CurrentReplicaCount(FirstReplicas(n))
<1>1. FirstReplicas(n) \in SUBSET Index
  BY DEF FirstReplicas, Index
<1>2. m \in 0 .. MaxReplicas /\ m \notin FirstReplicas(n)
      /\ FirstReplicas(m) \subseteq FirstReplicas(n)
  BY <1>1, CountDefined
<1> HIDE DEF m
<1>3. ~ (m < n)
  BY <1>2 DEF FirstReplicas
<1>4. ~ (n < m)
  BY <1>2 DEF FirstReplicas
<1>5. m = n
  BY <1>2, <1>3, <1>4
<1>6. QED
  BY <1>5 DEF m

-----------------------------------------------------------------------------

\* The replica count of the model is one of its replica counts.
LEMMA CountTyped == TypeOK => Count \in 0 .. MaxReplicas
<1>1. {} \in SUBSET Index
  OBVIOUS
<1>2. ASSUME TypeOK PROVE Enabled \in SUBSET Index
  BY <1>1, <1>2 DEF TypeOK, Enabled
<1>3. QED
  BY <1>2, CountDefined DEF Count

-----------------------------------------------------------------------------
(* The inductive invariant.  Its parts say where each loop stands.         *)

\* The two halves of TypeOK: the flags, and everything else.
FlagsOK ==
  /\ installed \in BOOLEAN
  /\ failed \in BOOLEAN
  /\ cut \in BOOLEAN
  /\ bootOff \in BOOLEAN

CallOK ==
  /\ enabled \subseteq Index
  /\ active \subseteq Index
  /\ op \in {"none", "disable"} \cup Loops \cup Scalings
  /\ phase \in {"idle", "enable", "disable", "boot", "loop"}
  /\ i \in 0 .. MaxReplicas
  /\ current \in 0 .. MaxReplicas
  /\ target \in 0 .. MaxReplicas
  /\ result \in {"none", "ok", "error", "killed"}

\* A loop index has not left its range, and an uninstallation scales to zero.
LoopsInRange ==
  /\ phase = "enable" => i < target
  /\ phase = "disable" => target <= i /\ i < current
  /\ phase = "boot" => op = "disable"
  /\ op = "uninstall" => target = 0

\* What is enabled at each stage when no disabling loop was cut.
StageOfEnabled ==
  ~cut =>
    /\ ~installed => enabled = {}
    /\ phase = "enable" => enabled = FirstReplicas(i)
    /\ phase = "disable" => enabled = FirstReplicas(target) \cup (i .. current - 1)
    /\ phase = "boot" => enabled = i .. current - 1
    /\ (phase = "loop" /\ op \in Scalings) => enabled = FirstReplicas(target)
    /\ phase \in {"idle", "loop"} => enabled = FirstReplicas(CurrentReplicaCount(enabled))

\* Replicas are disabled at boot only by DisableServices.
BootLoopIsOff == phase = "boot" => bootOff

IInv == TypeOK /\ LoopsInRange /\ StageOfEnabled /\ BootLoopIsOff /\ RunningAreEnabled

LEMMA TypeParts == TypeOK <=> FlagsOK /\ CallOK
BY DEF TypeOK, FlagsOK, CallOK

LEMMA InitIInv == Init => IInv
<1> SUFFICES ASSUME Init PROVE IInv
  OBVIOUS
<1> USE MaxReplicasAssumption
<1>1. PICK n \in 0 .. MaxReplicas : enabled = FirstReplicas(n) /\ active = FirstReplicas(n)
  BY DEF Init
<1>2. FlagsOK
  BY DEF Init, FlagsOK
<1>3. CallOK
  BY <1>1 DEF Init, CallOK, FirstReplicas, Index
<1>4. LoopsInRange /\ BootLoopIsOff
  BY DEF Init, LoopsInRange, BootLoopIsOff
<1>5. StageOfEnabled
  BY <1>1, CountOfPrefix DEF Init, StageOfEnabled
<1>6. RunningAreEnabled
  BY <1>1 DEF RunningAreEnabled
<1>7. QED
  BY <1>2, <1>3, <1>4, <1>5, <1>6, TypeParts DEF IInv

\* The flags stay flags, whatever the step.
LEMMA FlagsStep == FlagsOK /\ [Next]_vars => FlagsOK'
<1> SUFFICES ASSUME FlagsOK, [Next]_vars PROVE FlagsOK'
  OBVIOUS
<1> USE DEF FlagsOK, Return, NextReplica
<1>1. ASSUME NEW o, NEW n, ScaleBegin(o, n) PROVE FlagsOK'
  BY <1>1, Zenon DEF ScaleBegin
<1>2. CASE EnableReplica
  BY <1>2, Zenon DEF EnableReplica
<1>3. CASE EnableReplicaFails
  BY <1>3, Zenon DEF EnableReplicaFails
<1>4. CASE DisableReplica
  BY <1>4, Zenon DEF DisableReplica
<1>5. CASE DisableReplicaFails
  BY <1>5, Zenon DEF DisableReplicaFails
<1>6. ASSUME NEW o, LoopBegin(o) PROVE FlagsOK'
  BY <1>6, Zenon DEF LoopBegin
<1>7. CASE LoopStep
  BY <1>7, Zenon DEF LoopStep
<1>8. CASE LoopEnd
  BY <1>8, Zenon DEF LoopEnd
<1>9. CASE DisableAtBootBegin
  BY <1>9, Zenon DEF DisableAtBootBegin
<1>10. CASE DisableAtBoot
  BY <1>10, Zenon DEF DisableAtBoot
<1>11. CASE DisableAtBootEnd
  BY <1>11, Zenon DEF DisableAtBootEnd
<1>12. CASE WriteTemplate
  BY <1>12, Zenon DEF WriteTemplate
<1>13. CASE Interrupt
  BY <1>13, Zenon DEF Interrupt
<1>14. CASE ReplicaDies
  BY <1>14, Zenon DEF ReplicaDies
<1>15. CASE Reboot
  BY <1>15, Zenon DEF Reboot
<1>16. CASE UNCHANGED vars
  BY <1>16, Zenon DEF vars
<1>17. QED
  BY <1>1, <1>2, <1>3, <1>4, <1>5, <1>6, <1>7, <1>8, <1>9, <1>10, <1>11,
     <1>12, <1>13, <1>14, <1>15, <1>16, Zenon
     DEF Next, Step, Command

\* The types of the rest and the ranges of the loops are inductive together.
LEMMA CallStep == TypeOK /\ LoopsInRange /\ [Next]_vars => CallOK' /\ LoopsInRange'
<1> SUFFICES ASSUME TypeOK, LoopsInRange, [Next]_vars
             PROVE  CallOK' /\ LoopsInRange'
  OBVIOUS
<1>0. CallOK /\ Count \in 0 .. MaxReplicas
  BY CountTyped, TypeParts
<1> USE <1>0, MaxReplicasAssumption DEF CallOK, LoopsInRange
<1>1. ASSUME NEW o \in Scalings, NEW n \in 0 .. MaxReplicas, ScaleBegin(o, n),
             o = "uninstall" => n = 0
      PROVE  CallOK' /\ LoopsInRange'
  BY <1>1 DEF ScaleBegin, Idle, Scalings
<1>2. CASE EnableReplica
  <2>1. i \in Index
    BY <1>2 DEF EnableReplica, Index
  <2>2. QED
    BY <1>2, <2>1 DEF EnableReplica, NextReplica
<1>3. CASE EnableReplicaFails
  <2>1. i \in Index
    BY <1>3 DEF EnableReplicaFails, Index
  <2>2. QED
    BY <1>3, <2>1 DEF EnableReplicaFails, Return
<1>4. CASE DisableReplica
  BY <1>4 DEF DisableReplica, NextReplica
<1>5. CASE DisableReplicaFails
  BY <1>5 DEF DisableReplicaFails, Return
<1>6. ASSUME NEW o \in Loops, LoopBegin(o)
      PROVE  CallOK' /\ LoopsInRange'
  BY <1>6 DEF LoopBegin, Idle, Loops
<1>7. CASE LoopStep
  <2>1. i \in Index
    BY <1>7 DEF LoopStep, Index
  <2>2. active' \subseteq Index
    BY <1>7, <2>1 DEF LoopStep
  <2>3. /\ i' \in 0 .. MaxReplicas
        /\ UNCHANGED <<enabled, op, phase, current, target, result>>
        /\ phase = "loop"
    BY <1>7 DEF LoopStep
  <2>4. QED
    BY <2>2, <2>3
<1>8. CASE LoopEnd
  BY <1>8 DEF LoopEnd, Return
<1>9. CASE DisableAtBootBegin
  BY <1>9 DEF DisableAtBootBegin, Idle
<1>10. CASE DisableAtBoot
  BY <1>10 DEF DisableAtBoot
<1>11. CASE DisableAtBootEnd
  BY <1>11 DEF DisableAtBootEnd, Return
<1>12. CASE WriteTemplate
  BY <1>12 DEF WriteTemplate
<1>13. CASE Interrupt
  BY <1>13 DEF Interrupt
<1>14. CASE ReplicaDies
  BY <1>14 DEF ReplicaDies
<1>15. CASE Reboot
  BY <1>15 DEF Reboot, Enabled
<1>16. CASE UNCHANGED vars
  BY <1>16 DEF vars
<1>17. QED
  BY <1>1, <1>2, <1>3, <1>4, <1>5, <1>6, <1>7, <1>8, <1>9, <1>10, <1>11,
     <1>12, <1>13, <1>14, <1>15, <1>16
     DEF Next, Step, Command, Scalings, Loops

-----------------------------------------------------------------------------
(* What is enabled at each stage is inductive.                             *)

\* A set of replicas without a hole is the set of as many first replicas.
LEMMA PrefixFixed ==
  ASSUME NEW n \in 0 .. MaxReplicas, NEW E, E = FirstReplicas(n)
  PROVE  E = FirstReplicas(CurrentReplicaCount(E))
BY CountOfPrefix

LEMMA StageStep ==
  TypeOK /\ LoopsInRange /\ StageOfEnabled /\ [Next]_vars => StageOfEnabled'
<1> SUFFICES ASSUME TypeOK, LoopsInRange, StageOfEnabled, [Next]_vars, ~cut'
             PROVE  StageOfEnabled'
  BY DEF StageOfEnabled
<1>0. /\ CallOK /\ Count \in 0 .. MaxReplicas
      /\ Count \notin Enabled /\ FirstReplicas(Count) \subseteq Enabled
  <2>1. Enabled \in SUBSET Index
    BY DEF TypeOK, Enabled
  <2>2. QED
    BY <2>1, CountDefined, TypeParts DEF Count
<1> USE <1>0, MaxReplicasAssumption DEF CallOK, LoopsInRange, StageOfEnabled
<1>1. ASSUME NEW o \in Scalings, NEW n \in 0 .. MaxReplicas, ScaleBegin(o, n)
      PROVE  StageOfEnabled'
  <2>1. ~cut /\ phase = "idle" /\ Enabled = enabled
        /\ enabled = FirstReplicas(Count) /\ enabled' = enabled
        /\ installed' = installed /\ target' = n /\ current' = Count
    BY <1>1 DEF ScaleBegin, Idle, Enabled, Count
  <2>2. CASE Count = n /\ phase' = "loop" /\ i' = 0
    BY <2>1, <2>2, PrefixFixed
  <2>3. CASE Count < n /\ phase' = "enable" /\ i' = Count
    BY <2>1, <2>3
  <2>4. CASE Count > n /\ phase' = "disable" /\ i' = n
    <3>1. enabled = FirstReplicas(n) \cup (n .. Count - 1)
      BY <2>1, <2>4 DEF FirstReplicas
    <3>2. QED
      BY <2>1, <2>4, <3>1
  <2>5. QED
    BY <1>1, <2>2, <2>3, <2>4 DEF ScaleBegin
<1>2. CASE EnableReplica
  <2>1. ~cut /\ enabled' = FirstReplicas(i + 1) /\ installed /\ i + 1 \in 0 .. MaxReplicas
    BY <1>2 DEF EnableReplica, NextReplica, FirstReplicas
  <2>2. enabled' = FirstReplicas(CurrentReplicaCount(enabled'))
    BY <2>1, PrefixFixed
  <2>3. QED
    BY <1>2, <2>1, <2>2 DEF EnableReplica, NextReplica
<1>3. CASE EnableReplicaFails
  <2>1. ~cut /\ phase = "enable" /\ phase' = "idle"
    BY <1>3, Zenon DEF EnableReplicaFails, Return
  <2>2. op # "uninstall" /\ enabled = FirstReplicas(i)
    BY <2>1
  <2>3. installed' = installed
    BY <1>3, <2>2, Zenon DEF EnableReplicaFails, Return
  <2>4. enabled' = enabled \/ (installed /\ enabled' = enabled \cup {i})
    BY <1>3, Zenon DEF EnableReplicaFails
  <2>5. enabled \cup {i} = FirstReplicas(i + 1)
    BY <2>2 DEF FirstReplicas
  <2>6. i + 1 \in 0 .. MaxReplicas
    BY <2>1
  <2>7. enabled' = FirstReplicas(CurrentReplicaCount(enabled'))
    BY <2>2, <2>4, <2>5, <2>6, PrefixFixed
  <2>8. ~installed => enabled' = {}
    BY <2>1, <2>4
  <2>9. QED
    BY <2>1, <2>3, <2>7, <2>8
<1>4. CASE DisableReplica
  <2>1. ~cut /\ i \in enabled /\ installed
    BY <1>4 DEF DisableReplica, NextReplica
  <2>2. enabled' = FirstReplicas(target) \cup (i + 1 .. current - 1)
    BY <1>4, <2>1 DEF DisableReplica, Enabled, FirstReplicas
  <2>3. CASE i + 1 = current
    <3>1. enabled' = FirstReplicas(target)
      BY <2>2, <2>3
    <3>2. enabled' = FirstReplicas(CurrentReplicaCount(enabled'))
      BY <3>1, PrefixFixed
    <3>3. QED
      BY <1>4, <2>1, <2>3, <3>1, <3>2 DEF DisableReplica, NextReplica
  <2>4. CASE i + 1 # current
    BY <1>4, <2>1, <2>2, <2>4 DEF DisableReplica, NextReplica
  <2>5. QED
    BY <2>3, <2>4
<1>5. CASE DisableReplicaFails
  BY <1>5 DEF DisableReplicaFails
<1>6. ASSUME NEW o \in Loops, LoopBegin(o)
      PROVE  StageOfEnabled'
  BY <1>6 DEF LoopBegin, Idle, Loops, Scalings
<1>7. CASE LoopStep
  BY <1>7 DEF LoopStep
<1>8. CASE LoopEnd
  <2>1. ~cut /\ phase = "loop" /\ phase' = "idle" /\ enabled' = enabled
    BY <1>8 DEF LoopEnd, Return
  <2>2. ~installed' => enabled = {}
    <3>1. op = "uninstall" => enabled = {}
      BY <2>1 DEF Scalings, FirstReplicas
    <3>2. op # "uninstall" => installed' = installed
      BY <1>8, Zenon DEF LoopEnd, Return
    <3>3. QED
      BY <2>1, <3>1, <3>2
  <2>3. QED
    BY <2>1, <2>2
<1>9. CASE DisableAtBootBegin
  <2>1. ~cut /\ Enabled = enabled /\ enabled = FirstReplicas(Count)
    BY <1>9 DEF DisableAtBootBegin, Idle, Enabled, Count
  <2>2. QED
    BY <1>9, <2>1 DEF DisableAtBootBegin, FirstReplicas
<1>10. CASE DisableAtBoot
  <2>1. /\ ~cut /\ enabled' = enabled \ {i} /\ i' = i + 1
        /\ UNCHANGED <<installed, phase, current>> /\ phase = "boot"
    <3>1. enabled' = enabled \ {i} /\ cut' = cut
      BY <1>10 DEF DisableAtBoot
    <3>2. i' = i + 1 /\ UNCHANGED <<installed, phase, current>> /\ phase = "boot"
      BY <1>10 DEF DisableAtBoot
    <3>3. QED
      BY <3>1, <3>2
  <2>2. enabled' = i + 1 .. current - 1
    BY <2>1
  <2>3. QED
    BY <2>1, <2>2
<1>11. CASE DisableAtBootEnd
  <2>1. /\ ~cut /\ enabled' = FirstReplicas(0) /\ phase' = "idle"
        /\ installed' = installed
    BY <1>11 DEF DisableAtBootEnd, Return, FirstReplicas
  <2>2. enabled' = FirstReplicas(CurrentReplicaCount(enabled'))
    BY <2>1, PrefixFixed
  <2>3. QED
    BY <2>1, <2>2 DEF FirstReplicas
<1>12. CASE WriteTemplate
  BY <1>12 DEF WriteTemplate, Idle
<1>13. CASE Interrupt \/ Reboot
  <2>1. /\ ~cut /\ phase \in {"idle", "enable", "loop"} /\ phase' = "idle"
        /\ UNCHANGED <<installed, enabled>>
    BY <1>13 DEF Interrupt, Reboot
  <2>2. enabled = FirstReplicas(CurrentReplicaCount(enabled))
    BY <2>1, PrefixFixed
  <2>3. QED
    BY <2>1, <2>2
<1>14. CASE ReplicaDies
  BY <1>14 DEF ReplicaDies
<1>15. CASE UNCHANGED vars
  BY <1>15 DEF vars
<1>16. QED
  BY <1>1, <1>2, <1>3, <1>4, <1>5, <1>6, <1>7, <1>8, <1>9, <1>10, <1>11,
     <1>12, <1>13, <1>14, <1>15
     DEF Next, Step, Command, Scalings, Loops

-----------------------------------------------------------------------------
(* What runs stays enabled.                                                *)

LEMMA RunningStep == IInv /\ [Next]_vars => RunningAreEnabled' /\ BootLoopIsOff'
<1> SUFFICES ASSUME IInv, [Next]_vars
             PROVE  RunningAreEnabled' /\ BootLoopIsOff'
  OBVIOUS
<1>0. /\ TypeOK /\ LoopsInRange /\ StageOfEnabled /\ BootLoopIsOff /\ CallOK
      /\ ~cut /\ ~bootOff => active \subseteq enabled
      /\ FirstReplicas(Count) \subseteq Enabled /\ Enabled \subseteq enabled
      /\ Count \in 0 .. MaxReplicas
  <2>1. Enabled \in SUBSET Index /\ Enabled \subseteq enabled
    BY DEF IInv, TypeOK, Enabled
  <2>2. QED
    BY <2>1, CountDefined, TypeParts DEF Count, IInv, RunningAreEnabled
<1> USE MaxReplicasAssumption
<1>1. ASSUME NEW o \in Scalings, NEW n \in 0 .. MaxReplicas, ScaleBegin(o, n)
      PROVE  RunningAreEnabled' /\ BootLoopIsOff'
  BY <1>0, <1>1 DEF ScaleBegin, RunningAreEnabled, BootLoopIsOff
<1>2. CASE EnableReplica
  BY <1>0, <1>2 DEF EnableReplica, NextReplica, RunningAreEnabled, BootLoopIsOff
<1>3. CASE EnableReplicaFails
  BY <1>0, <1>3 DEF EnableReplicaFails, Return, RunningAreEnabled, BootLoopIsOff
<1>4. CASE DisableReplica
  BY <1>0, <1>4 DEF DisableReplica, NextReplica, RunningAreEnabled, BootLoopIsOff
<1>5. CASE DisableReplicaFails
  BY <1>0, <1>5 DEF DisableReplicaFails, Return, RunningAreEnabled, BootLoopIsOff
<1>6. ASSUME NEW o \in Loops, LoopBegin(o)
      PROVE  RunningAreEnabled' /\ BootLoopIsOff'
  BY <1>0, <1>6 DEF LoopBegin, RunningAreEnabled, BootLoopIsOff
<1>7. CASE LoopStep
  <2>1. i \in enabled
    BY <1>0, <1>7 DEF LoopStep, FirstReplicas, CallOK
  <2>2. active' \subseteq active \cup {i} /\ enabled' = enabled
    BY <1>7 DEF LoopStep
  <2>3. cut' = cut /\ bootOff' = bootOff /\ phase' = phase /\ phase = "loop"
    BY <1>7 DEF LoopStep
  <2>4. QED
    BY <1>0, <2>1, <2>2, <2>3 DEF RunningAreEnabled, BootLoopIsOff
<1>8. CASE LoopEnd
  BY <1>0, <1>8 DEF LoopEnd, Return, RunningAreEnabled, BootLoopIsOff
<1>9. CASE DisableAtBootBegin
  BY <1>9 DEF DisableAtBootBegin, RunningAreEnabled, BootLoopIsOff
<1>10. CASE DisableAtBoot
  <2>1. bootOff' = bootOff /\ phase' = phase /\ phase = "boot"
    BY <1>10 DEF DisableAtBoot
  <2>2. QED
    BY <1>0, <2>1 DEF RunningAreEnabled, BootLoopIsOff
<1>11. CASE DisableAtBootEnd
  BY <1>0, <1>11 DEF DisableAtBootEnd, Return, RunningAreEnabled, BootLoopIsOff
<1>12. CASE WriteTemplate
  BY <1>0, <1>12 DEF WriteTemplate, RunningAreEnabled, BootLoopIsOff
<1>13. CASE Interrupt
  BY <1>0, <1>13 DEF Interrupt, RunningAreEnabled, BootLoopIsOff
<1>14. CASE ReplicaDies
  BY <1>0, <1>14 DEF ReplicaDies, RunningAreEnabled, BootLoopIsOff
<1>15. CASE Reboot
  BY <1>0, <1>15 DEF Reboot, RunningAreEnabled, BootLoopIsOff
<1>16. CASE UNCHANGED vars
  BY <1>0, <1>16 DEF vars, RunningAreEnabled, BootLoopIsOff
<1>17. QED
  BY <1>1, <1>2, <1>3, <1>4, <1>5, <1>6, <1>7, <1>8, <1>9, <1>10, <1>11,
     <1>12, <1>13, <1>14, <1>15, <1>16
     DEF Next, Step, Command, Scalings, Loops

-----------------------------------------------------------------------------

\* The inductive invariant holds in every reachable state.
THEOREM Invariant == Spec => []IInv
<1>1. IInv /\ [Next]_vars => IInv'
  <2> SUFFICES ASSUME IInv, [Next]_vars PROVE IInv'
    OBVIOUS
  <2>1. FlagsOK' /\ CallOK' /\ LoopsInRange'
    BY FlagsStep, CallStep, TypeParts DEF IInv
  <2>2. TypeOK'
    BY <2>1 DEF TypeOK, FlagsOK, CallOK
  <2>3. QED
    BY <2>1, <2>2, StageStep, RunningStep DEF IInv
<1>2. QED
  BY InitIInv, <1>1, PTL DEF Spec

\* For any number of replicas, the variables keep their types.
THEOREM Typed == Spec => []TypeOK
BY Invariant, PTL DEF IInv

\* What the enabled replicas are at every stage of every loop: no hole appears
\* as long as no loop that disables replicas was cut.
THEOREM NoHoles == Spec => []HolesOnlyFromCutLoops
<1>1. IInv => HolesOnlyFromCutLoops
  <2> SUFFICES ASSUME IInv, ~cut
               PROVE  CASE phase = "disable" ->
                             enabled = FirstReplicas(target) \cup (i .. current - 1)
                        [] phase = "boot" -> enabled = i .. current - 1
                        [] OTHER -> enabled = FirstReplicas(CurrentReplicaCount(enabled))
    BY DEF HolesOnlyFromCutLoops
  <2>1. CASE phase = "enable"
    <3>1. enabled = FirstReplicas(i) /\ i \in 0 .. MaxReplicas
      BY <2>1 DEF IInv, StageOfEnabled, TypeOK
    <3>2. QED
      BY <2>1, <3>1, PrefixFixed
  <2>2. CASE phase \in {"idle", "loop", "disable", "boot"}
    BY <2>2 DEF IInv, StageOfEnabled
  <2>3. QED
    BY <2>1, <2>2 DEF IInv, TypeOK
<1>2. QED
  BY <1>1, Invariant, PTL

\* Every replica that runs is enabled, and so seen by the next command, as long
\* as no disabling loop was cut and DisableServices has not run since the boot.
THEOREM NoInvisibleReplica == Spec => []RunningAreEnabled
BY Invariant, PTL DEF IInv

-----------------------------------------------------------------------------
(* What ScaleService promises.                                             *)

\* A scaling that returns no error leaves exactly the replicas asked for.
THEOREM ScaleCorrect == Spec => ScaleReachesTarget
<1> DEFINE Promise == ~cut /\ phase # "idle" /\ op = "scale" /\ phase' = "idle"
                        /\ result' = "ok" => enabled' = FirstReplicas(target)
<1>1. IInv /\ [Next]_vars => Promise
  <2> SUFFICES ASSUME IInv, [Next]_vars, ~cut, phase # "idle", op = "scale",
                      phase' = "idle", result' = "ok"
               PROVE  enabled' = FirstReplicas(target)
    OBVIOUS
  <2>1. LoopEnd
    BY DEF IInv, LoopsInRange, TypeOK, Next, Step, Command, vars, Idle, ScaleBegin,
           EnableReplica, EnableReplicaFails, DisableReplica, DisableReplicaFails,
           NextReplica, Return, LoopBegin, LoopStep, DisableAtBootBegin,
           DisableAtBoot, DisableAtBootEnd, WriteTemplate, Interrupt, ReplicaDies,
           Reboot
  <2>2. QED
    BY <2>1 DEF LoopEnd, IInv, StageOfEnabled, Scalings
<1>2. QED
  BY <1>1, Invariant, PTL DEF Spec, ScaleReachesTarget

\* Scaling never takes away a replica below both the old and the new count.
THEOREM ScaleMonotone == Spec => ScaleKeepsRequestedReplicas
<1> DEFINE Kept == op = "scale" /\ phase # "idle"
                     => \A k \in 0 .. MaxReplicas - 1 :
                          k < target /\ k \in enabled => k \in enabled'
<1>1. IInv /\ [Next]_vars => Kept
  <2> SUFFICES ASSUME IInv, [Next]_vars, op = "scale", phase # "idle",
                      NEW k \in 0 .. MaxReplicas - 1, k < target, k \in enabled
               PROVE  k \in enabled'
    OBVIOUS
  <2>1. CASE DisableReplica \/ DisableReplicaFails
    <3>1. target <= i /\ i \in Int /\ target \in Int
      BY <2>1 DEF DisableReplica, DisableReplicaFails, IInv, LoopsInRange, TypeOK
    <3>2. k # i
      BY <3>1, MaxReplicasAssumption
    <3>3. enabled' \in {enabled, enabled \ {i}}
      BY <2>1 DEF DisableReplica, DisableReplicaFails
    <3>4. QED
      BY <3>2, <3>3
  <2>2. CASE EnableReplica \/ EnableReplicaFails
    BY <2>2 DEF EnableReplica, EnableReplicaFails
  <2>3. CASE LoopStep \/ LoopEnd \/ Interrupt \/ ReplicaDies \/ Reboot \/ UNCHANGED vars
    BY <2>3 DEF LoopStep, LoopEnd, Interrupt, ReplicaDies, Reboot, vars
  <2>4. ~ (DisableAtBoot \/ DisableAtBootEnd \/ Command)
    BY DEF DisableAtBoot, DisableAtBootEnd, Command, ScaleBegin, LoopBegin,
           DisableAtBootBegin, WriteTemplate, Idle, IInv, LoopsInRange
  <2>5. QED
    BY <2>1, <2>2, <2>3, <2>4 DEF Next, Step
<1>2. QED
  BY <1>1, Invariant, PTL DEF Spec, ScaleKeepsRequestedReplicas
=============================================================================
