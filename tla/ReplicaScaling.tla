--------------------------- MODULE ReplicaScaling ---------------------------
(***************************************************************************)
(* The life of one replicated service (attestation, hub XML-RPC, Saline)   *)
(* under mgradm: scaling, starting, stopping, restarting, disabling at     *)
(* boot, uninstalling and reinstalling its template unit.                  *)
(*                                                                         *)
(* mgradm is a sequential program that runs systemctl once per replica.    *)
(* One action is one systemctl call, which may succeed or fail; between    *)
(* two of them the administrator may interrupt the command, a container    *)
(* may die and the host may reboot.                                        *)
(***************************************************************************)
EXTENDS Replicas

VARIABLES
  installed,  \* the service@.service file exists
  enabled,    \* the replicas linked into multi-user.target
  active,     \* the replicas whose container runs
  op,         \* the running command, or the last one
  phase,      \* the loop the command is in
  i,          \* its loop index
  current,    \* the replica count ScaleService read when it began
  target,     \* the replica count it was asked for
  failed,     \* some step of an instantiated loop returned an error
  result,     \* what the last command returned
  cut,        \* history: a loop disabling replicas skipped one of them
  bootOff     \* history: DisableServices ran since the last boot

vars == <<installed, enabled, active, op, phase, i, current, target, failed,
          result, cut, bootOff>>

Loops == {"start", "stop", "restart"}
Scalings == {"scale", "uninstall"}

\* ServiceIsEnabled: systemctl is-enabled fails when the template is gone.
Enabled == IF installed THEN enabled ELSE {}

Count == CurrentReplicaCount(Enabled)

TypeOK ==
  /\ installed \in BOOLEAN
  /\ enabled \subseteq Index
  /\ active \subseteq Index
  /\ op \in {"none", "disable"} \cup Loops \cup Scalings
  /\ phase \in {"idle", "enable", "disable", "boot", "loop"}
  /\ i \in 0 .. MaxReplicas
  /\ current \in 0 .. MaxReplicas
  /\ target \in 0 .. MaxReplicas
  /\ failed \in BOOLEAN
  /\ result \in {"none", "ok", "error", "killed"}
  /\ cut \in BOOLEAN
  /\ bootOff \in BOOLEAN

Init ==
  /\ installed = TRUE
  /\ \E n \in 0 .. MaxReplicas :
       enabled = FirstReplicas(n) /\ active = FirstReplicas(n)
  /\ op = "none" /\ phase = "idle" /\ result = "none"
  /\ i = 0 /\ current = 0 /\ target = 0
  /\ failed = FALSE /\ cut = FALSE /\ bootOff = FALSE

-----------------------------------------------------------------------------
(* Control flow shared by the commands. *)

Idle == phase = "idle"

\* The command returns.  UninstallInstantiatedService only logs the error of
\* ScaleService(0) and removes the template in every case; os.Remove may fail.
Return(res) ==
  /\ phase' = "idle"
  /\ result' = res
  /\ IF op = "uninstall" THEN installed' \in {FALSE, installed}
                         ELSE UNCHANGED installed

\* One more iteration, or on to RestartInstantiated after the last one.
NextReplica(end) ==
  /\ IF i + 1 = end THEN phase' = "loop" /\ i' = 0
                    ELSE i' = i + 1 /\ UNCHANGED phase
  /\ UNCHANGED <<installed, result>>

-----------------------------------------------------------------------------
(* ScaleService *)

\* Mutant: enough replicas is taken for the right number of replicas.
ScaleBeginEnough(o, n) ==
  /\ Idle
  /\ op' = o /\ target' = n /\ current' = Count
  /\ failed' = FALSE /\ result' = "none"
  /\ \/ Count >= n /\ phase' = "loop" /\ i' = 0
     \/ Count < n /\ phase' = "enable" /\ i' = Count
  /\ UNCHANGED <<installed, enabled, active, cut, bootOff>>

\* Mutant: replicas are counted from one when scaling down.
ScaleBeginOffByOne(o, n) ==
  /\ Idle
  /\ op' = o /\ target' = n /\ current' = Count
  /\ failed' = FALSE /\ result' = "none"
  /\ \/ Count = n /\ phase' = "loop" /\ i' = 0
     \/ Count < n /\ phase' = "enable" /\ i' = Count
     \/ Count > n /\ phase' = "disable" /\ i' = IF n = 0 THEN 0 ELSE n - 1
  /\ UNCHANGED <<installed, enabled, active, cut, bootOff>>

\* ScaleService reads the replica count once, then enables what is missing or
\* disables what is too much; with the right count it only restarts.
ScaleBegin(o, n) ==
  /\ Idle
  /\ op' = o /\ target' = n /\ current' = Count
  /\ failed' = FALSE /\ result' = "none"
  /\ \/ Count = n /\ phase' = "loop" /\ i' = 0
     \/ Count < n /\ phase' = "enable" /\ i' = Count
     \/ Count > n /\ phase' = "disable" /\ i' = n
  /\ UNCHANGED <<installed, enabled, active, cut, bootOff>>

\* systemctl enable --now (or start, when service@i is already enabled).
EnableReplica ==
  /\ phase = "enable" /\ installed
  /\ enabled' = enabled \cup {i}
  /\ active' = active \cup {i}
  /\ NextReplica(target)
  /\ UNCHANGED <<op, current, target, failed, cut, bootOff>>

\* Mutant: the loop goes on after a replica that could not be enabled.
EnableReplicaFailsGoesOn ==
  /\ phase = "enable"
  /\ NextReplica(target)
  /\ UNCHANGED <<enabled, active, op, current, target, failed, cut, bootOff>>

\* enable and start are two steps of systemctl: the unit may be left enabled
\* but not started.  ScaleService returns at once.
EnableReplicaFails ==
  /\ phase = "enable"
  /\ enabled' \in {enabled} \cup (IF installed THEN {enabled \cup {i}} ELSE {})
  /\ Return("error")
  /\ UNCHANGED <<active, op, i, current, target, failed, cut, bootOff>>

\* Mutant: systemctl disable without --now.
DisableReplicaLater ==
  /\ phase = "disable"
  /\ enabled' = enabled \ {i}
  /\ NextReplica(current)
  /\ UNCHANGED <<active, op, current, target, failed, cut, bootOff>>

\* systemctl disable --now, skipped when the replica is not enabled.
DisableReplica ==
  /\ phase = "disable"
  /\ IF i \in Enabled
       THEN enabled' = enabled \ {i} /\ active' = active \ {i}
       ELSE UNCHANGED <<enabled, active>>
  /\ NextReplica(current)
  /\ UNCHANGED <<op, current, target, failed, cut, bootOff>>

\* disable and stop are two steps of systemctl: a replica whose stop fails is
\* left running but not enabled.  ScaleService returns at once.
DisableReplicaFails ==
  /\ phase = "disable" /\ i \in Enabled
  /\ enabled' \in {enabled, enabled \ {i}}
  /\ Return("error")
  /\ cut' = TRUE
  /\ UNCHANGED <<active, op, i, current, target, failed, bootOff>>

-----------------------------------------------------------------------------
(* StartInstantiated, StopInstantiated and RestartInstantiated *)

LoopBegin(o) ==
  /\ Idle
  /\ op' = o /\ phase' = "loop" /\ i' = 0
  /\ failed' = FALSE /\ result' = "none"
  /\ UNCHANGED <<installed, enabled, active, current, target, cut, bootOff>>

\* Mutant: the loop has no bound.
LoopStepUnbounded ==
  /\ phase = "loop"
  /\ i' = i + 1
  /\ UNCHANGED <<installed, enabled, active, op, phase, current, target, failed,
                 result, cut, bootOff>>

\* Mutant: the loop index is never incremented.
LoopStepStuck ==
  /\ phase = "loop" /\ i < Count
  /\ active' = IF op = "stop" THEN active \ {i} ELSE active \cup {i}
  /\ UNCHANGED <<installed, enabled, op, phase, i, current, target, failed,
                 result, cut, bootOff>>

\* One systemctl call on replica i.  The loop condition is evaluated again at
\* every iteration and an error does not end the loop.  A restart that fails
\* may have stopped the replica.
LoopStep ==
  /\ phase = "loop" /\ i < Count
  /\ \/ /\ active' = IF op = "stop" THEN active \ {i} ELSE active \cup {i}
        /\ UNCHANGED failed
     \/ /\ active' \in {active} \cup
                       (IF op \in {"start", "stop"} THEN {} ELSE {active \ {i}})
        /\ failed' = TRUE
  /\ i' = i + 1
  /\ UNCHANGED <<installed, enabled, op, phase, current, target, result, cut,
                 bootOff>>

LoopEnd ==
  /\ phase = "loop" /\ i >= Count
  /\ Return(IF failed THEN "error" ELSE "ok")
  /\ UNCHANGED <<enabled, active, op, i, current, target, failed, cut, bootOff>>

-----------------------------------------------------------------------------
(* DisableServices: the replicas to disable are listed once, then each is  *)
(* disabled at boot without being stopped; errors are joined.              *)

DisableAtBootBegin ==
  /\ Idle
  /\ op' = "disable" /\ phase' = "boot" /\ i' = 0 /\ current' = Count
  /\ failed' = FALSE /\ result' = "none" /\ bootOff' = TRUE
  /\ UNCHANGED <<installed, enabled, active, target, cut>>

DisableAtBoot ==
  /\ phase = "boot" /\ i < current
  /\ \/ enabled' = enabled \ {i} /\ UNCHANGED <<failed, cut>>
     \/ UNCHANGED enabled /\ failed' = TRUE /\ cut' = TRUE
  /\ i' = i + 1
  /\ UNCHANGED <<installed, active, op, phase, current, target, result, bootOff>>

DisableAtBootEnd ==
  /\ phase = "boot" /\ i = current
  /\ Return(IF failed THEN "error" ELSE "ok")
  /\ UNCHANGED <<enabled, active, op, i, current, target, failed, cut, bootOff>>

-----------------------------------------------------------------------------
(* The rest of the program and the world *)

\* The installation and the upgrade write the template unit again.
WriteTemplate ==
  /\ Idle /\ ~installed
  /\ installed' = TRUE
  /\ UNCHANGED <<enabled, active, op, phase, i, current, target, failed,
                 result, cut, bootOff>>

\* Ctrl-C, or mgradm killed: nothing traps the signal, the loop just ends.
Interrupt ==
  /\ ~Idle
  /\ phase' = "idle" /\ result' = "killed"
  /\ cut' = (cut \/ phase \in {"disable", "boot"})
  /\ UNCHANGED <<installed, enabled, active, op, i, current, target, failed,
                 bootOff>>

ReplicaDies ==
  /\ \E k \in active : active' = active \ {k}
  /\ UNCHANGED <<installed, enabled, op, phase, i, current, target, failed,
                 result, cut, bootOff>>

\* systemd starts at boot what is enabled; the command that ran is gone.
Reboot ==
  /\ active' = Enabled
  /\ phase' = "idle"
  /\ result' = IF Idle THEN result ELSE "killed"
  /\ cut' = (cut \/ phase \in {"disable", "boot"})
  /\ bootOff' = FALSE
  /\ UNCHANGED <<installed, enabled, op, i, current, target, failed>>

\* The steps of a running command, and the commands an administrator starts.
Step == \/ EnableReplica \/ EnableReplicaFails
        \/ DisableReplica \/ DisableReplicaFails
        \/ LoopStep \/ LoopEnd
        \/ DisableAtBoot \/ DisableAtBootEnd

Command == \/ \E n \in 0 .. MaxReplicas : ScaleBegin("scale", n)
           \/ ScaleBegin("uninstall", 0)
           \/ \E o \in Loops : LoopBegin(o)
           \/ DisableAtBootBegin
           \/ WriteTemplate

Next == Step \/ Command \/ Interrupt \/ ReplicaDies \/ Reboot

\* A systemctl call always returns: a command that runs takes its next step.
Spec == Init /\ [][Next]_vars /\ WF_vars(Step)

-----------------------------------------------------------------------------
(* Properties *)

\* Holes come from nowhere else: as long as no loop that disables replicas was
\* left early (an error, Ctrl-C, a reboot), the enabled replicas are exactly
\* those CurrentReplicaCount counts, also while they are being enabled.  While
\* ScaleService disables (upwards, lowest index first) the hole is at target.
HolesOnlyFromCutLoops ==
  ~cut => CASE phase = "disable" ->
                 enabled = FirstReplicas(target) \cup (i .. current - 1)
            [] phase = "boot" -> enabled = i .. current - 1
            [] OTHER -> enabled = FirstReplicas(CurrentReplicaCount(enabled))

\* ScaleService keeps its promise while the replicas have no hole: when it
\* returns no error, exactly the first target replicas are enabled.
ScaleReachesTarget ==
  [][~cut /\ phase # "idle" /\ op = "scale" /\ phase' = "idle" /\ result' = "ok"
       => enabled' = FirstReplicas(target)]_vars

\* However it goes wrong, scaling never takes away a replica that was there
\* and is still asked for: those below both counts stay enabled at every step.
ScaleKeepsRequestedReplicas ==
  [][op = "scale" /\ phase # "idle"
       => \A k \in 0 .. MaxReplicas - 1 :
            k < target /\ k \in enabled => k \in enabled']_vars

\* The loops over CurrentReplicaCount terminate: every command ends, although
\* the bound is read again at each iteration.
CommandsEnd == phase # "idle" ~> phase = "idle"

\* A replica that is not enabled is invisible to every later command, so none
\* may be left running: as long as no disabling loop was left early, and since
\* DisableServices last ran or the host last booted, what runs is enabled.
RunningAreEnabled == ~cut /\ ~bootOff => active \subseteq enabled

\* What the comment of UninstallInstantiatedService says ("stops and remove an
\* instantiated systemd service"): once it has scaled to zero without an error,
\* and no earlier command failed either, no replica runs.
UninstallStopsReplicas ==
  [][(phase # "idle" /\ op = "uninstall" /\ phase' = "idle")
       => (result' = "ok" /\ ~cut => active' = {})]_vars
=============================================================================
