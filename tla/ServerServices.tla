--------------------------- MODULE ServerServices ---------------------------
(***************************************************************************)
(* The systemd services of a server and the mgradm commands that move them *)
(* together: start, stop, restart, enable, disable, scale and backup       *)
(* create.                                                                 *)
(*                                                                         *)
(* A command computes what it will do from the units that are enabled and  *)
(* then runs systemctl unit by unit; the calls still to make are the       *)
(* sequence todo.  Errors of the calls are joined and the rest goes on,    *)
(* except where the code returns at once.  systemd starts what a unit      *)
(* Wants or Requires along with it and stops what requires a unit along    *)
(* with it.                                                                *)
(***************************************************************************)
EXTENDS Replicas, Sequences, FiniteSets

Server == <<"server", 0>>
DB == <<"db", 0>>
TFTP == <<"tftp", 0>>

\* replicatedServerServices
Replicated == <<"attestation", "hub", "saline">>

Instance(s) == {<<s, k>> : k \in Index}
ReplicaUnits == UNION {Instance(Replicated[k]) : k \in DOMAIN Replicated}
Unit == {Server, DB, TFTP} \cup ReplicaUnits

\* The [Unit] sections of the service templates.
Wants(u) ==
  CASE u = Server -> {DB}
    [] u[1] = "attestation" -> {DB}
    [] u[1] \in {"hub", "saline", "tftp"} -> {Server}
    [] OTHER -> {}

Requires(u) == IF u[1] = "saline" THEN {Server} ELSE {}
RequiredBy(u) == {v \in Unit : u \in Requires(v)}

\* What a start of u pulls in, directly or through another unit.
Pulled(u) == Wants(u) \cup UNION {Wants(v) : v \in Wants(u)}

\* The units with a container that writes to the volumes a backup exports:
\* the server, the database, and Saline that mounts two volumes of the server.
Writers == {Server, DB} \cup Instance("saline")

Nothing == <<"none", 0>>

VARIABLES
  installed,  \* the units with a service file
  enabled,    \* the units linked into the boot target
  active,     \* the units that run
  cmd,        \* the running command, "none" between two
  todo,       \* the steps it has left: pairs of what to do and a unit
  again,      \* the units that systemd has stopped for a restart and starts next
  failed,     \* one of its steps failed
  died,       \* history: a container died since the command began
  off         \* history: "all" since DisableServices succeeded, "core" when a
              \* service was scaled since, "no" when it never did or was undone

vars == <<installed, enabled, active, cmd, todo, again, failed, died, off>>

Deed == {"start", "stop", "restart", "enable", "disable", "enable --now",
         "disable --now", "reload", "prepare", "check", "export", "extras"}

\* A backup with the services stopped and started again, with --norestart, and
\* with --skipdatabase (a live one).
Backups == {"backup", "backup --norestart", "backup --skipdatabase"}

TypeOK ==
  /\ installed \subseteq Unit
  /\ enabled \subseteq Unit
  /\ active \subseteq Unit
  /\ cmd \in {"none", "start", "stop", "restart", "enable", "disable",
              "scale"} \cup Backups
  /\ todo \in Seq(Deed \X (Unit \cup {Nothing}))
  /\ again \subseteq Unit
  /\ failed \in BOOLEAN
  /\ died \in BOOLEAN
  /\ off \in {"no", "all", "core"}

\* A server with its own database or an external one, as installed.
Init ==
  /\ installed \in {Unit, Unit \ {DB}}
  /\ \E optional \in SUBSET (ReplicaUnits \cup {TFTP}) :
       /\ \A k \in DOMAIN Replicated :
            IsPrefix({j \in Index : <<Replicated[k], j>> \in optional})
       /\ enabled = optional \cup ({Server, DB} \cap installed)
  /\ active = enabled
  /\ cmd = "none" /\ todo = <<>> /\ again = {} /\ failed = FALSE
  /\ died = FALSE /\ off = "no"

-----------------------------------------------------------------------------
(* The steps of the commands, in their order *)

Each(do, units) == [k \in DOMAIN units |-> <<do, units[k]>>]
If(cond, seq) == IF cond THEN seq ELSE <<>>

ReplicaCount(s) == CurrentReplicaCount({k \in Index : <<s, k>> \in enabled})
Replicas(s, from, to) == [k \in 1 .. to - from |-> <<s, from + k - 1>>]
Replica(s) == Replicas(s, 0, ReplicaCount(s))

\* The replicas of s that are enabled are those that are counted.
NoHole(s) == IsPrefix({k \in Index : <<s, k>> \in enabled})
AllCounted == \A k \in DOMAIN Replicated : NoHole(Replicated[k])

\* The enabled units that the commands see.
Counted ==
  (enabled \cap {Server, DB, TFTP})
    \cup {u \in ReplicaUnits : u[2] < ReplicaCount(u[1])}

\* Mutant: the TFTP container is left out.
StartStepsWithoutTFTP ==
  If(DB \in installed, <<<<"start", DB>>>>)
    \o Each("start", Replica("attestation"))
    \o Each("start", Replica("hub"))
    \o Each("start", Replica("saline"))
    \o <<<<"start", Server>>>>

StartSteps ==
  If(DB \in installed, <<<<"start", DB>>>>)
    \o Each("start", Replica("attestation"))
    \o Each("start", Replica("hub"))
    \o Each("start", Replica("saline"))
    \o <<<<"start", Server>>>>
    \o If(TFTP \in enabled, <<<<"start", TFTP>>>>)
    \o Each("start", Replica("saline"))

\* Mutant: the database is stopped before the server that uses it.
StopStepsDBFirst ==
  If(DB \in installed, <<<<"stop", DB>>>>)
    \o Each("stop", Replica("attestation"))
    \o Each("stop", Replica("hub"))
    \o <<<<"stop", Server>>>>
    \o If(TFTP \in enabled, <<<<"stop", TFTP>>>>)
    \o Each("stop", Replica("saline"))

\* Mutant: the TFTP container is not stopped.
StopStepsWithoutTFTP ==
  Each("stop", Replica("attestation"))
    \o Each("stop", Replica("hub"))
    \o Each("stop", Replica("saline"))
    \o <<<<"stop", Server>>>>
    \o If(DB \in installed, <<<<"stop", DB>>>>)

StopSteps ==
  Each("stop", Replica("attestation"))
    \o Each("stop", Replica("hub"))
    \o Each("stop", Replica("saline"))
    \o <<<<"stop", Server>>>>
    \o If(DB \in installed, <<<<"stop", DB>>>>)
    \o Each("stop", Replica("saline"))
    \o If(TFTP \in enabled, <<<<"stop", TFTP>>>>)

\* podmanRestart: the Saline replicas follow the server they require.
RestartSteps ==
  <<<<"reload", Nothing>>, <<"restart", DB>>, <<"restart", Server>>>>
    \o Each("restart", Replica("attestation"))
    \o Each("restart", Replica("hub"))

\* EnableServices leaves the optional services alone.
EnableSteps ==
  <<<<"enable", Server>>>> \o If(DB \in installed, <<<<"enable", DB>>>>)

\* Mutant: only the core services are disabled, as EnableServices enables them.
DisableStepsCoreOnly ==
  <<<<"disable", Server>>>> \o If(DB \in installed, <<<<"disable", DB>>>>)

\* DisableServices: enabledOptionalServices, then the core services.
DisableSteps ==
  If(TFTP \in enabled, <<<<"disable", TFTP>>>>)
    \o Each("disable", Replica("attestation"))
    \o Each("disable", Replica("hub"))
    \o Each("disable", Replica("saline"))
    \o <<<<"disable", Server>>>>
    \o If(DB \in installed, <<<<"disable", DB>>>>)

\* The replicas that are counted when ScaleService restarts them, if nothing failed.
ScaledCount(s, n) ==
  LET count == ReplicaCount(s)
  IN CurrentReplicaCount(({k \in Index : <<s, k>> \in enabled} \cup (count .. n - 1))
                           \ (n .. count - 1))

\* Mutant: the replicas to enable are numbered from one.
ScaleStepsFromOne(s, n) ==
  Each("enable --now", Replicas(s, ReplicaCount(s) + 1, n + 1))
    \o Each("disable --now", Replicas(s, n, ReplicaCount(s)))
    \o Each("restart", Replicas(s, 0, ScaledCount(s, n)))

\* ScaleService: enable what is missing, or disable what is too much, and restart.
ScaleSteps(s, n) ==
  Each("enable --now", Replicas(s, ReplicaCount(s), n))
    \o Each("disable --now", Replicas(s, n, ReplicaCount(s)))
    \o Each("restart", Replicas(s, 0, ScaledCount(s, n)))

\* Mutant: a live backup is told by --norestart, not by --skipdatabase.
BackupStepsSwapped(c) ==
  <<<<"prepare", Nothing>>>>
    \o If(c # "backup --norestart", StopSteps \o <<<<"check", Nothing>>>>)
    \o <<<<"export", Nothing>>, <<"extras", Nothing>>>>
    \o If(c = "backup --skipdatabase", StartSteps)

\* Create: prepare the directory and check the space, stop unless the database
\* is skipped (a live backup), export the volumes, then the images and the
\* configuration, and start again unless told not to.
BackupSteps(c) ==
  <<<<"prepare", Nothing>>>>
    \o If(c # "backup --skipdatabase", StopSteps \o <<<<"check", Nothing>>>>)
    \o <<<<"export", Nothing>>, <<"extras", Nothing>>>>
    \o If(c = "backup", StartSteps)

-----------------------------------------------------------------------------
(* Commands *)

Begin(c, steps) ==
  /\ cmd = "none"
  /\ cmd' = c /\ todo' = steps
  /\ off' = CASE c = "enable" -> "no"
              [] c = "scale" /\ off = "all" -> "core"
              [] OTHER -> off
  /\ UNCHANGED <<installed, enabled, active, again, failed, died>>

\* EnableServices and DisableServices refuse to run without a server unit.
Command ==
  \/ Begin("start", StartSteps)
  \/ Begin("stop", StopSteps)
  \/ Begin("restart", RestartSteps)
  \/ Server \in installed /\ Begin("enable", EnableSteps)
  \/ Server \in installed /\ Begin("disable", DisableSteps)
  \/ \E k \in DOMAIN Replicated, n \in 0 .. MaxReplicas :
       /\ n <= 1 \/ Replicated[k] = "attestation"
       /\ Begin("scale", ScaleSteps(Replicated[k], n))
  \/ \E c \in Backups : Begin(c, BackupSteps(c))

\* The command returns, with an error when some step has failed.
Return ==
  /\ cmd # "none" /\ todo = <<>>
  /\ cmd' = "none"
  /\ off' = IF cmd = "disable" /\ ~failed THEN "all" ELSE off
  /\ failed' = FALSE /\ died' = FALSE
  /\ UNCHANGED <<installed, enabled, active, todo, again>>

-----------------------------------------------------------------------------
(* Steps *)

Unused == UNCHANGED <<installed, cmd, again, died, off>>

Done == todo' = Tail(todo) /\ UNCHANGED failed

\* ScaleService and the critical parts of Create return the error at once; the
\* other commands join it and go on.
Fail ==
  /\ failed' = TRUE
  /\ todo' = IF Head(todo)[1] \in {"enable --now", "disable --now", "prepare",
                                  "check", "export"}
               THEN <<>> ELSE Tail(todo)

\* What u wants may fail to start without harm to u, what it requires not.
StartedWith(u) ==
  {live \in SUBSET (Pulled(u) \cap installed) : Requires(u) \subseteq live}

StartUnit ==
  /\ todo # <<>> /\ Head(todo)[1] \in {"start", "enable --now"}
  /\ LET u == Head(todo)[2]
         enables == Head(todo)[1] = "enable --now"
     IN \/ /\ u \in installed
           /\ \E live \in StartedWith(u) : active' = active \cup {u} \cup live
           /\ enabled' = IF enables THEN enabled \cup {u} ELSE enabled
           /\ Done
        \/ /\ \E live \in SUBSET (Pulled(u) \cap installed) :
                active' = active \cup live
           /\ enabled' \in {enabled} \cup
                           (IF enables THEN {enabled \cup {u}} ELSE {})
           /\ Fail
  /\ Unused

\* Mutant: systemd does not stop what requires a unit that stops.
StopUnitAlone ==
  /\ todo # <<>> /\ Head(todo)[1] \in {"stop", "disable --now"}
  /\ LET u == Head(todo)[2]
     IN /\ active' = active \ {u}
        /\ enabled' = IF Head(todo)[1] = "stop" THEN enabled ELSE enabled \ {u}
        /\ Done
  /\ Unused

StopUnit ==
  /\ todo # <<>> /\ Head(todo)[1] \in {"stop", "disable --now"}
  /\ LET u == Head(todo)[2]
         disables == Head(todo)[1] = "disable --now"
     IN \/ /\ active' = active \ ({u} \cup RequiredBy(u))
           /\ enabled' = IF disables THEN enabled \ {u} ELSE enabled
           /\ Done
        \/ /\ enabled' \in {enabled} \cup
                           (IF disables THEN {enabled \ {u}} ELSE {})
           /\ UNCHANGED active
           /\ Fail
  /\ Unused

\* systemctl restart stops the unit, and with it what requires it, before it
\* starts anything again.
TakeDown ==
  /\ todo # <<>> /\ Head(todo)[1] = "restart" /\ again = {}
  /\ LET u == Head(todo)[2]
     IN /\ u \in installed
        /\ active' = active \ ({u} \cup RequiredBy(u))
        /\ again' = {u} \cup (RequiredBy(u) \cap active)
  /\ UNCHANGED <<installed, enabled, cmd, todo, failed, died, off>>

\* Then it starts the unit; what required it and ran may come back or not.  The
\* call fails at once, or when the unit does not start.
RestartUnit ==
  /\ todo # <<>> /\ Head(todo)[1] = "restart"
  /\ LET u == Head(todo)[2]
     IN \/ /\ u \in again
           /\ \E live \in StartedWith(u), others \in SUBSET (again \ {u}) :
                active' = active \cup {u} \cup live \cup others
           /\ Done
        \/ /\ u \in again
           /\ \E live \in SUBSET (Pulled(u) \cap installed) :
                active' = active \cup live
           /\ Fail
        \/ again = {} /\ UNCHANGED active /\ Fail
  /\ again' = {}
  /\ UNCHANGED <<installed, enabled, cmd, died, off>>

\* EnableServiceAtBoot and DisableServiceAtBoot
BootUnit ==
  /\ todo # <<>> /\ Head(todo)[1] \in {"enable", "disable"}
  /\ LET u == Head(todo)[2]
     IN \/ /\ enabled' = IF Head(todo)[1] = "enable" THEN enabled \cup {u}
                                                     ELSE enabled \ {u}
           /\ Done
        \/ UNCHANGED enabled /\ Fail
  /\ UNCHANGED active
  /\ Unused

\* The steps that touch no unit.  Preparing and exporting abort a backup when
\* they fail, as do the errors of StopServices; the extras only count.
OtherStep ==
  /\ todo # <<>>
  /\ Head(todo)[1] \in {"reload", "prepare", "check", "export", "extras"}
  /\ CASE Head(todo)[1] = "check" -> IF failed THEN Fail ELSE Done
       [] OTHER -> Done \/ Fail
  /\ UNCHANGED <<enabled, active>>
  /\ Unused

Step ==
  StartUnit \/ StopUnit \/ TakeDown \/ RestartUnit \/ BootUnit \/ OtherStep \/ Return

-----------------------------------------------------------------------------
(* The world *)

\* Ctrl-C: no signal handler, and nothing deferred runs.  systemd finishes the
\* restart that is under way.
Interrupt ==
  /\ todo # <<>> /\ again = {}
  /\ cmd' = "none" /\ todo' = <<>>
  /\ failed' = FALSE /\ died' = FALSE
  /\ UNCHANGED <<installed, enabled, active, again, off>>

UnitDies ==
  /\ \E u \in active : active' = active \ {u}
  /\ died' = (cmd # "none")
  /\ UNCHANGED <<installed, enabled, cmd, todo, again, failed, off>>

\* Restart=on-failure of the optional services, on-success of the server and the
\* database: systemd starts a container that ended again, and with it what it
\* wants, be it in the middle of a command.
UnitRestarts ==
  /\ \E u \in active : \E live \in StartedWith(u) : active' = active \cup live
  /\ died' = (cmd # "none")
  /\ UNCHANGED <<installed, enabled, cmd, todo, again, failed, off>>

\* Boot starts what is enabled, and what that wants.
Reboot ==
  /\ active' = installed \cap (enabled \cup UNION {Pulled(u) : u \in enabled})
  /\ cmd' = "none" /\ todo' = <<>> /\ again' = {} /\ failed' = FALSE /\ died' = FALSE
  /\ UNCHANGED <<installed, enabled, off>>

Next == Step \/ Command \/ Interrupt \/ UnitDies \/ UnitRestarts \/ Reboot

Spec == Init /\ [][Next]_vars

-----------------------------------------------------------------------------
(* Properties *)

\* Command c returns no error.
Succeeds(c) == cmd = c /\ Return /\ ~failed

\* Disabling has to reach the optional services: the hub, Saline and TFTP units
\* want the server, so one of them left enabled brings the whole stack up at
\* boot.  After a successful DisableServices, whatever is started, stopped or
\* backed up since, a reboot starts nothing, unless a replica is enabled that is not
\* counted: a scaling that was cut leaves such replicas, see ReplicaScaling.
DisabledStackStaysDown ==
  [][Reboot /\ off = "all" /\ AllCounted => active' = {}]_vars

\* A stop that returns no error leaves neither the core services nor anything
\* enabled that is counted running, unless a container died meanwhile.
StopReachesAll ==
  [][Succeeds("stop") /\ ~died
       => active' \cap (Counted \cup {Server, DB}) = {}]_vars

\* While the volumes of a backup that is not live are exported, no container
\* that writes to them runs: not the server, not the database, and no Saline
\* replica either, enabled or not, because systemd stops it with the server.
\* Only a container that dies and is started again can bring them back.
ColdExport ==
  (cmd \in {"backup", "backup --norestart"} /\ todo # <<>> /\ ~died)
    => (Head(todo)[1] = "export" => active \cap Writers = {})

\* No step of a command takes the database away from a running server, unless an
\* earlier one of the same command has failed or this one is failing, or a
\* container died meanwhile: a stop or a backup stops the server first.  The one
\* that does is the restart of the database itself, which podmanRestart asks for
\* before that of the server (cmd/restart/podman.go:24).
RestartsDB == todo # <<>> /\ Head(todo) = <<"restart", DB>>

DBOutlivesServer ==
  [][(cmd # "none" /\ cmd' = cmd /\ ~died' /\ ~RestartsDB)
       => ({Server, DB} \subseteq active /\ DB \notin active' => failed')]_vars

\* A start that returns no error leaves the core services and everything enabled
\* that is counted running, whatever order systemd starts them in, unless a
\* container died meanwhile.
StartedMeansRunning ==
  [][Succeeds("start") /\ ~died
       => ({Server, DB} \cap installed) \cup Counted \subseteq active]_vars

\* A backup that succeeds, and was not told otherwise, leaves the services that
\* it stopped running again, unless a container died meanwhile.
BackupRestarts ==
  [][Succeeds("backup") /\ ~died
       => ({Server, DB} \cap installed) \cup Counted \subseteq active]_vars

\* What WarnIfServicesDisabled says whenever the server unit is not enabled,
\* "Server services are disabled and will not start automatically at boot", at
\* least after a DisableServices that succeeded.
WarnedStackStaysDown ==
  [][(Reboot /\ off # "no" /\ Server \notin enabled) => Server \notin active']_vars
=============================================================================
