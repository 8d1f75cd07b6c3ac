------------------------------ MODULE PodmanHost ------------------------------
(***************************************************************************)
(* A host with podman and systemd, and the steps from which mgradm and     *)
(* mgrpxy build the commands that install, upgrade and uninstall a server  *)
(* or a proxy: shared/podman, shared/connection.go.                        *)
(*                                                                         *)
(* A command is the sequence of the steps it has yet to do, each an        *)
(* operation and its argument.  It may be cut before every one of them.    *)
(* What a command returns is left out: the next one goes by what it finds. *)
(***************************************************************************)
EXTENDS Naturals, Sequences, Functions

CONSTANTS
  Unit,           \* the systemd units of the tools
  Secret,         \* the podman secrets
  Packaged,       \* the units whose image the host has as a package
  MaxGeneration,  \* named bound: the commands that are run
  MaxFaults       \* named bound: the failures of a command that are only logged

ASSUME HostAssumption ==
  MaxGeneration \in Nat \ {0} /\ MaxFaults \in Nat /\ Packaged \subseteq Unit

VARIABLES
  unit,     \* the units that have a file
  mounts,   \* the secrets each of these files names
  image,    \* the image in generated.conf
  enabled,  \* the units that start at boot
  running,  \* those whose container runs
  store,    \* the generation of each secret, 0 for none
  names,    \* the names under which podman has the image of a unit
  net,      \* the uyuni network
  flags,    \* the flags of the running command, and the units it has stopped
  todo,     \* its steps
  gen,      \* how many commands were run: what each makes up has its number
  faults,   \* how often the running one failed and went on
  unmade,   \* history: the secrets that commands failed or were cut to make, or removed
            \* although a unit file had stayed
  stuck     \* history: the units whose file could not be removed

services == <<unit, mounts, image, enabled, running>>
files == <<unit, mounts, image>>
resources == <<store, names, net>>
call == <<flags, todo, gen, faults>>
history == <<unmade, stuck>>
host == <<services, resources, call, history>>

Generation == 0 .. MaxGeneration
Ref == {"registry", "localhost"}
NetState == {"none", "v4", "v6"}

HostTypeOK ==
  /\ unit \subseteq Unit /\ enabled \subseteq Unit /\ running \subseteq Unit
  /\ mounts \in [Unit -> SUBSET Secret]
  /\ image \in [Unit -> Ref \cup {"none", "absent"}]
  /\ store \in [Secret -> Generation]
  /\ names \in [Unit -> SUBSET Ref]
  /\ net \in NetState /\ gen \in Generation /\ faults \in 0 .. MaxFaults
  /\ unmade \subseteq Secret /\ stuck \subseteq Unit

BareHost ==
  /\ unit = {} /\ enabled = {} /\ running = {}
  /\ mounts = [u \in Unit |-> {}] /\ image = [u \in Unit |-> "none"]
  /\ store = [s \in Secret |-> 0] /\ names = [u \in Unit |-> {}] /\ net = "none"
  /\ gen = 0

NoCommand == flags = {} /\ todo = <<>> /\ faults = 0 /\ unmade = {} /\ stuck = {}

-----------------------------------------------------------------------------
(* The steps of a command *)

Idle == todo = <<>>
At(op) == ~Idle /\ Head(todo)[1] = op
Arg == Head(todo)[2]
Set(f) == f \in flags
Step(op, arg) == << <<op, arg>> >>
Steps(op, args) == [i \in DOMAIN args |-> <<op, args[i]>>]
Unless(condition, steps) == IF condition THEN <<>> ELSE steps

\* Those of s that are in T, in their order.
Chosen(s, T) ==
  LET chosen[n \in 0 .. Len(s)] ==
        IF n = 0 THEN <<>> ELSE chosen[n - 1] \o Unless(s[n] \notin T, <<s[n]>>)
  IN  chosen[Len(s)]

Begin(f, steps) ==
  /\ Idle /\ gen < MaxGeneration /\ gen' = gen + 1
  /\ flags' = f /\ todo' = steps /\ faults' = 0

\* The flags are gone with the last step.
GoOn(steps, failures) ==
  /\ todo' = steps /\ flags' = (IF steps = <<>> THEN {} ELSE flags)
  /\ faults' = (IF steps = <<>> THEN 0 ELSE failures) /\ UNCHANGED gen

Continue == GoOn(Tail(todo), faults)

\* A failure that is logged, after which the command goes on.
Overlook(steps) == faults < MaxFaults /\ GoOn(steps, faults + 1)

\* What a dry run does.
Pretend == ~Set("force") /\ Continue

\* The secrets that will not be made because the command ends here.
Pending ==
  {s \in Secret : \E i \in DOMAIN todo : todo[i] \in {<<"put", s>>, <<"extract", s>>}}

\* What a function has deferred, the start of what it stopped, is done all the same
\* when it fails: the last deferred first.
Deferred ==
  Unless(~Set("db"), Step("defer", "db")) \o Unless(~Set("server"), Step("defer", "server"))

Abort ==
  /\ todo' = Deferred /\ flags' = {} /\ faults' = 0 /\ UNCHANGED gen
  /\ unmade' = unmade \cup Pending

-----------------------------------------------------------------------------
(* Images *)

Policy == {"always", "ifnotpresent", "never"}

\* IsImagePresent: the name that was asked for, or else the one of a package.
PresentName(local) == IF "registry" \in local THEN "registry" ELSE "localhost"

\* A mutant: the wrong part of what podman load prints.
LoadedMisread(local) == [ref |-> "Loaded image", local |-> local \cup {"localhost"}]

Loaded(local) == [ref |-> "localhost", local |-> local \cup {"localhost"}]

Fetched(local) == [ref |-> "registry", local |-> local \cup {"registry"}]
Unfetched(local) == [ref |-> "absent", local |-> local]
NotPrepared(local) == [ref |-> "error", local |-> local]

\* GetRpmImagePath: a package has an image of this name and tag.
IsPackaged(u) == u \in Packaged

\* tryLoadRpmImage: a package that cannot be loaded is not an error.
FromPackage(u) == IF IsPackaged(u) THEN {Loaded(names[u])} ELSE {}

\* pullImage, unless it is not allowed or nobody needs the image yet.
FromRegistry(local, policy, pull) ==
  CASE policy = "never" -> {NotPrepared(local)}
    [] policy # "never" /\ pull -> {Fetched(local), NotPrepared(local)}
    [] policy # "never" /\ ~pull -> {Unfetched(local)}

\* PrepareImage: what is there is only used if the policy is not always.
PrepareImage(u, policy, pull) ==
  {NotPrepared(names[u])} \cup
  IF policy # "always" /\ names[u] # {}
  THEN {[ref |-> PresentName(names[u]), local |-> names[u]]}
  ELSE FromPackage(u) \cup FromRegistry(names[u], policy, pull)

\* GetServiceImage: what generated.conf says, even without a unit file.
Purged(units) == Chosen(units, {u \in Unit : image[u] # "none"})

\* --purge-images, with the names read before the units were removed: a failure ends
\* the command.
PurgeImage ==
  /\ At("purge")
  /\ \/ Pretend /\ UNCHANGED <<names, unmade>>
     \/ Set("force") /\ names' = [names EXCEPT ![Arg] = {}] /\ UNCHANGED unmade /\ Continue
     \/ Set("force") /\ UNCHANGED names /\ Abort
  /\ UNCHANGED <<services, store, net, stuck>>

-----------------------------------------------------------------------------
(* The network *)

\* podman network create, which only makes an IPv6 network with netavark.
Created(v6) == {"v4"} \cup (IF v6 THEN {"v6"} ELSE {})

\* SetupNetwork: a network without IPv6 is replaced on a host that has it, which
\* podman refuses while a container uses it.
Replaced(v6) == net = "v4" /\ v6

SetupNetwork(v6) ==
  \/ /\ net # "none" /\ ~Replaced(v6)
     /\ UNCHANGED <<net, unmade>> /\ Continue
  \/ /\ net = "none" \/ (Replaced(v6) /\ running = {})
     /\ net' \in Created(v6) /\ UNCHANGED unmade /\ Continue
  \/ /\ net = "none" \/ Replaced(v6)
     /\ net' \in {net} \cup (IF running = {} THEN {"none"} ELSE {})
     /\ Abort

NetworkStep ==
  /\ At("network") /\ \E v6 \in BOOLEAN : SetupNetwork(v6)
  /\ UNCHANGED <<services, store, names, stuck>>

\* DeleteNetwork: a failure is only logged.
DropNetwork ==
  /\ At("dropnetwork")
  /\ \/ Pretend /\ UNCHANGED net
     \/ Set("force") /\ running = {} /\ net' = "none" /\ Continue
     \/ Set("force") /\ running # {} /\ UNCHANGED net /\ Continue
     \/ Set("force") /\ UNCHANGED net /\ Overlook(Tail(todo))
  /\ UNCHANGED <<services, store, names, history>>

-----------------------------------------------------------------------------
(* Secrets *)

HasSecret(s) == store[s] # 0
Present == {s \in Secret : HasSecret(s)}

\* createSecretFromFile removes a secret before it makes it again: both may fail.
CreateSecret(value) ==
  \/ /\ store' = [store EXCEPT ![Arg] = value] /\ unmade' = unmade \ {Arg}
     /\ Continue
  \/ /\ store' \in {store, [store EXCEPT ![Arg] = 0]}
     /\ Abort

\* setPasswordIfMissing: what is not given is made up by each command.
MadeUp == gen

PutStep ==
  /\ At("put") /\ CreateSecret(MadeUp) /\ UNCHANGED <<services, names, net, stuck>>

\* CreateCredentialsSecretsIfMissing: one of the two halves is enough to skip both.
PutIfMissing ==
  /\ At("complete")
  /\ LET pair == << <<Arg, "user">>, <<Arg, "pass">> >>
         missing == ~HasSecret(pair[1]) /\ ~HasSecret(pair[2])
     IN  GoOn(Unless(~missing, Steps("put", pair)) \o Tail(todo), faults)
  /\ UNCHANGED <<services, resources, history>>

\* DeleteSecret: a failure is only logged.
DropSecret ==
  /\ At("drop")
  /\ \/ Pretend /\ UNCHANGED <<store, unmade>>
     \/ /\ Set("force") /\ store' = [store EXCEPT ![Arg] = 0] /\ Continue
        /\ unmade' = IF stuck = {} THEN unmade \ {Arg} ELSE unmade \cup {Arg}
     \/ Set("force") /\ UNCHANGED <<store, unmade>> /\ Overlook(Tail(todo))
  /\ UNCHANGED <<services, names, net, stuck>>

-----------------------------------------------------------------------------
(* Units *)

\* podman run needs the secrets and the network.
CanStart(u) == u \in unit /\ mounts[u] \subseteq Present /\ net # "none"

\* The unit file and generated.conf.
WriteUnit(u, secrets, ref) ==
  /\ unit' = unit \cup {u} /\ mounts' = [mounts EXCEPT ![u] = secrets]
  /\ image' = [image EXCEPT ![u] = ref] /\ stuck' = stuck \ {u}

\* systemctl disable --now, only for a unit that is enabled.
DisableNow(u, bound) ==
  IF u \in enabled
  THEN enabled' = enabled \ {u} /\ running' = running \ ({u} \cup bound)
  ELSE UNCHANGED <<enabled, running>>

\* uninstallServiceFiles
RemoveFiles(u) ==
  /\ unit' = unit \ {u} /\ mounts' = [mounts EXCEPT ![u] = {}]
  /\ stuck' = stuck \ {u}

\* What fails is only logged.
RemoveUnit(u, bound) ==
  /\ \/ DisableNow(u, bound) /\ RemoveFiles(u) /\ Continue
     \/ UNCHANGED <<enabled, running>> /\ RemoveFiles(u) /\ Overlook(Tail(todo))
     \/ /\ u \in unit /\ DisableNow(u, bound)
        /\ UNCHANGED <<unit, mounts>> /\ stuck' = stuck \cup {u} /\ Overlook(Tail(todo))
  /\ image' = [image EXCEPT ![u] = "none"]

\* UninstallService looks for the unit file first.
UninstallService(bound) ==
  /\ At("uninstall")
  /\ IF Set("force") /\ Arg \in unit
     THEN RemoveUnit(Arg, bound)
     ELSE UNCHANGED <<services, stuck>> /\ Continue
  /\ UNCHANGED <<resources, unmade>>

\* UninstallInstantiatedService does not.
UninstallInstantiated ==
  /\ At("template")
  /\ IF Set("force") THEN RemoveUnit(Arg, {}) ELSE UNCHANGED <<services, stuck>> /\ Continue
  /\ UNCHANGED <<resources, unmade>>

\* DeleteContainer
DeleteContainer ==
  /\ At("kill")
  /\ \/ Pretend /\ UNCHANGED running
     \/ Set("force") /\ running' = running \ {Arg} /\ Continue
     \/ Set("force") /\ UNCHANGED running /\ Overlook(Tail(todo))
  /\ UNCHANGED <<files, enabled, resources, history>>

HostNext ==
  \/ PurgeImage \/ NetworkStep \/ DropNetwork
  \/ PutStep \/ PutIfMissing \/ DropSecret
  \/ UninstallInstantiated \/ DeleteContainer

-----------------------------------------------------------------------------
(* The world *)

\* The command is killed, perhaps between the removal and the creation of a secret.
Interrupt(replacing) ==
  /\ ~Idle /\ todo' = <<>> /\ flags' = {} /\ faults' = 0 /\ UNCHANGED gen
  /\ \/ UNCHANGED store
     \/ replacing /\ store' = [store EXCEPT ![Arg] = 0]
  /\ unmade' = unmade \cup Pending
  /\ UNCHANGED <<services, names, net, stuck>>
=============================================================================
