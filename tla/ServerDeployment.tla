--------------------------- MODULE ServerDeployment ---------------------------
(***************************************************************************)
(* The server and its satellites on a host: mgradm install, upgrade and    *)
(* uninstall, as far as units, images, the network and the credentials go. *)
(* What an upgrade does to the data is in ServerUpgrade, the certificates  *)
(* are in CertificateRotation.                                             *)
(*                                                                         *)
(* A set of passwords is the number of the command that made it up.        *)
(***************************************************************************)
EXTENDS PodmanHost

CONSTANTS
  DBCredential,  \* the credentials of the database: of the server, reports and admin
  Satellite      \* the containers next to the server and the database

AllDBCredentials == <<"db", "reportdb", "dbadmin">>
SatelliteOrder == <<"coco", "hub", "saline", "tftp">>

Core == {"server", "db"}
ServerUnit == Core \cup Satellite
Half == {"user", "pass"}
TLS == {<<"tls", "server">>, <<"tls", "db">>}
Login == <<"db", "pass">>
Halves(cs) == cs \X Half
Pair(c) == << <<c, "user">>, <<c, "pass">> >>
Credentials == DBCredential \cup {"admin", "scc"}
ServerSecret == TLS \cup Halves(Credentials)

ASSUME ServerAssumption ==
  /\ "db" \in DBCredential /\ DBCredential \subseteq Range(AllDBCredentials)
  /\ Satellite \subseteq Range(SatelliteOrder)
  /\ ServerUnit \subseteq Unit /\ ServerSecret \subseteq Secret

VARIABLES
  data,    \* the passwords the database was created with, 0 without a database
  conf,    \* the ones the server was set up with, in the volume of its configuration
  env,     \* server.env is there
  legacy,  \* what is left of an older server: Service.conf, IPv6 ports, a local database
  kept     \* history: the database or the configuration is older than the secrets: it
           \* outlived an uninstallation or an installation, or comes from a server that
           \* had none

serverVars == <<data, conf, env, legacy, kept>>
volumes == <<data, conf>>
settings == <<env, legacy, kept>>

Legacy == {"Service.conf", "ports", "localhost"}

ServerTypeOK ==
  /\ data \in Generation /\ conf \in Generation
  /\ env \in BOOLEAN /\ legacy \subseteq Legacy
  /\ kept \in BOOLEAN

NoServer ==
  /\ data = 0 /\ conf = 0 /\ env = FALSE /\ legacy = {} /\ kept = FALSE

-----------------------------------------------------------------------------
(* Units and what they mount *)

\* GenerateServerSystemdService: the credentials whose user is known.
ServerMounts == TLS \cup Halves({c \in Credentials \ {"dbadmin"} : HasSecret(<<c, "user">>)})

\* GeneratePgsqlSystemdService: all that a local database is made with.
DBMounts == {<<"tls", "db">>} \cup Halves(DBCredential)

\* The satellites' files name the login of the database or the CA of the server.
CocoMounts == Halves({"db"})
SalineMounts == {}
HubMounts == {<<"tls", "server">>}
TFTPMounts == {<<"tls", "server">>}

SatelliteMounts(u) ==
  CASE u = "coco" -> CocoMounts
    [] u = "saline" -> SalineMounts
    [] u = "hub" -> HubMounts
    [] u = "tftp" -> TFTPMounts

MountsOf(u) ==
  CASE u = "server" -> ServerMounts
    [] u = "db" -> DBMounts
    [] u \in Satellite -> SatelliteMounts(u)

\* What starting these units does to the volumes: the database is created with the
\* passwords it finds in the secrets, the server keeps the ones it was set up with.
Started(us) ==
  /\ running' = running \cup us
  /\ data' = IF "db" \in us /\ data = 0 THEN store[Login] ELSE data
  /\ conf' = IF "server" \in us /\ conf = 0 THEN store[Login] ELSE conf

\* The container of the server also needs its environment file.
Startable(u) == CanStart(u) /\ (u = "server" => env)

\* systemd starts the database, which the server wants, along with it.
WithDB(u) == IF u = "server" /\ Startable("db") THEN {"db", u} ELSE {u}

-----------------------------------------------------------------------------
(* The steps of install and upgrade *)

\* Installing needs no server; an upgrade reads its settings in the container that runs.
Readable == Set("install") \/ "server" \in running

\* PrepareImages: the server's, then the one of the database; and for an upgrade
\* prepareHost, which refuses some of them and a server that does not run.
PrepareImages ==
  /\ At("images")
  /\ \E policy \in Policy :
       \E s \in PrepareImage("server", policy, TRUE), d \in PrepareImage("db", policy, TRUE) :
         \/ /\ s.ref # "error" /\ d.ref # "error"
            /\ names' = [names EXCEPT !["server"] = s.local, !["db"] = d.local]
            /\ \/ Readable /\ UNCHANGED unmade /\ Continue
               \/ ~Set("install") /\ Abort
         \/ /\ s.ref # "error" /\ d.ref = "error"
            /\ names' = [names EXCEPT !["server"] = s.local] /\ Abort
         \/ /\ s.ref = "error" /\ UNCHANGED names /\ Abort
  /\ UNCHANGED <<services, store, net, stuck, serverVars>>

\* GeneratePgsqlSystemdService and what GenerateSystemdService writes: under which of its
\* names PrepareImages has found the image is left open.  The unit file comes first, but
\* an upgrade writes the server's after its generated.conf.
WriteCore ==
  /\ At("write")
  /\ \/ /\ \E ref \in names[Arg] : WriteUnit(Arg, MountsOf(Arg), ref)
        /\ UNCHANGED unmade /\ Continue
     \/ UNCHANGED <<files, stuck>> /\ Abort
     \/ /\ Arg = "db" \/ Set("install")
        /\ WriteUnit(Arg, MountsOf(Arg), image[Arg]) /\ Abort
     \/ /\ Arg = "server" /\ ~Set("install") /\ UNCHANGED <<unit, mounts, stuck>>
        /\ \E ref \in names[Arg] : image' = [image EXCEPT ![Arg] = ref]
        /\ Abort
  /\ UNCHANGED <<enabled, running, resources, serverVars>>

\* systemctl enable --now, or start when the unit is enabled: without its secrets the
\* container does not start, but the unit is enabled.
EnableUnit ==
  /\ At("enable")
  /\ enabled' = enabled \cup {Arg}
  /\ \/ Startable(Arg) /\ Started(WithDB(Arg)) /\ UNCHANGED unmade /\ Continue
     \/ UNCHANGED <<running, volumes>> /\ Abort
  /\ UNCHANGED <<files, resources, stuck, settings>>

\* podman ps -f name=uyuni-server also finds uyuni-server-attestation.
Seen(u) == running \cap (IF u = "server" THEN {"server", "coco"} ELSE {u}) # {}

\* WaitForHealthcheck ends when the container is healthy or none is seen.  One that is
\* seen and never healthy is waited for until somebody interrupts it.
Wait ==
  /\ At("wait")
  /\ \/ Arg \in running /\ UNCHANGED unmade /\ Continue
     \/ ~Seen(Arg) /\ Abort
  /\ UNCHANGED <<services, resources, stuck, serverVars>>

\* What is waited for dies.
DiesWhileWaited ==
  /\ At("wait") /\ Arg \in running /\ running' = running \ {Arg}
  /\ UNCHANGED <<files, enabled, resources, call, history, serverVars>>

\* GenerateServerEnvironmentFile
WriteEnv ==
  /\ At("env")
  /\ \/ env' = TRUE /\ UNCHANGED unmade /\ Continue
     \/ UNCHANGED env /\ Abort
  /\ UNCHANGED <<services, resources, stuck, volumes, legacy, kept>>

\* Steps that leave nothing that another one goes by: CopyCaCertificate and the data of
\* a cloud provider.
Trust ==
  /\ At("trust")
  /\ \/ UNCHANGED unmade /\ Continue
     \/ Abort
  /\ UNCHANGED <<services, resources, stuck, serverVars>>

\* StopService, after which the start is deferred.
StopCore ==
  /\ At("stop")
  /\ \/ /\ running' = running \ {Arg} /\ flags' = flags \cup {Arg}
        /\ todo' = Tail(todo) /\ UNCHANGED <<gen, faults, unmade>>
     \/ UNCHANGED running /\ Abort
  /\ UNCHANGED <<files, enabled, resources, stuck, serverVars>>

\* StartService
StartCore ==
  /\ At("start")
  /\ \/ Startable(Arg) /\ Started(WithDB(Arg)) /\ UNCHANGED unmade /\ Continue
     \/ UNCHANGED <<running, volumes>> /\ Abort
  /\ UNCHANGED <<files, enabled, resources, stuck, settings>>

\* The same at the end of Upgrade, where its error is lost.
DeferredStart ==
  /\ At("defer")
  /\ \/ Startable(Arg) /\ Started(WithDB(Arg)) /\ Continue
     \/ ~Startable(Arg) /\ UNCHANGED <<running, volumes>> /\ Continue
     \/ UNCHANGED <<running, volumes>> /\ Overlook(Tail(todo))
  /\ UNCHANGED <<files, enabled, resources, history, settings>>

\* RunSplitContainerSettings, whose settings are those of a database of its own.
SplitDatabase ==
  /\ At("split")
  /\ \/ legacy' = legacy \ {"localhost"} /\ UNCHANGED unmade /\ Continue
     \/ UNCHANGED legacy /\ Abort
  /\ UNCHANGED <<services, resources, stuck, volumes, env, kept>>

\* CleanSystemdConfFile: Service.conf becomes custom.conf.
CleanConf ==
  /\ At("cleanconf")
  /\ \/ legacy' = legacy \ {"Service.conf"} /\ UNCHANGED unmade /\ Continue
     \/ UNCHANGED legacy /\ Abort
  /\ UNCHANGED <<services, resources, stuck, volumes, env, kept>>

\* Without the rest of what is to be done for a satellite.
Without(u) == Chosen(todo, {s \in Range(todo) : s[1] # "inspected" /\ s[2] # u})

\* coco.Upgrade replaces the database's credentials with the ones it has read from the
\* server.  An error ends the attestation, not the command.
PutInspected ==
  /\ At("inspected")
  /\ \/ /\ store' = [store EXCEPT ![Arg] = conf] /\ unmade' = unmade \ {Arg}
        /\ Continue
     \/ /\ store' \in {store, [store EXCEPT ![Arg] = 0]} /\ unmade' = unmade \cup {Arg}
        /\ Overlook(Without("coco"))
  /\ UNCHANGED <<services, names, net, stuck, serverVars>>

-----------------------------------------------------------------------------
(* The satellites *)

\* Whether a satellite is to run: what the command line asks for, or else as before.
Wanted(u) == IF Set("changed") THEN Set(u) ELSE u \in enabled

\* An installation only scales the attestation down.
Unwanted(u) == ~Wanted(u) /\ u \in enabled /\ (Set("install") => u = "coco")

\* Whether the image has to be there, where Saline's forgets the replica that runs.
PullEnabled(u) == Wanted(u) /\ (u = "saline" => Set("changed"))

\* The unit file, and generated.conf, which stays as it is when only this one fails.
WriteSatellite(ref) ==
  \/ WriteUnit(Arg, MountsOf(Arg), ref) /\ Continue
  \/ WriteUnit(Arg, MountsOf(Arg), image[Arg]) /\ Overlook(Without(Arg))

\* Their image, unit file and generated.conf.  The errors of all of them are joined: the
\* others are still set up.
PrepareSatellite ==
  /\ At("satellite")
  /\ \/ \E policy \in Policy : \E i \in PrepareImage(Arg, policy, PullEnabled(Arg)) :
          /\ i.ref # "error"
          /\ names' = [names EXCEPT ![Arg] = i.local] /\ WriteSatellite(i.ref)
     \/ UNCHANGED <<files, names, stuck>> /\ Overlook(Without(Arg))
  /\ UNCHANGED <<enabled, running, store, net, unmade, serverVars>>

\* ScaleService, EnableService or RestartInstantiated
LaunchSatellite ==
  /\ At("launch") /\ Wanted(Arg)
  /\ \/ /\ Startable(Arg)
        /\ enabled' = enabled \cup {Arg} /\ running' = running \cup {Arg} /\ Continue
     \/ /\ enabled' \in {enabled, enabled \cup {Arg}} /\ UNCHANGED running
        /\ Overlook(Tail(todo))
  /\ UNCHANGED <<files, resources, history, serverVars>>

\* The same with no replicas.
ScaleDownSatellite ==
  /\ At("launch") /\ ~Wanted(Arg)
  /\ \/ /\ Unwanted(Arg) /\ Continue
        /\ enabled' = enabled \ {Arg} /\ running' = running \ {Arg}
     \/ Unwanted(Arg) /\ UNCHANGED <<enabled, running>> /\ Overlook(Tail(todo))
     \/ ~Unwanted(Arg) /\ UNCHANGED <<enabled, running>> /\ Continue
  /\ UNCHANGED <<files, resources, history, serverVars>>

\* The Upgrade or Setup function of a satellite.
SatelliteSteps(us) ==
  [i \in 1 .. 2 * Len(us) |->
     <<IF i % 2 = 1 THEN "satellite" ELSE "launch", us[(i + 1) \div 2]>>]

InOrder(us) == Chosen(SatelliteOrder, us)

AllSatellites == SatelliteSteps(InOrder(Satellite))

-----------------------------------------------------------------------------
(* Commands *)

DBCredentials == Chosen(AllDBCredentials, DBCredential)

PutPairs(cs) == [i \in 1 .. 2 * Len(cs) |-> <<"put", Pair(cs[(i + 1) \div 2])[2 - (i % 2)]>>]

PutTLS == Steps("put", << <<"tls", "server">>, <<"tls", "db">> >>)

\* SetupPgsql and pgsql.Upgrade.
SetupDB == Step("write", "db") \o Step("enable", "db") \o Step("wait", "db")

\* GenerateSystemdService
ServiceSteps(scc) ==
  Step("network", "server") \o PutPairs(<<"admin">>)
    \o Unless(~scc, PutPairs(<<"scc">>)) \o Step("write", "server")

\* WaitForSystemStart
StartSystem == Step("enable", "server") \o Step("wait", "server")

\* installForPodman and setupDatabase.
InstallSteps(scc) ==
  Step("images", "server") \o Step("network", "server") \o PutTLS
    \o PutPairs(DBCredentials) \o SetupDB \o Step("env", "server")
    \o ServiceSteps(scc) \o StartSystem \o Step("trust", "server") \o AllSatellites

\* A host with a unit file of the server is refused.
BeginInstall ==
  /\ "server" \notin unit
  /\ \E scc \in BOOLEAN, wanted \in SUBSET Satellite :
       Begin({"install", "changed"} \cup wanted, InstallSteps(scc))
  /\ kept' = (data # 0 \/ conf # 0)
  /\ UNCHANGED <<services, resources, history, volumes, env, legacy>>

\* configureDBContainer
ConfigureDB ==
  Step("split", "server") \o Steps("complete", DBCredentials) \o SetupDB

\* Upgrade, with the coordinates of the database that the server has: the certificates
\* are only made for a server that had its own.
UpgradeSteps(inspected, satellites) ==
  Step("network", "server") \o Step("images", "server") \o Step("stop", "server")
    \o Unless("db" \notin unit, Step("stop", "db"))
    \o Unless("localhost" \notin legacy, PutTLS) \o ConfigureDB \o SetupDB
    \o Step("cleanconf", "server") \o Step("env", "server")
    \o Step("write", "server") \o Step("start", "server") \o Step("wait", "server")
    \o Unless(~inspected \/ conf = 0, Steps("inspected", Pair("db"))) \o satellites
    \o Unless("db" \notin unit, Step("defer", "db")) \o Step("defer", "server")

BeginUpgrade ==
  /\ "server" \in unit /\ "ports" \notin legacy
  /\ \E f \in {{}} \cup {{"changed"} \cup wanted : wanted \in SUBSET Satellite} :
       Begin(f, UpgradeSteps("coco" \in Satellite, AllSatellites))
  /\ UNCHANGED <<services, resources, history, volumes, settings>>

\* checkParameters: what the registry has no PTF of is only restarted, or for want of an
\* image an error.
PTFSatellites(found) ==
  Chosen(AllSatellites, ({"satellite", "launch"} \X found) \cup ({"launch"} \X {"coco", "hub"}))

\* ptfForPodman
BeginServerPTF ==
  /\ image["server"] # "none"
  /\ \E found \in SUBSET {u \in Satellite : image[u] # "none"} :
       Begin({}, IF image["db"] = "none" THEN Step("network", "server")
                 ELSE UpgradeSteps("coco" \in found, PTFSatellites(found)))
  /\ UNCHANGED <<services, resources, history, volumes, settings>>

\* checkAndCleanIPv6PortBindings: the upgrade has to be run again after a reboot.
UpgradeCleansPorts ==
  /\ "server" \in unit /\ "ports" \in legacy /\ Begin({}, <<>>)
  /\ legacy' = legacy \ {"ports"}
  /\ UNCHANGED <<services, resources, history, volumes, env, kept>>

\* DeleteVolume: a volume that is used stays, which is only a warning.
PurgeVolume ==
  /\ At("volume")
  /\ \/ Pretend /\ UNCHANGED volumes
     \/ Set("force") /\ Arg \in running /\ UNCHANGED volumes /\ Continue
     \/ Set("force") /\ UNCHANGED volumes /\ Overlook(Tail(todo))
     \/ /\ Set("force") /\ Arg \notin running /\ Continue
        /\ data' = (IF Arg = "db" THEN 0 ELSE data)
        /\ conf' = (IF Arg = "server" THEN 0 ELSE conf)
  /\ UNCHANGED <<services, resources, history, settings>>

DropPairs(cs) == [i \in 1 .. 2 * Len(cs) |-> <<"drop", Pair(cs[(i + 1) \div 2])[2 - (i % 2)]>>]

Instantiated == InOrder(Satellite \ {"tftp"})
Plain == <<"db">> \o InOrder(Satellite \cap {"tftp"})
ReportFirst == Chosen(<<"reportdb", "db", "dbadmin">>, DBCredential)

\* A mutant: the secrets are removed first.
UninstallStepsSecretsFirst(f) ==
  DropPairs(ReportFirst) \o Steps("drop", << <<"tls", "db">>, <<"tls", "server">> >>)
    \o Step("uninstall", "server") \o Step("kill", "server") \o Step("uninstall", "db")

\* uninstallForPodman: the units first, and everything but the SCC credentials.
UninstallSteps(f) ==
  Step("uninstall", "server") \o Step("kill", "server")
    \o Steps("template", Instantiated) \o Steps("uninstall", Plain)
    \o Unless("volumes" \notin f, Steps("volume", <<"server", "db">>))
    \o Unless("images" \notin f, Steps("purge", Purged(<<"server">> \o Instantiated \o Plain)))
    \o Step("dropnetwork", "server") \o DropPairs(ReportFirst)
    \o Steps("drop", << <<"tls", "db">>, <<"tls", "server">> >>) \o DropPairs(<<"admin">>)

BeginUninstall ==
  /\ \E f \in SUBSET {"force", "volumes", "images"} :
       Begin(f, UninstallSteps(f)) /\ kept' = (kept \/ "force" \in f)
  /\ UNCHANGED <<services, resources, history, volumes, env, legacy>>

\* With the unit of the server go server.env and Service.conf, but not custom.conf.
UninstallServerService ==
  /\ UninstallService({})
  /\ IF Set("force") /\ Arg = "server" /\ Arg \in unit
     THEN env' = FALSE /\ legacy' = legacy \ {"Service.conf", "ports"}
     ELSE UNCHANGED <<env, legacy>>
  /\ UNCHANGED <<volumes, kept>>

ServerStep ==
  \/ (HostNext \/ Interrupt(At("put"))) /\ UNCHANGED serverVars
  \/ PrepareImages \/ WriteCore \/ EnableUnit \/ Wait \/ DiesWhileWaited \/ WriteEnv \/ Trust
  \/ StopCore \/ StartCore \/ DeferredStart \/ SplitDatabase \/ CleanConf \/ PutInspected
  \/ PrepareSatellite \/ LaunchSatellite \/ ScaleDownSatellite \/ PurgeVolume \/ UninstallServerService

ServerCommand == BeginInstall \/ BeginUpgrade \/ BeginServerPTF \/ UpgradeCleansPorts \/ BeginUninstall

-----------------------------------------------------------------------------
(* The world *)

\* mgradm disable, which stops nothing.
Disable ==
  /\ Idle /\ enabled # {} /\ enabled' = {}
  /\ UNCHANGED <<files, running, resources, call, history, serverVars>>

Reboot ==
  /\ Idle
  /\ LET up == {u \in enabled : Startable(u)}
         all == up \cup (IF "server" \in up THEN WithDB("server") ELSE {})
     IN  /\ running' = all
         /\ data' = IF "db" \in all /\ data = 0 THEN store[Login] ELSE data
         /\ conf' = IF "server" \in all /\ conf = 0 THEN store[Login] ELSE conf
  /\ UNCHANGED <<files, enabled, resources, call, history, settings>>

ServerNext == ServerStep \/ ServerCommand \/ Disable \/ Reboot

-----------------------------------------------------------------------------
(* The host before: bare, with a server, or with one of the first release *)

Installed(units, secrets, old) ==
  /\ unit = units /\ enabled = units \ Satellite /\ running = units \ Satellite
  /\ store = [s \in Secret |-> IF s \in secrets THEN 1 ELSE 0]
  /\ mounts = [u \in Unit |-> IF u \in units THEN MountsOf(u) \cap secrets ELSE {}]
  /\ image = [u \in Unit |-> IF u \in units THEN "registry" ELSE "none"]
  /\ names = [u \in Unit |-> IF u \in units THEN {"registry"} ELSE {}]
  /\ net = "v4" /\ gen = 1
  /\ data = 1 /\ conf = 1 /\ env = TRUE /\ legacy = old /\ kept = (old # {})

ServerInit ==
  /\ NoCommand
  /\ \/ BareHost /\ NoServer
     \/ Installed(ServerUnit, ServerSecret \ Halves({"scc"}), {})
     \/ \E old \in {Legacy, Legacy \ {"ports"}} :
          Installed({"server"}, {}, old)

-----------------------------------------------------------------------------
(* Properties *)

\* The password in the secrets is that of the database.  An installation makes up a new one
\* even if it finds the database of one that was cut, and a forced uninstallation may keep
\* the database without the secrets: from then on, and for a server of a release without
\* secrets, they may differ.
LoginFits == data # 0 /\ ~kept /\ HasSecret(Login) => store[Login] = data

=============================================================================
