---------------------------- MODULE ProxyDeployment ----------------------------
(***************************************************************************)
(* The proxy on a host: mgrpxy install, upgrade, support ptf and           *)
(* uninstall, and the way of the certificates from the configuration that  *)
(* the server has generated to the podman secrets: mgrpxy/shared/podman,   *)
(* mgrpxy/cmd.                                                             *)
(*                                                                         *)
(* A configuration is the number of the installation that brought it.      *)
(***************************************************************************)
EXTENDS PodmanHost

CONSTANT Service  \* the containers of the pod

ServiceOrder == <<"httpd", "salt-broker", "squid", "ssh", "tftpd">>

Pod == "pod"
ProxyUnit == {Pod} \cup Service
SystemID == <<"proxy", "systemid">>
Certificate == {<<"proxy", "ca">>, <<"proxy", "cert">>, <<"proxy", "key">>}
ProxySecret == Certificate \cup {SystemID}
File == {"config", "httpd"}

ASSUME ProxyAssumption ==
  /\ Service \subseteq Range(ServiceOrder)
  /\ ProxyUnit \subseteq Unit /\ ProxySecret \subseteq Secret

VARIABLES
  folder,  \* the state of the files of /etc/uyuni/proxy
  yaml,    \* the certificates that are in these files
  given    \* history: the ones the last configuration brought

proxyVars == <<folder, yaml, given>>

ProxyTypeOK ==
  /\ folder \in [File -> {"none", "whole", "torn"}]
  /\ yaml \in [Certificate -> Generation] /\ given \in [Certificate -> Generation]

NoProxy ==
  /\ folder = [f \in File |-> "none"]
  /\ yaml = [c \in Certificate |-> 0] /\ given = [c \in Certificate |-> 0]

\* config.yaml has the CA, httpd.yaml the certificate of the proxy and its key.
FileOf(c) == IF c = <<"proxy", "ca">> THEN "config" ELSE "httpd"
In(f) == {c \in Certificate : FileOf(c) = f}

-----------------------------------------------------------------------------
(* The configuration *)

\* What is in the file is there, or gone when the writing was cut.
Written(f, state, value) ==
  /\ folder' = [folder EXCEPT ![f] = state]
  /\ yaml' = [c \in Certificate |-> IF c \in In(f) THEN value ELSE yaml[c]]

\* ExtractTarGz opens each file with O_TRUNC: a failure leaves it empty or half of it.
Unpack ==
  /\ At("unpack")
  /\ \/ /\ Written(Arg, "whole", gen) /\ UNCHANGED unmade /\ Continue
        /\ given' = [c \in Certificate |-> IF c \in In(Arg) THEN gen ELSE given[c]]
     \/ UNCHANGED proxyVars /\ Abort
     \/ /\ Written(Arg, "torn", 0) /\ Abort
        /\ given' = [c \in Certificate |-> IF c \in In(Arg) THEN 0 ELSE given[c]]
  /\ UNCHANGED <<services, resources, stuck>>

\* validateInstallYamlFiles: the files have to be there, whatever is in them.
Validate ==
  /\ At("validate")
  /\ IF \A f \in File : folder[f] # "none"
     THEN UNCHANGED unmade /\ Continue
     ELSE Abort
  /\ UNCHANGED <<services, resources, stuck, proxyVars>>

Extracts == At("extract") /\ yaml[Arg] # 0

\* extractKeyToSecret: an empty file is read as one without keys, half of one may not be
\* read at all.
Extract ==
  /\ At("extract")
  /\ \/ Extracts /\ CreateSecret(yaml[Arg])
     \/ ~Extracts /\ UNCHANGED <<store, unmade>> /\ Continue
     \/ folder[FileOf(Arg)] = "torn" /\ UNCHANGED store /\ Abort
  /\ UNCHANGED <<services, names, net, stuck, proxyVars>>

\* saveYaml, with os.WriteFile, which truncates the file first.
Saves == At("save") /\ \E c \in In(Arg) : yaml[c] # 0

Save ==
  /\ At("save")
  /\ \/ Saves /\ Written(Arg, "whole", 0) /\ UNCHANGED unmade /\ Continue
     \/ Saves /\ Written(Arg, "torn", 0) /\ Abort
     \/ Saves /\ UNCHANGED <<folder, yaml>> /\ Abort
     \/ ~Saves /\ UNCHANGED <<folder, yaml, unmade>> /\ Continue
  /\ UNCHANGED <<services, resources, stuck, given>>

\* A mutant: the file is saved before its last key is a secret.
ExtractStepsSavedFirst ==
  Step("extract", <<"proxy", "ca">>) \o Step("save", "config")
    \o Step("extract", <<"proxy", "cert">>) \o Step("save", "httpd")
    \o Step("extract", <<"proxy", "key">>)

\* ExtractSecrets: a file is only saved when all its keys are secrets.
ExtractSteps ==
  Step("extract", <<"proxy", "ca">>) \o Step("save", "config")
    \o Steps("extract", << <<"proxy", "cert">>, <<"proxy", "key">> >>) \o Step("save", "httpd")

-----------------------------------------------------------------------------
(* The system ID *)

RemoveSystemID ==
  /\ store' = [store EXCEPT ![SystemID] = 0]
  /\ unmade' = IF HasSecret(SystemID) THEN unmade \cup {SystemID} ELSE unmade

\* An installation removes it in any case, an upgrade only on a salt minion.
DropSystemID ==
  /\ At("forget")
  /\ \/ RemoveSystemID /\ Continue
     \/ UNCHANGED <<store, unmade>> /\ Overlook(Tail(todo))
  /\ UNCHANGED <<services, names, net, stuck, proxyVars>>

\* GetSystemID: no answer within 10 seconds, the answer to somebody else, and a secret
\* that is removed but cannot be made again are only a warning.
GetSystemID ==
  /\ At("systemid")
  /\ \/ /\ store' = [store EXCEPT ![SystemID] = gen] /\ unmade' = unmade \ {SystemID}
        /\ Continue
     \/ UNCHANGED <<store, unmade>> /\ Continue
     \/ RemoveSystemID /\ Overlook(Tail(todo))
  /\ UNCHANGED <<services, names, net, stuck, proxyVars>>

SystemIDSteps(minion) == Unless(~minion, Step("systemid", Pod))

-----------------------------------------------------------------------------
(* Images and units *)

\* GetContainerImage: an installation needs every image, an upgrade and a PTF go on
\* without the ones they do not get, which the flags tell from the others.
FetchImage ==
  /\ At("fetch")
  /\ \E policy \in Policy : \E i \in PrepareImage(Arg, policy, TRUE) :
       /\ names' = [names EXCEPT ![Arg] = i.local]
       /\ \/ i.ref # "error" /\ UNCHANGED unmade /\ Continue
          \/ i.ref = "error" /\ Set("install") /\ Abort
          \/ /\ i.ref = "error" /\ ~Set("install")
             /\ flags' = flags \cup {Arg} /\ todo' = Tail(todo)
             /\ UNCHANGED <<gen, faults, unmade>>
  /\ UNCHANGED <<services, store, net, stuck, proxyVars>>

\* GenerateSystemdService mounts the secrets that are there.
HttpdMounts == ProxySecret \cap Present
TftpdMounts == {<<"proxy", "ca">>} \cap Present
SaltBrokerMounts == {}
SquidMounts == {}
SSHMounts == {}

ProxyMounts(u) ==
  CASE u = "httpd" -> HttpdMounts
    [] u = "tftpd" -> TftpdMounts
    [] u = "salt-broker" -> SaltBrokerMounts
    [] u = "squid" -> SquidMounts
    [] u = "ssh" -> SSHMounts
    [] u = Pod -> {}

\* generateSystemdFile: without an image generated.conf stays as it is.
ImagesOf(u) == IF u = Pod \/ Set(u) THEN {image[u]} ELSE names[u]

GenerateService ==
  /\ At("generate")
  /\ \/ /\ \E ref \in ImagesOf(Arg) : WriteUnit(Arg, ProxyMounts(Arg), ref)
        /\ UNCHANGED unmade /\ Continue
     \/ UNCHANGED <<files, stuck>> /\ Abort
     \/ WriteUnit(Arg, ProxyMounts(Arg), image[Arg]) /\ Abort
  /\ UNCHANGED <<enabled, running, resources, proxyVars>>

\* The pod requires a unit of each service, which runs with the pod if it can.
PodStarts == CanStart(Pod) /\ Service \subseteq unit
PodUp == {Pod} \cup {u \in Service : CanStart(u)}

\* StartPod
StartPod ==
  /\ At("startpod")
  /\ enabled' = IF Pod \in running THEN enabled ELSE enabled \cup {Pod}
  /\ \/ PodStarts /\ running' = PodUp /\ UNCHANGED unmade /\ Continue
     \/ running' = {} /\ Abort
  /\ UNCHANGED <<files, resources, stuck, proxyVars>>

\* StopService of the pod: nothing is deferred, a failure later leaves it stopped.
StopPod ==
  /\ At("stoppod")
  /\ \/ Pod \in unit \cup running /\ running' = {} /\ UNCHANGED unmade /\ Continue
     \/ UNCHANGED running /\ Abort
  /\ UNCHANGED <<files, enabled, resources, stuck, proxyVars>>

-----------------------------------------------------------------------------
(* Commands *)

InOrderProxy(us) == Chosen(ServiceOrder, us)

Images == Steps("fetch", InOrderProxy(Service))
Units == Steps("generate", <<Pod>> \o InOrderProxy(Service))

\* installForPodman, with or without a tarball.
ProxyInstallSteps(tarball, minion) ==
  Unless(~tarball, Steps("unpack", <<"config", "httpd">>)) \o Step("validate", Pod)
    \o ExtractSteps \o Step("forget", Pod) \o SystemIDSteps(minion) \o Images
    \o Step("network", Pod) \o Units \o Step("startpod", Pod)

\* Upgrade
ProxyUpgradeSteps(minion) ==
  Step("stoppod", Pod) \o ExtractSteps
    \o Unless(~minion, Step("forget", Pod)) \o SystemIDSteps(minion)
    \o Images \o Units \o Step("startpod", Pod)

\* ptfForPodman: only the images that the registry has a PTF of.
PTFSteps(found) ==
  Step("stoppod", Pod) \o Steps("fetch", InOrderProxy(found)) \o Units \o Step("startpod", Pod)

BeginProxyInstall ==
  /\ \E tarball, minion \in BOOLEAN :
       Begin({"install"}, ProxyInstallSteps(tarball, minion))
  /\ UNCHANGED <<services, resources, history, proxyVars>>

BeginProxyUpgrade ==
  /\ \E minion \in BOOLEAN : Begin({}, ProxyUpgradeSteps(minion))
  /\ UNCHANGED <<services, resources, history, proxyVars>>

\* updateParameters: what has no image in its configuration has no PTF either.
BeginPTF ==
  /\ \E found \in SUBSET {u \in Service : image[u] # "none"} :
       Begin(Service \ found, PTFSteps(found))
  /\ UNCHANGED <<services, resources, history, proxyVars>>

\* A volume that cannot be removed ends the command.
PurgeProxyVolumes ==
  /\ At("volumes")
  /\ \/ Pretend /\ UNCHANGED unmade
     \/ Set("force") /\ running = {} /\ UNCHANGED unmade /\ Continue
     \/ Set("force") /\ Abort
  /\ UNCHANGED <<services, resources, stuck, proxyVars>>

\* os.RemoveAll does not ask whether this is a dry run: what was not extracted is lost.
PurgeFolder ==
  /\ At("folder")
  /\ \/ /\ folder' = [f \in File |-> "none"] /\ yaml' = [c \in Certificate |-> 0]
        /\ given' = [c \in Certificate |-> IF yaml[c] # 0 THEN 0 ELSE given[c]]
        /\ Continue
     \/ UNCHANGED proxyVars /\ Overlook(Tail(todo))
  /\ UNCHANGED <<services, resources, history>>

\* uninstallForPodman
ProxyUninstallSteps(f) ==
  Steps("uninstall", <<Pod>> \o InOrderProxy(Service))
    \o Steps("kill", InOrderProxy(Service))
    \o Unless("volumes" \notin f, Step("volumes", Pod) \o Step("folder", Pod))
    \o Unless("images" \notin f, Steps("purge", Purged(InOrderProxy(Service))))
    \o Step("dropnetwork", Pod)
    \o Steps("drop", <<SystemID, <<"proxy", "ca">>, <<"proxy", "cert">>, <<"proxy", "key">> >>)

BeginProxyUninstall ==
  /\ \E f \in SUBSET {"force", "volumes", "images"} : Begin(f, ProxyUninstallSteps(f))
  /\ UNCHANGED <<services, resources, history, proxyVars>>

\* The services stop with the pod they are bound to.
UninstallProxyService ==
  /\ UninstallService(IF Arg = Pod THEN Service ELSE {}) /\ UNCHANGED proxyVars

\* With the secret goes what the configuration had brought.
DropProxySecret ==
  /\ DropSecret
  /\ given' = IF Arg \in Certificate /\ Set("force") THEN [given EXCEPT ![Arg] = 0] ELSE given
  /\ UNCHANGED <<folder, yaml>>

-----------------------------------------------------------------------------
(* start, stop, restart and cache clear, and the world *)

Serve ==
  /\ Idle /\ PodStarts /\ running' = PodUp
  /\ UNCHANGED <<files, enabled, resources, call, history, proxyVars>>

Halt ==
  /\ Idle /\ running # {} /\ running' = {}
  /\ UNCHANGED <<files, enabled, resources, call, history, proxyVars>>

\* A command that is killed, perhaps while it writes a file.
CutProxyCommand ==
  /\ Interrupt(Extracts)
  /\ \/ UNCHANGED proxyVars
     \/ Saves /\ Written(Arg, "torn", 0) /\ UNCHANGED given
     \/ /\ At("unpack") /\ Written(Arg, "torn", 0)
        /\ given' = [c \in Certificate |-> IF c \in In(Arg) THEN 0 ELSE given[c]]

ProxyNext ==
  \/ (PurgeImage \/ NetworkStep \/ DropNetwork \/ DeleteContainer) /\ UNCHANGED proxyVars
  \/ Unpack \/ Validate \/ Extract \/ Save \/ DropSystemID \/ GetSystemID \/ FetchImage
  \/ GenerateService \/ StartPod \/ StopPod \/ PurgeProxyVolumes \/ PurgeFolder
  \/ UninstallProxyService \/ DropProxySecret
  \/ BeginProxyInstall \/ BeginProxyUpgrade \/ BeginPTF \/ BeginProxyUninstall
  \/ Serve \/ Halt \/ CutProxyCommand

ProxyInit == NoCommand /\ BareHost /\ NoProxy

-----------------------------------------------------------------------------
(* Properties *)

\* What the next command takes for the certificate: the file's, or else the secret.
Effective(c) == IF yaml[c] # 0 THEN yaml[c] ELSE store[c]

\* A certificate is in its file or in its secret at every moment, however an extraction
\* is cut, so that repeating the command finds it: until an uninstallation, or a dry run
\* of one, removes it.
ConfigurationKept == \A c \in Certificate : given[c] # 0 => Effective(c) = given[c]
=============================================================================
