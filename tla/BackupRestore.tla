---------------------------- MODULE BackupRestore ----------------------------
(***************************************************************************)
(* mgradm backup create and mgradm backup restore: what they write to the  *)
(* backup directory and to the host, step by step.                         *)
(*                                                                         *)
(* The data of a volume is the set of the parts of it that are there: head *)
(* and tail are the files of the server that is backed up, fresh those a   *)
(* newly installed server writes.  A tar file that was cut lacks the tail. *)
(* What may be absent is a set with at most one element.                   *)
(***************************************************************************)
EXTENDS Naturals, FiniteSets

CONSTANTS
  Volume,    \* the volumes of a server
  DBVolume,  \* those of its database, PgsqlRequiredVolumeMounts
  Secret,    \* the podman secrets of a server
  Admin,     \* those of the administrator of the web interface
  MaxFlags   \* named bound: the flags given to one command

ASSUME VolumeAssumption == DBVolume \subseteq Volume
ASSUME SecretAssumption == Admin \subseteq Secret

Part == {"head", "tail", "fresh"}
Whole == {"head", "tail"}
Cut(data) == data \ {"tail"}
Unit == {"server", "db"}
Maybe(S) == {{}} \cup {{x} : x \in S}

VARIABLES
  vol,      \* the data of the volumes of the host
  secrets,  \* the podman secrets of the host
  network,  \* it has the uyuni network
  units,    \* its unit files
  running,  \* its services run
  dirs,     \* how many of the output, volumes and images directories exist
  file,     \* the tar files of the volumes and their checksums
  conf,     \* podmanBackup.tar
  sysd,     \* systemdBackup.tar
  cmd,      \* the running command, "none" between two
  pc,       \* its next step
  flags,    \* the flags it was given
  left,     \* the volumes it has yet to export or import
  cur,      \* the volume it imports
  err,      \* it has met an error that does not stop it
  site,     \* the host of the server: another one takes the place of a lost one
  present,  \* history: the volumes of the host when the command began
  saved     \* history: what the files of the directory held when a backup of
            \* the whole server into it reported success

host == <<vol, secrets, network, units, running>>
dir == <<dirs, file, conf, sysd>>
call == <<cmd, flags, site, present, saved>>
vars == <<host, dir, call, pc, left, cur, err>>

NoFile == [data |-> {}, sum |-> {}]
CreateFlag == {"skipdatabase", "skipvolumes", "norestart", "dryrun"}
RestoreFlag == {"skipdatabase", "skipvolumes", "force", "continue", "skipverify",
                "restart", "dryrun"}

TypeOK ==
  /\ vol \in [Volume -> Maybe(SUBSET Part)]
  /\ secrets \subseteq Secret /\ network \in BOOLEAN
  /\ units \subseteq Unit /\ running \in BOOLEAN
  /\ dirs \in 0 .. 3
  /\ file \in [Volume -> [data : Maybe(SUBSET Part), sum : Maybe(SUBSET Part)]]
  /\ conf \in Maybe([network : BOOLEAN, secrets : SUBSET Secret, sum : BOOLEAN])
  /\ sysd \in Maybe([units : SUBSET Unit, sum : BOOLEAN])
  /\ cmd \in {"none", "create", "restore"}
  /\ pc \in {"idle", "mkdir", "space", "stop", "export",
             "units", "podman", "start", "verify", "untar", "network", "secrets",
             "return"}
  /\ flags \subseteq CreateFlag \cup RestoreFlag
  /\ left \subseteq Volume /\ cur \in Maybe(Volume) /\ present \subseteq Volume
  /\ err \in BOOLEAN /\ site \in {0, 1}
  /\ saved \in [Volume -> Maybe(SUBSET Part)]

\* A running server, and an output directory that does not exist or is empty.  The
\* volumes that nothing has used yet need not exist.
Init ==
  /\ vol \in [Volume -> {{}, {Whole}}] /\ \A v \in DBVolume : vol[v] # {}
  /\ secrets = Secret /\ network = TRUE /\ units = Unit /\ running = TRUE
  /\ dirs \in {0, 1}
  /\ file = [v \in Volume |-> NoFile] /\ conf = {} /\ sysd = {}
  /\ cmd = "none" /\ pc = "idle" /\ flags = {} /\ left = {} /\ cur = {}
  /\ present = {} /\ site = 0
  /\ err = FALSE
  /\ saved = [v \in Volume |-> {}]

-----------------------------------------------------------------------------
(* How a command goes on and ends *)

Set(f) == f \in flags
Exists(v) == vol[v] # {}
Goto(step) == pc' = step /\ UNCHANGED <<call, err>>

\* A step that failed and does not stop the command.
Warn(step) == pc' = step /\ err' = TRUE /\ UNCHANGED call

Finish ==
  /\ cmd' = "none" /\ pc' = "idle"
  /\ left' = {} /\ cur' = {} /\ err' = FALSE /\ flags' = {} /\ present' = {}

\* AbortError: doBackup and doRestore report it and stop.
Abort == Finish /\ UNCHANGED <<site, saved>>

\* ReportError
Return ==
  /\ pc = "return"
  /\ Finish
  /\ saved' = IF cmd = "create" /\ ~err /\ flags \subseteq {"norestart"}
                THEN [v \in Volume |-> file[v].data] ELSE saved
  /\ UNCHANGED <<host, dir, site>>

Start(c, f, step, todo) ==
  /\ cmd' = c /\ flags' = f /\ pc' = step /\ left' = todo
  /\ present' = {v \in Volume : Exists(v)}
  /\ UNCHANGED <<host, dir, cur, err, site, saved>>

Refused == UNCHANGED vars

HostButVolumes == UNCHANGED <<secrets, network, units, running>>

-----------------------------------------------------------------------------
(* backup create *)

\* gatherVolumesToBackup: the database is only left out with --skipdatabase.
VolumesToBackup(f) ==
  (IF "skipdatabase" \in f THEN {} ELSE DBVolume)
    \cup (IF "skipvolumes" \in f THEN {} ELSE Volume \ DBVolume)

\* The sanity checks want a server and a directory that is absent or empty.  A
\* dry run goes through all the steps and does none of them.
BeginCreate ==
  /\ pc = "idle"
  /\ \E f \in SUBSET CreateFlag :
       /\ Cardinality(f) <= MaxFlags
       /\ IF "server" \in units /\ dirs <= 1
            THEN Start("create", f, IF "dryrun" \in f THEN "return" ELSE "mkdir",
                       VolumesToBackup(f))
            ELSE Refused

\* prepareOuputDirs: os.Mkdir fails on a directory that exists, even if empty.
MakeDirs ==
  /\ pc = "mkdir"
  /\ \/ dirs = 0 /\ dirs' = 3 /\ Goto("space") /\ UNCHANGED <<left, cur>>
     \/ /\ dirs' \in IF dirs = 0 THEN {0, 1, 2} ELSE {dirs}
        /\ Abort
  /\ UNCHANGED <<host, file, conf, sysd>>

\* StorageCheck asks podman for the size of every volume, and so fails when one
\* does not exist.
CheckSpace ==
  /\ pc = "space"
  /\ \/ (\A v \in left : Exists(v)) /\ Goto(IF Set("skipdatabase") THEN "export" ELSE "stop") /\ UNCHANGED <<left, cur>>
     \/ Abort
  /\ UNCHANGED <<host, dir>>

StopServices ==
  /\ pc = "stop"
  /\ \/ running' = FALSE /\ Goto("export") /\ UNCHANGED <<left, cur>>
     \/ running' \in {running, FALSE} /\ Abort
  /\ UNCHANGED <<vol, secrets, network, units, dir>>

\* Mutant: a volume that does not exist ends the command with an empty backup of it.
ExportVolumeAbsent ==
  /\ pc = "export" /\ left # {}
  /\ \E v \in left :
       /\ file' = [file EXCEPT ![v] = [data |-> vol[v], sum |-> Whole]]
       /\ left' = left \ {v} /\ UNCHANGED cur /\ Goto("export")
  /\ UNCHANGED <<host, dirs, conf, sysd>>

\* ExportVolume: podman volume export, and then the checksum of its output.
ExportVolume ==
  /\ pc = "export" /\ left # {}
  /\ \E v \in left :
       \/ /\ file' = [file EXCEPT ![v] = [data |-> vol[v], sum |-> vol[v]]]
          /\ left' = left \ {v} /\ UNCHANGED cur /\ Goto("export")
       \/ /\ file' \in {[file EXCEPT ![v] = [data |-> d, sum |-> {}]] :
                          d \in {{}, {Cut(x) : x \in vol[v]}, vol[v]}}
          /\ Abort
  /\ UNCHANGED <<host, dirs, conf, sysd>>

\* backupContainerImages: an image that cannot be saved is only warned of.
ExportImages ==
  /\ pc = "export" /\ left = {}
  /\ Goto("units") \/ Warn("units")
  /\ UNCHANGED <<host, dir, left, cur>>

\* backupSystemdServices: a unit whose path systemd does not tell is left out
\* without an error; the first file that cannot be read ends the tarball, which
\* then has no checksum.
ExportUnits ==
  /\ pc = "units" /\ cmd = "create"
  /\ \/ /\ sysd' \in {{[units |-> u, sum |-> TRUE]} : u \in SUBSET units}
        /\ Goto("podman")
     \/ /\ sysd' \in {{}} \cup {{[units |-> u, sum |-> FALSE]} : u \in SUBSET units}
        /\ Warn("podman")
  /\ UNCHANGED <<host, dirs, file, conf, left, cur>>

\* exportPodmanConfiguration: a network or secrets that cannot be read are left
\* out with a warning, and the error is dropped.
ExportPodman ==
  /\ pc = "podman" /\ cmd = "create"
  /\ \E n \in {FALSE, network}, s \in {{}, secrets} :
       \/ conf' = {[network |-> n, secrets |-> s, sum |-> TRUE]} /\ Goto("start")
       \/ /\ conf' \in {{}, {[network |-> n, secrets |-> s, sum |-> FALSE]}}
          /\ Warn("start")
  /\ UNCHANGED <<host, dirs, file, sysd, left, cur>>

\* podman creates a volume that a container mounts and that is missing.
StartedVolumes ==
  [v \in Volume |-> IF Exists(v) THEN vol[v] ELSE {{"fresh"}}]

CanStart == units = Unit /\ network /\ secrets = Secret

\* StartServices at the end of a backup that stopped them; its error is joined.
StartAgain ==
  /\ pc = "start" /\ cmd = "create"
  /\ \/ ~(Set("skipdatabase") \/ Set("norestart"))
        /\ CanStart /\ running' = TRUE /\ vol' = StartedVolumes /\ Goto("return")
     \/ ~(Set("skipdatabase") \/ Set("norestart"))
        /\ Warn("return") /\ UNCHANGED <<vol, running>>
     \/ (Set("skipdatabase") \/ Set("norestart"))
        /\ Goto("return") /\ UNCHANGED <<vol, running>>
  /\ UNCHANGED <<secrets, network, units, dir, left, cur>>

Create ==
  \/ BeginCreate \/ MakeDirs \/ CheckSpace \/ StopServices \/ ExportVolume
  \/ ExportImages \/ ExportUnits \/ ExportPodman \/ StartAgain

-----------------------------------------------------------------------------
(* backup restore *)

\* gatherVolumesToRestore.  The continue of --skipdatabase only leaves the inner
\* loop: the database is imported all the same.
VolumesToRestore(f) ==
  IF "skipvolumes" \in f THEN {}
  ELSE {v \in Volume : file[v].data # {} /\ ("continue" \in f => ~Exists(v))}

\* Mutant: a volume that exists is no obstacle.
AcceptableUnforced(f) ==
  /\ dirs = 3
  /\ "server" \in units => "force" \in f

\* The sanity checks and the gathering: a server is only restored over when
\* forced, a volume when forced or passed over, and the directory has to have
\* what it restores from.
Acceptable(f) ==
  /\ dirs = 3
  /\ "server" \in units => "force" \in f
  /\ \A v \in VolumesToRestore(f) : Exists(v) => "force" \in f

\* Mutant: a dry run imports the volumes.
BeginRestoreWet ==
  /\ pc = "idle"
  /\ \E f \in SUBSET RestoreFlag :
       /\ Cardinality(f) <= MaxFlags
       /\ IF Acceptable(f) THEN Start("restore", f, "verify", VolumesToRestore(f))
                          ELSE Refused

BeginRestore ==
  /\ pc = "idle"
  /\ \E f \in SUBSET RestoreFlag :
       /\ Cardinality(f) <= MaxFlags
       /\ IF Acceptable(f)
            THEN Start("restore", f,
                       IF "dryrun" \in f THEN "podman" ELSE "verify",
                       IF "dryrun" \in f THEN {} ELSE VolumesToRestore(f))
            ELSE Refused

Valid(f) == f.data # {} /\ f.sum = f.data

\* Mutant: the sum is not compared.
VerifyVolumeNever ==
  /\ pc = "verify" /\ left # {}
  /\ \E v \in left :
       /\ vol' = [vol EXCEPT ![v] = IF Exists(v) THEN @ ELSE {{}}]
       /\ cur' = {v} /\ Goto("untar")
  /\ UNCHANGED <<dir, left>> /\ HostButVolumes

\* Mutant: a volume that could not be imported is removed.
VerifyVolumeUndone ==
  /\ pc = "verify" /\ left # {}
  /\ \E v \in left :
       \/ /\ Set("skipverify") \/ Valid(file[v])
          /\ vol' = [vol EXCEPT ![v] = IF Exists(v) THEN @ ELSE {{}}]
          /\ cur' = {v} /\ UNCHANGED left /\ Goto("untar")
       \/ Abort /\ vol' = [vol EXCEPT ![v] = {}]
  /\ UNCHANGED dir /\ HostButVolumes

\* ImportVolume, first half: check the sum and create the volume if missing.
VerifyVolume ==
  /\ pc = "verify" /\ left # {}
  /\ \E v \in left :
       \/ /\ Set("skipverify") \/ Valid(file[v])
          /\ vol' = [vol EXCEPT ![v] = IF Exists(v) THEN @ ELSE {{}}]
          /\ cur' = {v} /\ UNCHANGED left /\ Goto("untar")
       \/ Abort /\ UNCHANGED vol
  /\ UNCHANGED dir /\ HostButVolumes

\* tar extracts over what the volume holds.
Extract(v, data) == vol' = [vol EXCEPT ![v] = {x \cup data : x \in @}]

\* tar fails or is cut, between two files or while it replaces one: what that file
\* held before is gone as well, and it stands for the tail.
Tear(v, data) == vol' = [vol EXCEPT ![v] = {Cut(x \cup data) : x \in @}]
HalfExtract ==
  \E v \in cur : \E d \in file[v].data :
    Extract(v, d) \/ Extract(v, Cut(d)) \/ Tear(v, d)

\* ImportVolume, second half.  An error aborts the restoration.
UntarVolume ==
  /\ pc = "untar"
  /\ \/ /\ \E v \in cur : \E d \in file[v].data : Extract(v, d)
        /\ left' = left \ cur /\ cur' = {} /\ Goto("verify")
     \/ HalfExtract /\ Abort
  /\ UNCHANGED dir /\ HostButVolumes

\* restoreImages: errors are joined.
LoadImages ==
  /\ pc = "verify" /\ left = {}
  /\ Goto("podman") \/ Warn("podman")
  /\ UNCHANGED <<host, dir, left, cur>>

\* defaultPodmanNetwork and restorePodmanNetwork: a network that exists is an
\* error unless forced; then it is removed and created, and may be lost.
MakeNetwork(next) ==
  \/ (network => Set("force")) /\ network' = TRUE /\ Goto(next)
  \/ network' \in (IF Set("force") THEN {network, FALSE} ELSE {network}) /\ Warn(next)

\* restorePodmanConfig.  Without a backup of it the network is made anew, in a
\* dry run as well.
RestorePodman ==
  /\ pc = "podman" /\ cmd = "restore"
  /\ \/ conf = {} /\ MakeNetwork("units")
     \/ /\ \E c \in conf :
             \/ ~c.sum /\ Warn("units")
             \/ /\ c.sum \/ Set("skipverify")
                /\ Goto(IF Set("dryrun") THEN "units" ELSE "network")
        /\ UNCHANGED network
  /\ UNCHANGED <<vol, secrets, units, running, dir, left, cur>>

\* restorePodmanNetwork, when the backup has one; one that cannot be read is
\* replaced by the default and reported.
RestoreNetwork ==
  /\ pc = "network"
  /\ \E c \in conf :
       \/ ~c.network /\ Goto("secrets") /\ UNCHANGED network
       \/ c.network /\ MakeNetwork("secrets")
       \/ /\ c.network /\ (network => Set("force"))
          /\ network' = TRUE /\ Warn("secrets")
  /\ UNCHANGED <<vol, secrets, units, running, dir, left, cur>>

\* Mutant: a secret that could not be created is only logged.
RestoreSecretsQuietly ==
  /\ pc = "secrets"
  /\ \E c \in conf, failed \in SUBSET Secret :
       secrets' = secrets \cup (c.secrets \ failed)
  /\ Goto("units")
  /\ UNCHANGED <<vol, network, units, running, dir, left, cur>>

\* restorePodmanSecrets: one that exists is passed over without an error unless
\* forced; one that cannot be decoded or created is an error.
RestoreSecrets ==
  /\ pc = "secrets"
  /\ \E c \in conf :
       \E failed \in SUBSET {s \in c.secrets : s \in secrets => Set("force")} :
         /\ secrets' = secrets \cup (c.secrets \ failed)
         /\ IF failed = {} THEN Goto("units") ELSE Warn("units")
  /\ UNCHANGED <<vol, network, units, running, dir, left, cur>>

\* generateDefaultSystemdServices.  GenerateSystemdService is given no
\* installation flags: it removes the secret with the login of the administrator,
\* podman refuses to create an empty one, and no server unit is written.
DefaultUnits ==
  /\ network' \in {network, TRUE}
  /\ secrets' \in {secrets, secrets \ Admin}
  /\ units' \in {units, units \cup {"db"}}
  /\ Warn("start")

\* restoreSystemdConfiguration: every file that cannot be restored is an error,
\* and one that was written half is removed.
RestoreUnits ==
  /\ pc = "units" /\ cmd = "restore"
  /\ \/ sysd = {} /\ ~Set("dryrun") /\ DefaultUnits
     \/ /\ sysd = {} /\ Set("dryrun") /\ Goto("start")
        /\ UNCHANGED <<network, secrets, units>>
     \/ /\ \E c \in sysd :
             \/ ~c.sum /\ ~Set("skipverify") /\ Warn("start") /\ UNCHANGED units
             \/ /\ c.sum \/ Set("skipverify")
                /\ \/ Set("dryrun") /\ Goto("start") /\ UNCHANGED units
                   \/ ~Set("dryrun") /\ units' = units \cup c.units /\ Goto("start")
                   \/ /\ ~Set("dryrun") /\ Warn("start")
                      /\ \E failed \in SUBSET c.units : \E gone \in SUBSET failed :
                           units' = (units \cup (c.units \ failed)) \ gone
        /\ UNCHANGED <<network, secrets>>
  /\ UNCHANGED <<vol, running, dir, left, cur>>

\* With --restart the error of StartServices takes the place of all the others,
\* and the services are started in a dry run too.
Restart ==
  /\ pc = "start" /\ cmd = "restore"
  /\ \/ ~Set("restart") /\ Goto("return") /\ UNCHANGED <<vol, running>>
     \/ /\ Set("restart") /\ pc' = "return"
        /\ UNCHANGED call
        /\ \/ /\ CanStart /\ running' = TRUE /\ vol' = StartedVolumes
              /\ err' = FALSE
           \/ err' = TRUE /\ UNCHANGED <<vol, running>>
  /\ UNCHANGED <<secrets, network, units, dir, left, cur>>

Restore ==
  \/ BeginRestore \/ VerifyVolume \/ UntarVolume \/ LoadImages
  \/ RestorePodman \/ RestoreNetwork \/ RestoreSecrets \/ RestoreUnits \/ Restart

-----------------------------------------------------------------------------
(* The world *)

HalfExport ==
  \E v \in left : \E d \in {{}, {Cut(x) : x \in vol[v]}, vol[v]} :
    file' = [file EXCEPT ![v] = [data |-> d, sum |-> {}]]

\* mgradm is killed, perhaps while podman exports a volume or tar extracts one.
Interrupt ==
  /\ pc # "idle" /\ Abort
  /\ \/ UNCHANGED <<vol, file>>
     \/ pc = "untar" /\ HalfExtract /\ UNCHANGED file
     \/ pc = "export" /\ HalfExport /\ UNCHANGED vol
  /\ UNCHANGED <<dirs, conf, sysd>> /\ HostButVolumes

\* The host is lost and another one takes its place; the directory was elsewhere.
\* Without the directory this would only be a new beginning.
Disaster ==
  /\ dirs = 3
  /\ vol' = [v \in Volume |-> {}] /\ secrets' = {} /\ network' = FALSE
  /\ units' = {} /\ running' = FALSE
  /\ site' = 1 - site /\ Finish
  /\ UNCHANGED <<dir, saved>>

\* A new server is installed on a bare host.
Reinstall ==
  /\ pc = "idle" /\ units = {} /\ \A v \in Volume : ~Exists(v)
  /\ vol' = [v \in Volume |-> {{"fresh"}}] /\ secrets' = Secret /\ network' = TRUE
  /\ units' = Unit /\ running' = TRUE
  /\ UNCHANGED <<dir, call, pc, left, cur, err>>

\* A file of a backup that was reported complete loses its tail.
Rot ==
  /\ pc = "idle"
  /\ \E v \in Volume :
       /\ saved[v] # {}
       /\ file' = [file EXCEPT ![v].data = {Cut(d) : d \in @}]
       /\ file' # file
  /\ UNCHANGED <<host, dirs, conf, sysd, call, pc, left, cur, err>>

World == Interrupt \/ Disaster \/ Reinstall \/ Rot

Next == Create \/ Restore \/ Return \/ World

Spec == Init /\ [][Next]_vars

-----------------------------------------------------------------------------
(* Properties *)

Succeeds(c) == cmd = c /\ Return /\ ~err

\* A restoration that reports no problem and trusted no file unread has brought
\* back all that the volumes it was not told to skip held when the backup was
\* made, whatever happened to the directory and to earlier restorations.
RestoredWhole ==
  [][(Succeeds("restore") /\ flags \subseteq {"force", "restart", "skipdatabase"})
       => \A v \in Volume \ (IF Set("skipdatabase") THEN DBVolume ELSE {}) :
            \A d \in saved[v] : \E x \in vol[v] : d \subseteq x]_vars

\* A restoration without --restart that reports no problem leaves a network, the
\* secrets and the units of the backup.  With --restart the result of the start
\* hides what has failed.
RestoredConfig ==
  [][(Succeeds("restore") /\ flags \cap {"restart", "dryrun"} = {})
       => /\ network \/ \E c \in conf : ~c.network
          /\ \A c \in conf : c.secrets \subseteq secrets
          /\ sysd # {} /\ \A c \in sysd : c.units \subseteq units]_vars

\* A command changes the data of a volume that was there when it began only if
\* it is a restoration that was forced to.
ExistingKept ==
  [][(cmd # "none" /\ ~Disaster)
       => \A v \in present : vol'[v] # vol[v] => "force" \in flags]_vars

\* A dry run changes nothing, as long as it need not make a default network and
\* is not told to restart the services: neither of these looks at --dryrun.
DryRunHarmless ==
  [][("dryrun" \in flags /\ "restart" \notin flags /\ conf # {} /\ ~Disaster)
       => UNCHANGED <<host, dir>>]_vars

\* Where all the data of a volume is.
Copies ==
  [v \in Volume |->
     {p \in {"server", "backup"} :
        \E d \in IF p = "server" THEN vol[v] ELSE file[v].data : Whole \subseteq d}]

\* The restorations that may overwrite what exists, and those that moreover
\* trust the files unread.
Kind ==
  IF cmd = "restore" /\ Set("force")
    THEN IF Set("skipverify") THEN "careless" ELSE "forced"
    ELSE cmd

\* Backing up and restoring implement DataCopies: a whole copy of a volume is
\* only made from a whole copy, and however a command ends it takes none away,
\* except a forced restoration that is cut, and then the backup still has what
\* it was restoring from unless --skipverify was given.
Data == INSTANCE DataCopies WITH busy <- Kind, copies <- Copies
KeepsCopies == Data!Spec
=============================================================================
