# Verification of uyuni-tools

uyuni-tools manages containerised Uyuni servers and proxies: `mgradm` installs,
upgrades, scales, backs up and removes a server, `mgrpxy` does the same for a
proxy, `mgrctl` works inside a running server. The programs are sequential Go;
what makes them hard is that every step is a call to `systemctl`, `podman` or a
shell that may fail or be interrupted, while systemd, PostgreSQL and the
containers go on by themselves beside them, and that nothing is transactional:
the next command starts from whatever the last one left.

This directory holds TLA+ modules of the parts where that matters most, the TLC
configurations that check them, and TLAPS proofs of their main properties. All
paths below are relative to the repository's root.

## 1. The system

| component | state | operations | what is hard |
|---|---|---|---|
| systemd driver (`shared/podman/systemd.go`) | unit files, enabled and running units, replicas `service@i` | start, stop, enable, disable, scale, uninstall, drop-in files | a replica count is not stored anywhere: it is the length of the prefix of enabled replicas, read again and again; loops stop at the first error, or go on |
| service stack (`mgradm/shared/podman/{services,startstop}.go`, `cmd/{start,stop,restart,enable,disable,scale}`) | server, database, TFTP, attestation, hub, Saline | the same over all units | systemd's own Wants and Requires run beside the loops; errors are joined or returned |
| server upgrade and PTF (`mgradm/shared/podman/podman.go`, `shared/pgsql`, `shared/tftp`) | images of the units, the data directories, `rhn.conf` | stop, move and copy the data, write units, start, deferred starts | a dozen steps of which any may fail, the database copied from one PostgreSQL version to the next, retries |
| database backup (`mgradm/cmd/backup/db`) | `postgresql.conf`, base backup and archive in the backup volume, `recovery.signal` | enable, disable, rebase, status, restore | PostgreSQL writes, archives and recovers meanwhile; a script in the container outlives `mgradm` |
| backup create and restore (`mgradm/cmd/backup/{create,restore}`) | a directory with volumes, images, units, secrets | export, import, `--continue`, `--skipdatabase` | stopping, failing and starting again; partial imports; overwritten errors |
| secrets and certificates (`shared/podman/secret.go`, `mgradm/shared/podman/{ssl,clients}.go`, `cmd/ssl`, `shared/ssl`) | podman secrets, the directories of the active and of the staged CA, what containers have read, what clients trust | create, reuse, replace, order and check a chain, add a CA, rotate to it | secrets are replaced by removing and creating; two certificates one after the other; clients that do not answer |
| installation, removal, rename (`mgradm/cmd/{install,uninstall,server}`) | units, images, network, secrets, volumes, `server.env` | a long list of steps | partial installations and their retry; what an uninstallation keeps |
| satellite containers (`mgradm/shared/{coco,hub,saline,tftp}`) | template units, images | set up, upgrade, scale | optional, replicated, pulled in by the stack; their errors are joined |
| images, connection, network (`shared/podman/{images,network}.go`, `shared/connection.go`) | names of images, the network, the container in use and its health | pull policy, packages, wait for health | waits without a limit; a network in use is not replaced |
| proxy (`mgrpxy`) | the pod and its services, `/etc/uyuni/proxy`, secrets | install, upgrade, PTF, uninstall, start, stop | certificates move from files to secrets; nothing is deferred |
| control tool (`mgrctl`), API client (`shared/api`), kubernetes, distributions, GPG keys, support, completion, l10n, templates | | | mostly one command or request at a time |

They interact through systemd and podman only: a command reads which units are
enabled or run and which images and volumes exist, and changes them; there is no
daemon and no lock.
Correct means, component by component:

- *replicas*: no enabled or running replica becomes invisible to later commands;
  scaling reaches its target and never takes what is still asked for;
- *stack*: nothing writes to a volume that is exported; a stop, start, disable or
  backup that reports success has reached every unit;
- *upgrade*: no committed write is lost, the database in use is complete, the
  server does not run ahead of the database, TFTP stays served;
- *database backup*: every write since the base backup can be restored, a restore
  brings back what was archived, the last copy is only removed by a purge (or by a
  restore from half a base backup, which the code does not recognise);
- *backup and restore*: what is restored is what was saved, nothing else is touched,
  a copy of the data is only made from a whole one and none is lost unless the
  restoration was forced;
- *certificates*: certificate, key and CA bundle belong together, a rotation that
  succeeds serves with them, no client is cut off;
- *deployment*: a secret a unit mounts exists whenever the unit may start, the login
  in the secrets is that of the database, the proxy's certificates are not lost on
  their way.

Where the code does less than that, the property says what it does and names the
exception; section 4 lists the exceptions.

`PROJECT.json` lists every component with its sources, and under `hazards` the
places in the code where these can go wrong.

## 2. Plan

Order of the work, the most important behaviour first:

1. `Replicas`, `ReplicaScaling` - done, proved.
2. `ServerServices` - the stack, over the same replicas; done, proved.
3. `ServerUpgrade` - done, proved.
4. `ContinuousArchiving` - done, proved but for liveness.
5. `BackupRestore` - done, proved; it implements `DataCopies`, the
   abstract specification of what backing up and restoring may do to data.
6. `CertificateRotation` - done, proved but for liveness.
7. `PodmanHost`, `ServerDeployment`, `ProxyDeployment`, composed in `Deployment` -
   done, proved.
8. Left: the refinement of `ContinuousArchiving` to an abstract backup contract.

Modules to prove about have no RECURSIVE operator, their parameters are CONSTANTS
with a named assumption, and an operation of the code is an action.

## 3. The modules

A crash, an interruption (mgradm traps no signal: the command is just gone), a
container that dies, a start by systemd or the administrator, and a reboot are
actions of the models in which they change what a later step does. `ReplicaScaling`
has no start by systemd or by hand: systemd starting a container again is in
`ServerServices`, and of a replica that somebody starts without enabling it nothing is
promised. mgradm commands run one at a time: the
program has no lock against a second one, and concurrent commands are not modelled.
History variables (marked `history:`) only record what happened, no guard reads
them.

### Replicas, ReplicaScaling

`Replicas` defines a replica set and `CurrentReplicaCount` as the loop of
`systemd.go:455` computes it: the first index that is not enabled. `ReplicaScaling`
is one replicated service: `enabled`, `active` and `installed` are systemd's;
`phase`, `i`, `current` and `target` are the loop and its variables.
`ScaleBegin` reads the count once (`ScaleService`), `EnableReplica` and
`DisableReplica` are its two loops, which return at the first error;
`LoopBegin/LoopStep/LoopEnd` are Start-, Stop- and RestartInstantiated, which read
the count at every iteration and join errors; `DisableAtBoot*` is the part of
`DisableServices` about the replicas; an uninstallation is a scaling to 0 that
removes the template in every case (`Return`).

### ServerServices

All units of a server. A command computes the systemctl calls it will make
(`StartSteps`, `StopSteps`, ... are those functions) and `todo` holds those left;
one action makes one call, which may fail. `Wants` and `Requires` are the [Unit]
sections of the templates: what a start pulls in may start too or not, in any
order; what requires a unit stops with it. A restart is two steps, as `systemctl
restart` is a stop and a start: `TakeDown` stops the unit and what requires it,
`RestartUnit` starts them again (`again` holds them in between) or fails to.
`mgradm restart` restarts the database first, under the running server
(`cmd/restart/podman.go:24`); without a local database unit that call fails, so that it
always reports an error then. The deed tells whether an error is
joined or ends the command. A backup is its stops, checks, exports and starts; the
content of what it exports is left to `BackupRestore`. The code only sees the replicas
that are counted: what is promised of a stop, a start or a reboot is promised of these
(`Counted`, `AllCounted`), and a replica behind a hole is the subject of
`ReplicaScaling`.

### ServerUpgrade

`Upgrade` (`podman.go:422`) step by step, for `mgradm upgrade` and `support ptf`.
`pc` is the step. `dir` is what the three directories hold that `mv _data
_data_old` can lead to: `mv` into an existing directory nests. A failing step goes
to `return`, where the deferred starts run. The database container keeps the
directory it has mounted and the image it was started with (`dbRuns`, and `serverRuns`
for the server), starts only on a cluster of its version, and creates one in an empty
directory. What an upgrade reads of the old installation it reads in the server container
that runs: the release it must not go below (`SanityCheck`) and the version of
PostgreSQL (`inspected`). After an upgrade that was cut and whose deferred start, or
systemd, started the old container again these are not those of the unit: a release
older than the unit's is then accepted (`downgraded`). *External, as the code uses it*: the upgrade container
copies `_data_old` into an empty `_data` and fails on a cluster in use or not older.
Left out: the layout of 5.0 with everything in one container, the certificates and
credentials it also writes.

### ContinuousArchiving

The five commands of `mgradm backup db`, the script `RunBaseBackup` runs in the
database container, and PostgreSQL. `data` is the data volume (a cluster, an
unpacked base backup, nothing, or garbage; `archive_mode` and `restore_command` of
its `postgresql.conf`; `recovery.signal`), `base` and `archive` the backup volume,
`pending` the segments in pg_wal. Writes are numbers and a segment `<<before, w>>`
carries what the database had before `w`: recovery can replay it only on that.
`script` is apart from `pc`: after an interruption the script goes on.
`DBStarts`/`DBStops`, `Archive` and `Recover` are PostgreSQL and podman, external,
as the code relies on them. `StartService` waits for the health of the database
except in restore, which instead polls `recovery.signal` (`WaitForRecovery`).

The script's first line, `/usr/bin/bash -e`, comes after a newline: it is a command
(an empty shell), not an interpreter line, so the script has no `set -e` of its own
and `RemoveOldBackup` goes on when it removed only part. The restore script is given to
`bash -e`, so that its steps do stop at an error.

The restore script removes the cluster when there is a file named `base.tar.gz`: with
half of one (a base backup that was cut) cluster and backup are both lost
(`GoesByHalf`).

Assumed: `smdba-pgarchive` does not write over a segment; no script of an earlier,
interrupted command is left when a rebase begins; the restore container stops with
`mgradm`; an absent backup volume is an empty one (podman creates it); a
database that cannot start from its files answers no status. Questions answered with
no before anything is done change nothing and are left out.

### BackupRestore, DataCopies

`backup create` and `backup restore` step by step; `pc` is the step, `flags` those of
the command, `left` the volumes it has yet to export or import. The data of a volume is
abstracted to the parts of it that are there: `head` and `tail` are the files of the
server that is backed up, `fresh` those a new server writes, so that what lacks the tail is a
file or a volume that was cut, and a tar that is extracted over a volume is a union. A
checksum is what it was computed from. The directory that holds the backup survives a
`Disaster`; `Reinstall` puts a new server on the host; `Rot` cuts a file of a backup.
`saved` and `present` are history. Each flag that changes what is done is in the model;
`--skipimages` and `--skipconfig` are not: images are replaceable, and the code never
reads the second (`restore.go`).

`DataCopies` is the abstract specification: for each volume the set of places that
hold all its data, which command is at work (`busy`) and on which host (`site`). A
backup adds the place of the backup if the server has it, a restoration the other way
round. A place is lost in three ways only: with the host (`LoseHost`, which changes
`site`, so that no step of a command passes for it), by a file of the backup that goes bad
while no command runs (`Rot`), and by a forced restoration that fails or is cut in the
middle of a volume (`Spoil`), which can spoil that one volume on the server and no other,
and, unless told not to verify the files, only while the backup has all of it. Ending a
command (`End`) loses nothing. `KeepsCopies` is this specification under
the refinement `busy <- Kind, copies <- Copies, site <- site`, where `Kind` sorts the
restorations by their flags. In `BackupRestore` a tar that is cut while it writes over a
file leaves that file torn (`Tear`).

Behaviours of the code that the model has, and that a reader may take for mistakes of
it: `--restart` replaces the error of the restoration by that of the start
(`restore.go:81`); `--skipdatabase` does not skip the database (`160`);
although its help says 'Do not restore database volume' (`mgradm/cmd/backup/backup.go:61`);
`--continue` passes over a volume whose import was cut (`169`); a dry run may make the
default network and, with `--restart`, starts the services; secrets that exist are
passed over without an error; a network or secrets that cannot be read are left out of
the backup without one (`exportPodmanConfiguration`); the default units lose the
secrets of the administrator and have no server; the space check fails when a volume
does not exist; a backup that aborted leaves a directory that blocks its retry and from
which a restoration "succeeds" with what is there; a restoration never stops what
runs nor enables anything at boot.

### CertificateRotation

The certificates of the server and the database through installation, upgrade, rename,
`ssl addca` and `ssl rotate`. A CA is a number, a certificate and a key are the pair
they were issued or given as (CA, host name, number, and whether the key is the
certificate's: `fits`). `sec` are the podman secrets, `build` and
`staged` the CAs of the two directories, `run` what the containers have read at their
start, `hostca` what the host trusts, `trusts` what each client does. `Put` replaces one
secret after the other (`CreateTLSSecrets`); `ReadChain`, `SortNext`, `SortMissing` and `SortDone`
are the loop of `sortCertificates`, over every way in which three certificates can be
one another's issuers; `CheckClients` takes the answers of any subset of the clients.
Clients get what the server trusts at any time (`Distribute`), which Salt does.

The certificate and the key of a third party are only looked at one by one: `ssl.CheckKey`
(`shared/ssl/ssl.go:357`) wants a key that can be read, `VerifyHostname` a certificate for
the name, and nothing compares the two. The constant `Unfit` says for which service and
name the third party gives the key of another certificate; such a pair is stored and served
with success, and `Coherent` and `RotationServes` name it (`Misfit`).

Assumed: podman tells whether a secret exists. `HasSecret` takes any failure of `podman
secret exists` for an absent secret (`shared/podman/secret.go:139`), so that one while a CA
is added would write a bundle with that CA alone; this failure is not modelled.

Behaviours to know: a rotation that fails after it promoted the CA cannot be repeated ("no
staged CA"), one to a third party never compares the CA it is given with the one it asked the
clients about; a certificate is reused without a look at its key; a rename regenerates both
certificates and restarts only the server, so that the database goes on with the old
one until it is restarted, and drops the staged CA from the bundles; a chain of two
cross-signed CAs is followed for ever (`Cyclic`); the host's trust
file is named after the host name, so that the old name's stays after a rename.

### PodmanHost, ServerDeployment, ProxyDeployment, Deployment

`PodmanHost` is a host with podman and systemd and the steps both tools are built from
(`shared/podman`, `shared/connection.go`): images and the pull policy, the network,
secrets, units. A command is the sequence of the steps it has yet to do (`todo`), which
the functions of the two tools put together in the order of their calls; each step may
succeed, fail, or, where the code only logs that, fail and go on. It can be cut before every step and in
the middle of those that remove before they create. `ServerDeployment` has `mgradm
install`, `upgrade`, `support ptf` and `uninstall` with the satellites; `ProxyDeployment`
has `mgrpxy`'s with the pod and the way of the certificates from the files of the
configuration to the secrets. `Deployment` is a host for either.

The passwords a command makes up are its number, so that what belongs together can be told.
Both the files of a configuration and the secrets hold the number of the installation that
brought them. An installation is refused when there is a unit file of the server.

Behaviours to know: an uninstallation does not stop a unit that is disabled at boot
(`systemd.go:118`), so that its volumes and the network stay; `custom.conf` and the
generated configuration of the backup volume survive it; `--purge-images` ends it before
the secrets are removed; an empty `httpd.yaml` passes the validation; a proxy installed again
without a tarball after `uninstall --force` starts without certificates; `mgrpxy
uninstall --purge-volumes` removes the configuration in a dry run; a proxy upgrade that
fails leaves the pod stopped; a server PTF in which Saline or TFTP have no image ends in an
error; the wait for the server's health finds the attestation container instead.

The sequences of steps are computed with `Chosen`, a recursive function, so that they can
be proved about. The orders in which the code names satellites, services and
credentials are definitions (`SatelliteOrder`, `ServiceOrder`, `AllDBCredentials`); the
assumptions `ServerAssumption` and `ProxyAssumption` say that the constants are made of
these names and that the units and secrets of the host include those of the server and
the proxy. `kept` notes that an installation finds data of an
earlier one, or only its configuration: the upgrade after it reads the old login in
that configuration and writes it to the secrets, while the database was made with the new
one. It takes an installation, an uninstallation that loses only the database, a second installation
and an upgrade, one command more than the run allows; the attempt to prove
`CredentialsKept` without it failed at this. It also notes the installation repeated after
a cut one, which makes up a new login although the database may have been created with the
old one, and a forced uninstallation; a dry run of one leaves it alone. What a proxy's
configuration had brought (`given`) is forgotten by an uninstallation and, because that
removes the files in any case, by a dry run of one with `--purge-volumes`.

Left out of `Deployment`: external databases (`ServerUpgrade`), what an upgrade does to the data
(`ServerUpgrade`), the TLS secrets' contents (`CertificateRotation`), the backup volume
(`ContinuousArchiving`), replicas beyond the first (`ReplicaScaling`).

## 4. The runs

| run | question | bounds | result |
|---|---|---|---|
| `scaling` | where do holes and invisible replicas come from, what do scalings promise, do all commands end | `MaxReplicas = 3`: the smallest number for which disabling upwards leaves a hole with a replica behind it | holds |
| `uninstall_replicas` | does an uninstallation stop the replicas, as its comment says | `MaxReplicas = 2` | violated |
| `services` | what commands over the whole stack promise | one replica of each service: more of the same service are the subject of `scaling`; with and without a local database, every set of optional services | holds |
| `warned_services` | does a disabled server stay down at boot, as the warning says | same | violated |
| `upgrade` | are writes kept and images in order | three releases of three PostgreSQL versions (two upgrades in a row are needed to meet an old `_data_old`), two writes (one before, one after; symmetric) | holds |
| `second_upgrade` | is it the announced version that is upgraded | same, one write | violated |
| `external_database` | is an external database kept, as the log says | same, one write | violated |
| `archiving` | continuity of the archive, what enable, rebase and restore promise, the end of a restore | two writes: the second may follow the first, come after a base backup with it, or take its place after a restore that lost it | holds |
| `disable_archiving` | does disable restart the database it asked to restart | one write | violated |
| `rotation` | do certificates, keys and bundles stay together, do rotations serve, is a client cut off, do commands end | two commands, one client (what is asked of one is asked of each by itself), two host names, the CA of the installation, two more and a third party's, two pairs to issue, a third party that gives a key which does not fit for the server under one name and for the database under the other: an addca and the rotation to it, a rename in between, and every cut with the retry | holds |
| `backup_restore` | is what is restored what was saved, is anything else touched, is a copy lost | two volumes, one of the database; one secret; up to two flags at a time (they interact in pairs at most); no bound on the number of commands | holds |
| `deployment` | do units find what they mount, does the login fit, is a certificate of a proxy lost | three commands (to cut, to repeat, to uninstall), one overlooked failure in each, one satellite, one credential of the database, one service of the pod | holds |

The actions between them cover every disjunct of each next-state relation.
Deadlock is checked wherever a new command can always be started; `rotation` and
`deployment` bound the number of commands, after which there is nothing left to do.

Properties, by the hazard they are about:

- `HolesOnlyFromCutLoops`, `RunningAreEnabled`: the count is right and nothing
  invisible runs, as long as no disabling loop was left early (`cut`).
  `ScaleReachesTarget`, `ScaleKeepsRequestedReplicas`: a scaling that succeeds, and
  one that does not. `CommandsEnd`: the loops whose bound is read again end.
- `ColdExport`: whatever systemd starts along, no container that writes to the
  volumes runs while they are exported. `StopReachesAll`, `StartedMeansRunning`,
  `BackupRestarts`: what success means. `DBOutlivesServer`: no step of a command takes
  the database away under a running server, except that of `mgradm restart` that restarts
  the database itself (`RestartsDB`), which it does first. `DisabledStackStaysDown`: one optional unit left enabled would bring up all.
- `NoWriteLost` without any exception; `DatabaseComplete` and `TFTPKept` between
  commands unless one was `cut` after it moved data or wrote the unit.
  `ServerNotAheadOfDB`, of the units and of the containers that run, however upgrades are
  cut, failed or repeated. It excepts two things the code does: once an upgrade from an
  old container that was started again went to a release older than the unit's
  (`downgraded`), the database's image is written behind the server's, and nothing is
  promised from then on; and a database that something else started again
  before its new image was written (`early`) is not restarted.
- `Continuous`: every write since the base backup is in the archive or on its way,
  with all before it, unless archiving was off in between or part of the archive is
  gone (`gap`). `EndsWithBackup`: an enable or rebase that succeeds left a base backup
  the archive fits to, although the old one was removed first and a segment may
  land in between. `RestoreBringsBack`: a restore that succeeds brought back all
  that was archived. `LastCopyKept`: cluster and whole base backup are both gone only after
  a purge the administrator agreed to or a restore that goes by half a base backup
  (`GoesByHalf`).
  `DatabaseRunsAgain`; `RestoreEnds`.
- `RestoredWhole`: a restoration that reports success, trusted no file unread and was given no
  flag but `--force`, `--restart` and `--skipdatabase` has brought back all that the
  volumes it was not told to skip held at the backup, even when an earlier one was cut in
  the middle of a volume. `RestoredConfig`: the same of network, secrets and units, without `--restart`.
  `ExistingKept`: nothing that was there changes but by force. `DryRunHarmless`.
  `KeepsCopies`: the refinement of `DataCopies`.
- `Coherent`, `RotationServes`: after partial replacements of six secrets, certificate,
  key and CA belong together, and a rotation that succeeds heals what was left behind; of
  a key that a third party gave only that it came with the certificate.
  `NoClientCutOff`: the check of the clients and the switch are apart; excused once a
  command has been cut or a third party's CA was added (`botched`), because then the CA asked about
  need not be the one that is promoted. `AddKeepsTrust`, `CommandsEnd`.
- `UnitsUsable`: the order in which secrets and unit files are made and removed, through every
  cut; a secret whose making was cut or failed (`unmade`) is excepted. `CredentialsKept`: the
  login in the secrets is that of the database through upgrades, failures and removals, but not
  after an installation that found a database or a configuration, as one that is repeated
  after a cut one does, nor once a forced uninstallation has begun, nor on a server of a release
  without secrets (`kept`); a proxy's certificate is in its file or in its secret
  until an uninstallation, or a dry run of one, takes it away.

`died` and `disturbed` excuse promises about a command during which a container
died or somebody else started one: the code does not claim to notice.

### Fairness

`ReplicaScaling`: weak fairness of the steps of a running command, because a
systemctl call returns, with or without an error. `ContinuousArchiving`: weak
fairness of `Recover` (PostgreSQL replays what it finds) and `WaitForRecovery` (a
polling loop, `restore.go:97`). `CertificateRotation`: weak fairness of the steps of a
running command, each of which returns. Nothing else is assumed: no command has to be
started, no step of the other models has to be taken, and they have no liveness property.

### What the violated runs show

- `uninstall_replicas`: `disable`, then uninstall. Disabling does not stop the
  replicas, uninstalling only stops the enabled ones: they run without a unit file.
- `warned_services`: after `disable`, scaling the hub up enables a unit that wants
  the server; the next boot starts it while the warning is still shown.
- `second_upgrade`: the second PostgreSQL upgrade moves `_data` into the
  `_data_old` of the first and upgrades the old cluster. No write is lost
  (`NoWriteLost`), but the server runs without those made in between.
- `external_database`: the upgrade sets `db_host` to the local database and
  sets up its container before and after deciding to skip that.
- `disable_archiving`: answering no to the removal of the volume returns before
  the database is started again.

## 5. The proofs

TLAPS proves, for every value of the constants (any number of replicas, any
releases, versions, writes, volumes, clients, CAs, satellites and commands), from the assumptions named in the modules:
a bound is a natural number (not 0 where an initial state needs one), `Pg` maps releases to
positive numbers, and units, secrets, satellites and services are among those the code names:

| module | theorems | argument |
|---|---|---|
| `ReplicaScalingProofs` | `CountDefined`, `Invariant`, `Typed`, `NoHoles`, `NoInvisibleReplica`, `ScaleCorrect`, `ScaleMonotone` | The count exists by the least element of the indices that are not enabled. `NoHoles` is not inductive: `StageOfEnabled` adds, for each loop, exactly which replicas are enabled at index `i`, and `LoopsInRange` that `i` is within its loop |
| `ServerServicesProofs` | `Typed`, `Invariant`, `ExportIsCold`, `StopsAll`, `StartsAll`, `BackupStartsAgain`, `DisabledStaysDown`, `DatabaseOutlives` | The steps a command has left tell what it has done. `Ordered` orders them (stops, check, export, starts; the server before the database), which is proved once of the sequences the commands compute. `StopProgress`, `StartProgress` and `DisableProgress`: what is not yet stopped, started or disabled is still to be, unless a call failed or a container died; `Checked`: a backup that failed to stop something still has its check before its export; `Off`: after a disable nothing that counts is enabled until a scaling or an enable |
| `ServerUpgradeProofs` | `Typed`, `WritesKept`, `NeverAhead`, `DatabaseKept`, `TFTPServed` | `WInv`: only clusters hold writes, the running database is on a cluster, and `_data` is absent before `mkdir`, so that nothing is ever overwritten. `ImagesInOrder`, `DBInOrder` (the same of the containers that run), `DataStage` and `TFTPStage` say for each step which image is already written, which directory is complete, who serves TFTP |
| `ContinuousArchivingProofs` | `Typed`, `Invariant`, `ArchiveContinuous`, `BackupEnds`, `LastCopy`, `DatabaseRuns`, `RestoreWorks` | `Continuous` speaks of a cluster; the invariant also needs what an unpacked base backup and a recovery keep (`ChainFits`), that writes come in order (`InOrder`, by which `ChainGrows` adds a write to a chain), that a script only runs in a database that archives and beside no step that changes files (`ScriptFits`), and what the steps after it may rely on (`BaseFits`, `RebaseFits`, `BaseThere`, `StepsFit`). `RestoreWorks` needs that recovery has no choice: `Unique` (no two segments follow the same writes) and `Late` (what is archived beside a base backup and not in it is newer than all of it), by which two chains that part have one that ends there (`ChainsPart`); so the chain that no segment continues has all that can be restored (`RecoveryEnds`), even when parts of the archive were removed |
| `BackupRestoreProofs` | `TypeCorrect`, `DryRunIsHarmless`, `ExistingIsKept`, `DataImplemented`, `RestorationWhole`, `ConfigurationBack` | `Phases` says at which steps a command can be, and that nothing is left to import in a dry run; `Guarded` that the volumes of `present` are there and that an unforced restoration has none of them left, which the acceptance of the command establishes. `Contents`: nothing has an end without a beginning. `FreshDir`: a directory that is not complete holds no data, and a backup writes each file once, so that a whole file is a copy of a whole volume. `Bare` (an unforced restoration finds no whole volume where it has yet to bring one) and `Fits` (a file whose checksum is right is as whole as the volume it was made of) are what `KeepsCopies` needs of a restoration that is cut. `Saved`, `Brought` and `Configured` say what a backup or restoration has done by each step unless it has noted an error |
| `CertificateProofs` | `TypesKept` | `Phases` (the steps each command takes), `Resumes` (where it goes on when the secrets are written) and `Possible`: the CA or certificate a command is about to make was within the bounds when it began, and what it adds is staged |
| `CertificateTrustProofs` | `SecretsCoherent`, `TrustIsKept`, `ServesAfterRotation`, `ClientsKept` | The secrets are replaced one at a time, so that what is true is true of `After`, the secrets as they will be when `todo` is written: `Sound` says that these belong together, `Fitting` when that is so. `Adding`: what an addition will write contains what it replaces. `Restarted`: a service that has been restarted runs with what is in the secrets. The check asks for the last CA of the bundle and the promotion takes the staged one. `Lists` proves that these are one, from `Fresh` (a generated CA is in no bundle yet), `Kinds` (only emergency rotations generate) and `Parted` (the commands that part them until they end). `RunsFit` (what the server runs with is what its secrets hold) makes `Planned` survive a client that asks the server between the check and the switch |
| `DeploymentProofs` | `Typed`, `Invariant`, `UnitsStayUsable`, `CredentialsStay` | Neither property is inductive: whether a unit that is written next finds its secrets depends on what is left of the command. `Staged`: every command orders its steps by `Stage` (secrets of the database, database, other secrets, server, satellites; on the way back units before secrets; on the proxy a file is unpacked, its keys extracted, the file saved), which is proved of each sequence. From it follow `Supplied`, `AllPaired` and `Certified` (what a unit to be written will name is there, was lost, or is still to be made: `Due`), `Removed` (a secret is only dropped when the units are gone or will be), `Inspects` and `Login1` (which login is in the secrets, the configuration and the database), `Extracted` (what a file that is about to be saved loses is in a secret) |

Every invariant and every action property of a run that passes, and the refinement, is the
property of one of these theorems: the run shows it on a small instance, the theorem for
all. Each inductive invariant is proved by one lemma per conjunct, with one step per
action. Only model-checked: the liveness properties `CommandsEnd` (of `ReplicaScaling` and
`CertificateRotation`) and `RestoreEnds`, because fairness is beyond the prover, and the
violated properties, which have counterexamples.

## 6. Not modelled

- Distributions, GPG keys, support data, inspection, status, `mgrctl`: each runs a single command or
  copies files; there is no state to get wrong between two steps.
- The API client: requests to the server, whose state it does not keep.
- kubernetes: the tools only read from it here; completion, translation and most templates write text.
- Inside the containers: the setup of the server, the migration of the schema, Salt, the
  container's health; external, as the code relies on them.
- Text: the contents of drop-in files, of `rhn.conf` beyond the host of the database, the
  parsing of versions and of podman's output.
- Concurrent commands: nothing in the tools guards against them.
