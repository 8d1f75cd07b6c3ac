---------------------------- MODULE ServerUpgrade ----------------------------
(***************************************************************************)
(* The upgrade of a server (mgradm upgrade) and the installation of a PTF  *)
(* (mgradm support ptf), which run the same function: stop the server and  *)
(* the database, move the data directory away and copy it to the new       *)
(* PostgreSQL version when that changes, write the unit files with the new *)
(* images, start everything.                                               *)
(*                                                                         *)
(* The data directory of the var-pgsql volume is called _data.  It is      *)
(* moved to _data_old with mv, which renames it when _data_old does not    *)
(* exist and moves it INTO _data_old when it does.  Every command of the   *)
(* shell may fail, and mgradm may be killed between any two of them.       *)
(***************************************************************************)
EXTENDS Integers

CONSTANTS
  MaxRelease,   \* named bound: the releases are 1 .. MaxRelease
  Pg,           \* the PostgreSQL major version of each release
  Write         \* the writes the server may make to its database

Release == 1 .. MaxRelease

ASSUME ReleaseAssumption == MaxRelease \in Nat \ {0}
ASSUME PgAssumption == Pg \in [Release -> Nat \ {0}]

\* What a directory holds: nothing, a file system that is empty, half a copy,
\* or a PostgreSQL cluster with the writes it has.
Contents == [kind : {"absent", "empty", "broken", "cluster"},
             pg : Nat, has : SUBSET Write]

Blank(kind) == [kind |-> kind, pg |-> 0, has |-> {}]
Absent == Blank("absent")
Empty == Blank("empty")
Broken == Blank("broken")
Cluster(pg, has) == [kind |-> "cluster", pg |-> pg, has |-> has]

\* _data, _data_old and _data_old/_data
Dir == {"data", "old", "nested"}

VARIABLES
  dir,          \* what the directories hold
  dbOn,         \* the directory the running database container has mounted
  dbUnit,       \* the unit file of the database exists
  dbImage,      \* the release of the image in its generated.conf
  dbRuns,       \* the release of the running database container, 0 for none
  serverRuns,   \* the release of the running server container, 0 for none
  serverImage,  \* the release of the image in its generated.conf
  exposesTFTP,  \* the server unit publishes 69/udp
  tftp,         \* the TFTP service is enabled
  dbHost,       \* db_host in rhn.conf
  external,     \* the administrator runs the server with an external database
  pc,           \* the next step of the command, "idle" between two
  cmd,          \* the running command, or the last one
  target,       \* the releases of its server and database images
  inspected,    \* the release of the server container it found running
  hasTFTP,      \* what it found out about TFTP before it stopped anything
  deferred,     \* the units it starts again when it returns
  err,          \* it returns an error
  written,      \* history: the writes that were committed to the local database
  touched,      \* history: the command moved data or wrote the server unit
  cut,          \* history: such a command did not end well
  nestedMove,   \* history: a data directory was moved into an older one
  served,       \* history: TFTP is what the administrator asked for
  downgraded,   \* history: a command went to a release older than the unit's
  early         \* history: the running database was started by something else
                \* between the command's stop of it and its new image

units == <<dbUnit, dbImage, serverImage, exposesTFTP, tftp, dbHost, external>>
call == <<cmd, target, inspected, hasTFTP>>
database == <<dbOn, dbRuns, early>>
ghosts == <<cut, nestedMove, served, downgraded>>
vars == <<dir, database, serverRuns, units, pc, call, deferred, err, written, touched,
          ghosts>>

TypeOK ==
  /\ dir \in [Dir -> Contents]
  /\ dbOn \in Dir \cup {"none"}
  /\ dbUnit \in BOOLEAN /\ dbImage \in Release
  /\ dbRuns \in {0} \cup Release /\ (dbRuns = 0 <=> dbOn = "none")
  /\ serverRuns \in {0} \cup Release /\ serverImage \in Release
  /\ exposesTFTP \in BOOLEAN /\ tftp \in BOOLEAN
  /\ dbHost \in {"db", "external"} /\ external \in BOOLEAN
  /\ pc \in {"idle", "stopServer", "stopDB", "data", "mkdir", "copy", "configure",
             "setupUnit", "setupStart", "upgradeUnit", "upgradeStart",
             "serverConf", "serverUnit", "startServer", "optional", "return"}
  /\ cmd \in {"none", "upgrade", "ptf"}
  /\ target \in [server : Release, db : Release] /\ inspected \in Release
  /\ hasTFTP \in BOOLEAN /\ err \in BOOLEAN /\ touched \in BOOLEAN
  /\ deferred \subseteq {"db", "server"}
  /\ written \subseteq Write
  /\ cut \in BOOLEAN /\ nestedMove \in BOOLEAN /\ served \in BOOLEAN
  /\ downgraded \in BOOLEAN /\ early \in BOOLEAN

\* A running server of some release, as installed or upgraded to by an mgradm
\* that published TFTP from the server container or by one that does not.
Init ==
  /\ serverImage \in Release /\ dbImage = serverImage
  /\ external \in BOOLEAN
  /\ dbUnit = ~external
  /\ dbHost = IF external THEN "external" ELSE "db"
  /\ dir = [d \in Dir |-> IF d # "data" THEN Absent
                          ELSE IF external THEN Empty
                          ELSE Cluster(Pg[dbImage], {})]
  /\ dbOn = IF external THEN "none" ELSE "data"
  /\ dbRuns = IF external THEN 0 ELSE dbImage
  /\ serverRuns = serverImage
  /\ exposesTFTP \in BOOLEAN /\ tftp \in BOOLEAN
  /\ ~(exposesTFTP /\ tftp)
  /\ served = (exposesTFTP \/ tftp)
  /\ pc = "idle" /\ cmd = "none" /\ deferred = {} /\ err = FALSE
  /\ target = [server |-> serverImage, db |-> dbImage]
  /\ inspected = serverImage /\ hasTFTP = FALSE /\ written = {}
  /\ touched = FALSE /\ cut = FALSE /\ nestedMove = FALSE
  /\ downgraded = FALSE /\ early = FALSE

-----------------------------------------------------------------------------
(* Control flow and units *)

Goto(next) == pc' = next /\ UNCHANGED err

\* return err: what is left are the deferred starts.
Fail == pc' = "return" /\ err' = TRUE

serverOn == serverRuns # 0

\* A container that already runs stays the one it is; otherwise a new one runs
\* the image of the unit, the database when its data directory is a cluster of
\* its version or when that is empty: it then creates a cluster.
DBRuns ==
  /\ dbUnit
  /\ \/ dbOn # "none" /\ UNCHANGED <<dir, database>>
     \/ /\ dbOn = "none" /\ dbOn' = "data" /\ dbRuns' = dbImage
        /\ \/ dir["data"].kind = "cluster" /\ dir["data"].pg = Pg[dbImage]
              /\ UNCHANGED dir
           \/ dir["data"].kind = "empty"
              /\ dir' = [dir EXCEPT !["data"] = Cluster(Pg[dbImage], {})]
        /\ early' = (pc \in {"data", "mkdir", "copy", "configure", "setupUnit"})

DBStays == UNCHANGED <<dir, database>>

DBStops == dbOn' = "none" /\ dbRuns' = 0 /\ early' = FALSE

ServerRuns == serverRuns' = IF serverOn THEN serverRuns ELSE serverImage

-----------------------------------------------------------------------------
(* The steps of Upgrade *)

\* The release it goes to is not older than that of the running container, which
\* need not be the release of the unit's image.
SanityCheck(r) == r.server >= serverRuns

\* Mutant: the database image is that of the following release.
BeginNextDB(c, r) ==
  /\ pc = "idle" /\ serverOn
  /\ c = "upgrade" /\ r.server = r.db /\ SanityCheck(r)
  /\ pc' = "stopServer" /\ cmd' = c /\ target' = [r EXCEPT !.db = @ + 1]
  /\ inspected' = serverRuns /\ downgraded' = (downgraded \/ r.server < serverImage)
  /\ hasTFTP' = (tftp \/ exposesTFTP)
  /\ err' = FALSE /\ touched' = FALSE
  /\ UNCHANGED <<dir, database, serverRuns, units, deferred, written, cut, nestedMove,
                 served>>

\* Prepare the images, inspect them and the running server container, compare
\* their releases, and find out about TFTP.  Without images of their own the
\* server and the database get the same tag; a PTF keeps the releases of both
\* units.
Begin(c, r) ==
  /\ pc = "idle" /\ serverOn
  /\ \/ c = "upgrade" /\ r.server = r.db
     \/ c = "ptf" /\ dbUnit /\ r = [server |-> serverImage, db |-> dbImage]
  /\ SanityCheck(r)
  /\ pc' = "stopServer" /\ cmd' = c /\ target' = r
  /\ inspected' = serverRuns /\ downgraded' = (downgraded \/ r.server < serverImage)
  /\ hasTFTP' = (tftp \/ exposesTFTP)
  /\ err' = FALSE /\ touched' = FALSE
  /\ UNCHANGED <<dir, database, serverRuns, units, deferred, written, cut, nestedMove,
                 served>>

StopServer ==
  /\ pc = "stopServer"
  /\ \/ serverRuns' = 0 /\ deferred' = deferred \cup {"server"} /\ Goto("stopDB")
     \/ UNCHANGED <<serverRuns, deferred>> /\ Fail
  /\ UNCHANGED <<dir, database, units, call, written, touched, ghosts>>

StopDB ==
  /\ pc = "stopDB"
  /\ \/ dbUnit /\ DBStops /\ deferred' = deferred \cup {"db"} /\ Goto("data")
     \/ ~dbUnit /\ UNCHANGED <<database, deferred>> /\ Goto("data")
     \/ dbUnit /\ UNCHANGED <<database, deferred>> /\ Fail
  /\ UNCHANGED <<dir, serverRuns, units, call, written, touched, ghosts>>

\* The old version is that of the psql of the server container it found.
OldPg == Pg[inspected]
NewPg == Pg[target.db]

\* What mv _data _data_old leads to: where _data ends up.
MoveTo == IF dir["old"] = Absent THEN "old" ELSE "nested"

\* Mutant: an older _data_old is overwritten.
MoveDataOver ==
  /\ pc = "data" /\ NewPg > OldPg
  /\ \/ /\ dir["data"] # Absent
        /\ dir' = [dir EXCEPT !["old"] = dir["data"], !["data"] = Absent]
        /\ dbOn' = IF dbOn = "data" THEN "old" ELSE dbOn
        /\ touched' = TRUE /\ nestedMove' = (nestedMove \/ dir["old"] # Absent)
        /\ Goto("mkdir")
     \/ UNCHANGED <<dir, dbOn, touched, nestedMove>> /\ Fail
  /\ UNCHANGED <<dbRuns, early, serverRuns, units, call, deferred, written, cut, served,
                 downgraded>>

\* mv fails without a source and when the directory in its way is not empty.
\* A database container that runs keeps the directory it has mounted.
MoveData ==
  /\ pc = "data" /\ NewPg > OldPg
  /\ \/ /\ dir["data"] # Absent /\ dir[MoveTo] \in {Absent, Empty}
        /\ dir' = [dir EXCEPT ![MoveTo] = dir["data"], !["data"] = Absent]
        /\ dbOn' = IF dbOn = "data" THEN MoveTo ELSE dbOn
        /\ touched' = TRUE /\ nestedMove' = (nestedMove \/ MoveTo = "nested")
        /\ Goto("mkdir")
     \/ UNCHANGED <<dir, dbOn, touched, nestedMove>> /\ Fail
  /\ UNCHANGED <<dbRuns, early, serverRuns, units, call, deferred, written, cut, served,
                 downgraded>>

\* The same version leaves the data alone, an older one is refused.
KeepData ==
  /\ pc = "data" /\ NewPg <= OldPg
  /\ IF NewPg = OldPg THEN Goto("configure") ELSE Fail
  /\ UNCHANGED <<dir, database, serverRuns, units, call, deferred, written, touched,
                 ghosts>>

MakeTarget ==
  /\ pc = "mkdir"
  /\ \/ dir' = [dir EXCEPT !["data"] = Empty] /\ Goto("copy")
     \/ UNCHANGED dir /\ Fail
  /\ UNCHANGED <<database, serverRuns, units, call, deferred, written, touched, ghosts>>

\* Mutant: what the upgrade container returns is not looked at.
CopyDataUnchecked ==
  /\ pc = "copy"
  /\ \/ /\ cmd = "upgrade" /\ dbOn # "old"
        /\ dir["old"].kind = "cluster" /\ dir["old"].pg < NewPg
        /\ dir["data"] = Empty
        /\ dir' = [dir EXCEPT !["data"] = Cluster(NewPg, dir["old"].has)]
     \/ UNCHANGED dir
  /\ Goto("configure")
  /\ UNCHANGED <<database, serverRuns, units, call, deferred, written, touched, ghosts>>

\* RunPgsqlVersionUpgrade: the upgrade container creates a cluster of the new
\* version in _data, which has to be empty, and copies _data_old to it, which
\* must not be in use.  A PTF passes no upgrade image, for which ComputeImage or
\* the pull fails.
CopyData ==
  /\ pc = "copy"
  /\ \/ /\ cmd = "upgrade" /\ dbOn # "old"
        /\ dir["old"].kind = "cluster" /\ dir["old"].pg < NewPg
        /\ dir["data"] = Empty
        /\ dir' = [dir EXCEPT !["data"] = Cluster(NewPg, dir["old"].has)]
        /\ Goto("configure")
     \/ /\ \/ UNCHANGED dir
           \/ cmd = "upgrade" /\ dir["data"] = Empty
              /\ dir' = [dir EXCEPT !["data"] = Broken]
        /\ Fail
  /\ UNCHANGED <<database, serverRuns, units, call, deferred, written, touched, ghosts>>

\* The certificates, the host names of the database containers written to
\* rhn.conf, and the credentials.  A PTF passes empty database flags, which
\* are those of a local database.
Configure ==
  /\ pc = "configure"
  /\ \/ /\ dbHost' = "db"
        /\ \/ Goto(IF external /\ cmd = "upgrade" THEN "upgradeUnit" ELSE "setupUnit")
           \/ Fail
     \/ UNCHANGED dbHost /\ Fail
  /\ UNCHANGED <<dir, database, serverRuns, dbUnit, dbImage, serverImage, exposesTFTP,
                 tftp, external, call, deferred, written, touched, ghosts>>

\* Mutant: a database unit that exists keeps its configuration.
WriteDBUnitOnce ==
  /\ pc \in {"setupUnit", "upgradeUnit"}
  /\ dbUnit' = TRUE
  /\ dbImage' = IF dbUnit THEN dbImage ELSE target.db
  /\ Goto(IF pc = "setupUnit" THEN "setupStart" ELSE "upgradeStart")
  /\ UNCHANGED <<dir, database, serverRuns, serverImage, exposesTFTP, tftp, dbHost,
                 external, call, deferred, written, touched, ghosts>>

\* GeneratePgsqlSystemdService, in SetupPgsql and again in pgsql.Upgrade: the
\* unit file first, then the image.
WriteDBUnit ==
  /\ pc \in {"setupUnit", "upgradeUnit"}
  /\ \/ /\ dbUnit' = TRUE /\ dbImage' = target.db
        /\ \/ Goto(IF pc = "setupUnit" THEN "setupStart" ELSE "upgradeStart")
           \/ Fail
     \/ dbUnit' \in {dbUnit, TRUE} /\ UNCHANGED dbImage /\ Fail
  /\ UNCHANGED <<dir, database, serverRuns, serverImage, exposesTFTP, tftp, dbHost,
                 external, call, deferred, written, touched, ghosts>>

\* Enable, start, and wait until the database is healthy.
StartDB ==
  /\ pc \in {"setupStart", "upgradeStart"}
  /\ \/ DBRuns /\ Goto(IF pc = "setupStart" THEN "upgradeUnit" ELSE "serverConf")
     \/ (DBRuns \/ DBStays) /\ Fail
  /\ UNCHANGED <<serverRuns, units, call, deferred, written, touched, ghosts>>

\* The environment file and the new image of the server.
WriteServerConf ==
  /\ pc = "serverConf"
  /\ \/ /\ serverImage' = target.server
        /\ Goto("serverUnit") \/ Fail
     \/ UNCHANGED serverImage /\ Fail
  /\ UNCHANGED <<dir, database, serverRuns, dbUnit, dbImage, exposesTFTP, tftp, dbHost,
                 external, call, deferred, written, touched, ghosts>>

\* UpdateServerSystemdService: the new server unit does not publish TFTP.
WriteServerUnit ==
  /\ pc = "serverUnit"
  /\ \/ /\ exposesTFTP' = FALSE /\ touched' = TRUE
        /\ Goto("startServer") \/ Fail
     \/ UNCHANGED <<exposesTFTP, touched>> /\ Fail
  /\ UNCHANGED <<dir, database, serverRuns, dbUnit, dbImage, serverImage, tftp, dbHost,
                 external, call, deferred, written, ghosts>>

\* systemd starts the database with the server, which wants it, but starts the
\* server whatever becomes of the database.
StartServer ==
  /\ pc = "startServer"
  /\ DBRuns \/ DBStays
  /\ \/ ServerRuns /\ (Goto("optional") \/ Fail)
     \/ UNCHANGED serverRuns /\ Fail
  /\ UNCHANGED <<units, call, deferred, written, touched, ghosts>>

\* What the administrator wants of TFTP: --tftpd-enable set to one or the other,
\* or not at all.
Wish == {"on", "off", "as is"}

\* SetupTFTPContainer disables the service only when it found TFTP in use.
TFTPAfter(wish) ==
  CASE wish = "on" \/ (wish = "as is" /\ hasTFTP) -> TRUE
    [] wish = "off" /\ hasTFTP -> FALSE
    [] OTHER -> tftp

\* Mutant: only an explicit wish or an enabled service counts.
UpgradeOptionalForgets ==
  /\ pc = "optional"
  /\ \E wish \in Wish :
       /\ tftp' = IF wish = "as is" THEN tftp ELSE TFTPAfter(wish)
       /\ served' = (wish = "on" \/ (wish = "as is" /\ served))
       /\ pc' = "return" /\ UNCHANGED err
  /\ UNCHANGED <<dir, database, serverRuns, dbUnit, dbImage, serverImage, exposesTFTP,
                 dbHost, external, call, deferred, written, touched, cut,
                 nestedMove, downgraded>>

\* Attestation, hub, Saline and TFTP: the errors are joined, each of them is
\* upgraded whatever happens to the others.  A PTF leaves TFTP alone unless the
\* service is there.
UpgradeOptional ==
  /\ pc = "optional"
  /\ \E wish \in IF cmd = "ptf" THEN {"as is"} ELSE Wish :
       \/ /\ tftp' = IF cmd = "ptf" THEN tftp ELSE TFTPAfter(wish)
          /\ served' = (wish = "on" \/ (wish = "as is" /\ served))
          /\ pc' = "return" /\ err' \in BOOLEAN
       \/ UNCHANGED <<tftp, served>> /\ Fail
  /\ UNCHANGED <<dir, database, serverRuns, dbUnit, dbImage, serverImage, exposesTFTP,
                 dbHost, external, call, deferred, written, touched, cut,
                 nestedMove, downgraded>>

\* The deferred starts, the last one first; what they return is lost.
DeferredStart ==
  /\ pc = "return" /\ deferred # {}
  /\ IF "db" \in deferred
       THEN deferred' = deferred \ {"db"} /\ UNCHANGED serverRuns
       ELSE deferred' = {} /\ (ServerRuns \/ UNCHANGED serverRuns)
  /\ DBRuns \/ DBStays
  /\ UNCHANGED <<units, pc, call, err, written, touched, ghosts>>

Return ==
  /\ pc = "return" /\ deferred = {}
  /\ pc' = "idle"
  /\ cut' = (cut \/ (touched /\ (err \/ cmd = "ptf")))
  /\ UNCHANGED <<dir, database, serverRuns, units, call, deferred, err, written, touched,
                 nestedMove, served, downgraded>>

-----------------------------------------------------------------------------
(* The world *)

\* The server commits a write to the local database.
ServerWrites ==
  /\ serverOn /\ dbOn # "none" /\ ~external
  /\ dir[dbOn].kind = "cluster"
  /\ \E w \in Write \ written :
       /\ dir' = [dir EXCEPT ![dbOn].has = @ \cup {w}]
       /\ written' = written \cup {w}
  /\ UNCHANGED <<database, serverRuns, units, pc, call, deferred, err, touched, ghosts>>

\* mgradm start, the boot, or systemd when it starts a failed hub, Saline or
\* TFTP container again (Restart=on-failure), each of which wants the server:
\* it may happen in the middle of an upgrade.
Revive ==
  /\ DBRuns \/ DBStays
  /\ ServerRuns
  /\ UNCHANGED <<units, pc, call, deferred, err, written, touched, ghosts>>

ContainerDies ==
  /\ \/ DBStops /\ UNCHANGED serverRuns
     \/ serverRuns' = 0 /\ UNCHANGED database
  /\ UNCHANGED <<dir, units, pc, call, deferred, err, written, touched, ghosts>>

\* The command is gone, and with it what it deferred.
Killed ==
  /\ pc' = "idle" /\ deferred' = {}
  /\ cut' = (cut \/ (pc # "idle" /\ touched))
  /\ UNCHANGED <<dir, units, call, err, written, touched, nestedMove, served,
                 downgraded>>

\* Ctrl-C: mgradm does not trap it.
Interrupt == pc # "idle" /\ Killed /\ UNCHANGED <<database, serverRuns>>

Reboot == Killed /\ DBStops /\ serverRuns' = 0

Step == \/ StopServer \/ StopDB \/ MoveData \/ KeepData \/ MakeTarget \/ CopyData
        \/ Configure \/ WriteDBUnit \/ StartDB \/ WriteServerConf
        \/ WriteServerUnit \/ StartServer \/ UpgradeOptional
        \/ DeferredStart \/ Return

Command == \E c \in {"upgrade", "ptf"}, r \in [server : Release, db : Release] :
             Begin(c, r)

World == ServerWrites \/ Revive \/ ContainerDies \/ Interrupt \/ Reboot

Next == Step \/ Command \/ World

Spec == Init /\ [][Next]_vars

-----------------------------------------------------------------------------
(* Properties *)

\* No write is ever destroyed: whatever fails, is interrupted or repeated, each
\* committed write is still in the data directory or in one that was moved away.
NoWriteLost == written \subseteq UNION {dir[d].has : d \in Dir}

\* The database in use has all of them, between two commands, as long as no
\* upgrade was cut short after it had moved the data or written the server
\* unit, and no data directory was moved into the one of an earlier upgrade.
DatabaseComplete ==
  (pc = "idle" /\ ~cut /\ ~nestedMove /\ ~external)
    => (dir["data"].kind = "cluster" /\ dir["data"].has = written)

\* The images are written in such an order that, however an upgrade is cut, failed
\* or repeated, neither the server that runs nor the one its unit would start is
\* of a newer release than the database it finds or the one that unit would start.
\* Two things the code does are excepted.  A server that was started again in the
\* middle of an upgrade keeps its old image, and an upgrade from there may go to a
\* release older than the one already in the unit.  A database that was started
\* again before its new image was written is not restarted.
ServerNotAheadOfDB ==
  (dbUnit /\ ~external /\ ~downgraded)
    => /\ serverImage <= dbImage /\ serverRuns <= dbImage
       /\ (dbOn # "none" /\ ~early) => (serverImage <= dbRuns /\ serverRuns <= dbRuns)

\* TFTP moves from the server container to a service of its own without being
\* lost: between two commands one of them serves it if the administrator wants
\* it, as long as no upgrade was cut short and no PTF was put on a server whose
\* unit still published it.
TFTPKept ==
  (pc = "idle" /\ ~cut /\ served) => (tftp \/ exposesTFTP)

\* What the log line at the start of a PostgreSQL upgrade announces,
\* "Initiating PostgreSQL upgrade from version %[1]d to %[2]d": the cluster that
\* is handed to the upgrade container has the first of these versions.
UpgradesAnnouncedVersion ==
  (pc = "copy" /\ ~cut /\ ~external /\ dir["old"].kind = "cluster")
    => (dir["old"].pg = OldPg)

\* What the log line says of a server with an external database, "Skipped
\* database container setup to use external database": it stays in use and no
\* database container is set up.
ExternalDatabaseKept == external => (dbHost = "external" /\ ~dbUnit)
=============================================================================
