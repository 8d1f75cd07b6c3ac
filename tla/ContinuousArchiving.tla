------------------------- MODULE ContinuousArchiving -------------------------
(***************************************************************************)
(* The continuous backup of the database: mgradm backup db enable,         *)
(* disable, rebase, status and restore, together with what PostgreSQL does *)
(* meanwhile: it commits writes, archives them one segment after the other *)
(* to the backup volume, and replays the archive on top of a base backup   *)
(* that was restored.                                                      *)
(*                                                                         *)
(* A write is a number, and the segment <<before, w>> the write w made to  *)
(* a database that had the writes before.  Recovery can only replay a      *)
(* segment on a database that has what comes before it.                    *)
(***************************************************************************)
EXTENDS Integers

CONSTANT MaxWrites            \* named bound: the writes ever made

ASSUME MaxWritesAssumption == MaxWrites \in Nat

Write == 1 .. MaxWrites
Segment == (SUBSET Write) \X Write

VARIABLES
  dbOn,       \* the database container runs
  loaded,     \* archive_mode as the database read it when it started
  dropIn,     \* the unit has the drop-in file that mounts the backup volume
  data,       \* what the data volume holds, see Data
  pending,    \* the segments in its pg_wal that are not archived yet
  base,       \* the base backup in the backup volume, see Base
  archive,    \* the archived segments beside it
  script,     \* what the script in the container does: it outlives mgradm
  pc,         \* the next step of the command, "idle" between two
  cmd,        \* the running command, or the last one
  wasRunning, \* the database ran when it began
  last,       \* history: the last write made
  gap,        \* history: why the archive does not fit to the base backup:
              \* archiving was off in between, or part of it was removed
  promised,   \* history: what a restore has to bring back
  disturbed   \* history: the database died or was started by someone else
              \* since the command began

backup == <<base, archive>>
history == <<last, promised>>
call == <<cmd, wasRunning>>
vars == <<dbOn, loaded, dropIn, data, pending, base, archive, script, pc, cmd,
          wasRunning, last, gap, promised, disturbed>>

\* A cluster in use, a base backup unpacked but not recovered, no file at all,
\* or files PostgreSQL cannot start from.  on and restore are archive_mode and
\* restore_command of postgresql.conf, signal is recovery.signal.
Data == [kind : {"cluster", "copy", "wiped", "broken"}, has : SUBSET Write,
         on : BOOLEAN, restore : BOOLEAN, signal : BOOLEAN]

NewCluster == [kind |-> "cluster", has |-> {}, on |-> FALSE, restore |-> FALSE,
               signal |-> FALSE]
Wiped == [NewCluster EXCEPT !.kind = "wiped"]
Broken == [NewCluster EXCEPT !.kind = "broken"]

\* base.tar.gz: missing, cut short, or with the writes and the postgresql.conf
\* of the moment it was taken.
Base == [kind : {"none", "partial", "whole"}, has : SUBSET Write,
         restore : BOOLEAN]

NoBase == [kind |-> "none", has |-> {}, restore |-> FALSE]
PartialBase == [NoBase EXCEPT !.kind = "partial"]

TypeOK ==
  /\ dbOn \in BOOLEAN /\ loaded \in BOOLEAN /\ dropIn \in BOOLEAN
  /\ data \in Data /\ pending \subseteq Segment
  /\ base \in Base /\ archive \subseteq Segment
  /\ script \in {"none", "clear", "base", "done", "failed"}
  /\ pc \in {"idle", "stop", "dropin", "conf", "purge", "start", "exec",
             "script", "restop", "wipe", "untar", "signal", "wait", "ok"}
  /\ cmd \in {"none", "enable", "disable", "disable --purge-volume", "rebase",
              "restore"}
  /\ wasRunning \in BOOLEAN
  /\ last \in 0 .. MaxWrites
  /\ gap \subseteq {"off", "removed"}
  /\ promised \subseteq Write /\ disturbed \in BOOLEAN

\* A database that was never backed up.
Init ==
  /\ dbOn \in BOOLEAN /\ loaded = FALSE /\ dropIn = FALSE
  /\ data = NewCluster /\ pending = {}
  /\ base = NoBase /\ archive = {} /\ script = "none"
  /\ pc = "idle" /\ cmd = "none" /\ wasRunning = FALSE
  /\ last = 0 /\ gap = {} /\ promised = {} /\ disturbed = FALSE

-----------------------------------------------------------------------------
(* What can be restored *)

\* The writes S are those of the base backup and of a chain of segments.
Restorable(S, segments) ==
  /\ base.kind = "whole" /\ base.has \subseteq S
  /\ \A w \in S \ base.has : <<{v \in S : v < w}, w>> \in segments

Archived == UNION {S \in SUBSET (1 .. last) : Restorable(S, archive)}

-----------------------------------------------------------------------------
(* The database container *)

\* What a pg_basebackup that does not end leaves.
HalfWritten ==
  {base} \cup (IF script = "base" /\ base = NoBase THEN {PartialBase} ELSE {})

\* A container that stops takes the script in it along.
ScriptStops ==
  IF script \in {"clear", "base"}
    THEN /\ script' = IF pc = "script" THEN "failed" ELSE "none"
         /\ base' \in HalfWritten
    ELSE UNCHANGED <<script, base>>

DBStops == dbOn' = FALSE /\ ScriptStops

\* PostgreSQL does not recover without restore_command.
Startable == data.kind \in {"cluster", "copy"} /\ (data.signal => data.restore)

\* An empty directory becomes a new cluster.  A base backup that is started
\* without recovery.signal goes on where it was taken, beside its archive.
DBStarts ==
  CASE dbOn -> UNCHANGED <<dbOn, loaded, data, pending, gap>>
    [] ~dbOn /\ data.kind = "wiped" ->
         /\ dbOn' = TRUE /\ loaded' = FALSE /\ data' = NewCluster
         /\ pending' = {} /\ gap' = gap \cup {"off"}
    [] ~dbOn /\ Startable ->
         /\ dbOn' = TRUE /\ loaded' = data.on
         /\ pending' = IF data.on THEN pending ELSE {}
         /\ data' = IF data.signal THEN data ELSE [data EXCEPT !.kind = "cluster"]
         /\ gap' = IF data.kind = "copy" /\ ~data.signal THEN gap \cup {"off"} ELSE gap
    [] OTHER -> UNCHANGED <<dbOn, loaded, data, pending, gap>>

DBStays == UNCHANGED <<dbOn, loaded, data, pending, gap>>

-----------------------------------------------------------------------------
(* CheckStatus: archiving is on in the running database and in the file, with *)
(* the backup volume mounted.                                                 *)

CheckStatus ==
  /\ dbOn => loaded
  /\ data.kind \in {"cluster", "copy"} /\ data.on
  /\ dropIn

-----------------------------------------------------------------------------
(* Control flow: a command that fails just returns *)

Goto(next) == pc' = next
Fail == pc' = "idle"

Begin(c, next) ==
  /\ pc = "idle"
  /\ cmd' = c /\ wasRunning' = dbOn /\ disturbed' = FALSE
  /\ Goto(next)
  /\ UNCHANGED <<dbOn, loaded, dropIn, data, pending, backup, script, history, gap>>

\* Without --force a backup that is configured is not configured again.
Enable ==
  /\ \E force \in BOOLEAN : force \/ ~CheckStatus
  /\ Begin("enable", IF dbOn THEN "stop" ELSE "dropin")

Disable ==
  \E c \in {"disable", "disable --purge-volume"} :
    Begin(c, IF dbOn THEN "stop" ELSE "conf")

\* Assumption: no script of an earlier command is left in the container.
Rebase ==
  /\ CheckStatus /\ script = "none"
  /\ Begin("rebase", IF dbOn THEN "exec" ELSE "start")

Restore == Begin("restore", "stop")

\* The command returns no error.
Return ==
  /\ pc = "ok" /\ pc' = "idle"
  /\ UNCHANGED <<dbOn, loaded, dropIn, data, pending, backup, script, call,
                 history, gap, disturbed>>

-----------------------------------------------------------------------------
(* Steps *)

StopService ==
  /\ pc = "stop"
  /\ \/ DBStops
        /\ Goto(CASE cmd = "enable" -> "dropin"
                  [] cmd = "restore" -> "wipe"
                  [] OTHER -> "conf")
     \/ UNCHANGED <<dbOn, script, base>> /\ Fail
  /\ UNCHANGED <<loaded, dropIn, data, pending, archive, call, history, gap,
                 disturbed>>

GenerateBackupVolumeConfig ==
  /\ pc = "dropin"
  /\ \/ dropIn' = TRUE /\ (Goto("conf") \/ Fail)
     \/ UNCHANGED dropIn /\ Fail
  /\ UNCHANGED <<dbOn, loaded, data, pending, backup, script, call, history, gap,
                 disturbed>>

\* What the command sets in postgresql.conf.
Updated ==
  CASE cmd = "enable" -> [data EXCEPT !.on = TRUE]
    [] cmd = "restore" -> [data EXCEPT !.restore = TRUE]
    [] OTHER -> [data EXCEPT !.on = FALSE]

\* The file is written over, so that a failure may leave it empty; without it
\* nothing is done.
UpdatePostgresConfig ==
  /\ pc = "conf"
  /\ \/ /\ data.kind # "wiped" /\ data' = Updated
        /\ Goto(CASE cmd = "disable" -> IF wasRunning THEN "start" ELSE "ok"
                  [] cmd = "disable --purge-volume" -> "purge"
                  [] OTHER -> "start")
     \/ /\ \/ UNCHANGED data
           \/ data.kind # "wiped"
              /\ data' = [data EXCEPT !.on = FALSE, !.restore = FALSE]
        /\ Fail
  /\ gap' = gap \cup (IF data.on /\ ~data'.on THEN {"off"} ELSE {})
  /\ UNCHANGED <<dbOn, loaded, dropIn, pending, backup, script, call, history,
                 disturbed>>

\* Answering no returns at once; the volume cannot be removed while the
\* container uses it.
PurgeVolume ==
  /\ pc = "purge"
  /\ \/ UNCHANGED backup /\ (Goto("ok") \/ Fail)
     \/ /\ ~dbOn /\ base' = NoBase /\ archive' = {}
        /\ Goto(IF wasRunning THEN "start" ELSE "ok")
  /\ UNCHANGED <<dbOn, loaded, dropIn, data, pending, script, call, history, gap,
                 disturbed>>

\* All but restore wait until the database is healthy; restore goes on as soon
\* as the container was started, whatever the database in it does.
StartService ==
  /\ pc = "start"
  /\ \/ /\ DBStarts
        /\ CASE cmd = "restore" -> Goto("wait")
             [] cmd # "restore" /\ dbOn' ->
                  Goto(IF cmd \in {"enable", "rebase"} THEN "exec" ELSE "ok")
             [] OTHER -> Fail
     \/ (DBStarts \/ DBStays) /\ Fail
  /\ UNCHANGED <<dropIn, backup, script, call, history, disturbed>>

\* Mutant: the status is not checked again after the restart.
ExecScriptUnchecked ==
  /\ pc = "exec"
  /\ IF dbOn THEN script' = "clear" /\ Goto("script")
             ELSE UNCHANGED script /\ Fail
  /\ UNCHANGED <<dbOn, loaded, dropIn, data, pending, backup, call, history, gap,
                 disturbed>>

\* RunBaseBackup, which enable does only with the configuration it wanted.
ExecScript ==
  /\ pc = "exec"
  /\ IF dbOn /\ (cmd = "enable" => CheckStatus)
       THEN script' = "clear" /\ Goto("script")
       ELSE UNCHANGED script /\ Fail
  /\ UNCHANGED <<dbOn, loaded, dropIn, data, pending, backup, call, history, gap,
                 disturbed>>

\* Mutant: how the script ended is not looked at.
ScriptReturnsUnchecked ==
  /\ pc = "script" /\ script \in {"done", "failed"}
  /\ script' = "none"
  /\ Goto(IF wasRunning THEN "ok" ELSE "restop")
  /\ UNCHANGED <<dbOn, loaded, dropIn, data, pending, backup, call, history, gap,
                 disturbed>>

\* Mutant: the database is stopped at the end in every case.
ScriptReturnsStopping ==
  /\ pc = "script" /\ script \in {"done", "failed"}
  /\ script' = "none"
  /\ IF script = "failed" THEN Fail ELSE Goto("restop")
  /\ UNCHANGED <<dbOn, loaded, dropIn, data, pending, backup, call, history, gap,
                 disturbed>>

ScriptReturns ==
  /\ pc = "script" /\ script \in {"done", "failed"}
  /\ script' = "none"
  /\ IF script = "failed" THEN Fail
     ELSE Goto(IF wasRunning THEN "ok" ELSE "restop")
  /\ UNCHANGED <<dbOn, loaded, dropIn, data, pending, backup, call, history, gap,
                 disturbed>>

\* The database goes back to how it was found; a failure is only logged.
StopAgain ==
  /\ pc = "restop" /\ Goto("ok")
  /\ DBStops \/ UNCHANGED <<dbOn, script, base>>
  /\ UNCHANGED <<loaded, dropIn, data, pending, archive, call, history, gap,
                 disturbed>>

\* Mutant: the old cluster is removed without looking for a base backup.
RemoveClusterUnchecked ==
  /\ pc = "wipe" /\ promised' = Archived
  /\ pending' = {}
  /\ \/ data' = (IF dbOn THEN Broken ELSE Wiped) /\ Goto("untar")
     \/ data' = Broken /\ Fail
  /\ UNCHANGED <<dbOn, loaded, dropIn, backup, script, call, last, gap,
                 disturbed>>

\* The restore script removes the old cluster when there is a base backup file,
\* be it half of one.
RemoveCluster ==
  /\ pc = "wipe" /\ promised' = Archived
  /\ \/ /\ base.kind # "none" /\ pending' = {}
        /\ \/ data' = (IF dbOn THEN Broken ELSE Wiped) /\ Goto("untar")
           \/ data' = Broken /\ Fail
     \/ UNCHANGED <<data, pending>> /\ Fail
  /\ UNCHANGED <<dbOn, loaded, dropIn, backup, script, call, last, gap,
                 disturbed>>

\* Mutant: half of a base backup is unpacked without looking at the error.
RestoreBaseUnchecked ==
  /\ pc = "untar"
  /\ data' = IF dbOn THEN Broken
             ELSE [kind |-> IF base.kind = "whole" THEN "copy" ELSE base.kind,
                   has |-> base.has, on |-> TRUE, restore |-> base.restore,
                   signal |-> FALSE]
  /\ Goto("signal")
  /\ UNCHANGED <<dbOn, loaded, dropIn, pending, backup, script, call, history, gap,
                 disturbed>>

\* archive_mode was on when the base backup was taken.
RestoreBase ==
  /\ pc = "untar"
  /\ \/ /\ base.kind = "whole"
        /\ data' = IF dbOn THEN Broken
                   ELSE [kind |-> "copy", has |-> base.has, on |-> TRUE,
                         restore |-> base.restore, signal |-> FALSE]
        /\ Goto("signal")
     \/ data' = Broken /\ Fail
  /\ UNCHANGED <<dbOn, loaded, dropIn, pending, backup, script, call, history, gap,
                 disturbed>>

SignalRecovery ==
  /\ pc = "signal"
  /\ data' = [data EXCEPT !.signal = TRUE] /\ Goto("conf")
  /\ UNCHANGED <<dbOn, loaded, dropIn, pending, backup, script, call, history, gap,
                 disturbed>>

\* Mutant: the command returns when the database has started.
WaitForNothing ==
  /\ pc = "wait" /\ Goto("ok")
  /\ UNCHANGED <<dbOn, loaded, dropIn, data, pending, backup, script, call,
                 history, gap, disturbed>>

\* Mutant: the command waits until recovery.signal is there.
WaitForSignal ==
  /\ pc = "wait" /\ data.signal /\ Goto("ok")
  /\ UNCHANGED <<dbOn, loaded, dropIn, data, pending, backup, script, call,
                 history, gap, disturbed>>

\* recovery.signal is looked at every two seconds until it is gone.
WaitForRecovery ==
  /\ pc = "wait" /\ ~data.signal /\ Goto("ok")
  /\ UNCHANGED <<dbOn, loaded, dropIn, data, pending, backup, script, call,
                 history, gap, disturbed>>

-----------------------------------------------------------------------------
(* The base backup script in the container: it has no set -e *)

\* find -delete: all of the old backup, or some of it when it fails.
RemoveOldBackup ==
  /\ dbOn /\ script = "clear" /\ script' = "base"
  /\ \/ base' = NoBase /\ archive' = {} /\ UNCHANGED gap
     \/ /\ base' \in {base, NoBase}
        /\ \E left \in SUBSET archive : archive' = left
        /\ gap' = gap \cup {"removed"}
  /\ UNCHANGED <<dbOn, loaded, dropIn, data, pending, pc, call, history, disturbed>>

ScriptEnds(how) == script' = IF pc = "script" THEN how ELSE "none"

\* pg_basebackup refuses a directory that is not empty, be it for a segment
\* that was archived since it was emptied.
BaseBackup ==
  /\ dbOn /\ script = "base"
  /\ \/ /\ base = NoBase /\ archive = {}
        /\ base' = [kind |-> "whole", has |-> data.has, restore |-> data.restore]
        /\ gap' = {} /\ ScriptEnds("done")
     \/ /\ base' \in HalfWritten
        /\ UNCHANGED gap /\ ScriptEnds("failed")
  /\ UNCHANGED <<dbOn, loaded, dropIn, data, pending, archive, pc, call, history,
                 disturbed>>

-----------------------------------------------------------------------------
(* PostgreSQL *)

ServerWrites ==
  /\ dbOn /\ data.kind = "cluster" /\ last < MaxWrites
  /\ last' = last + 1
  /\ data' = [data EXCEPT !.has = @ \cup {last + 1}]
  /\ pending' = IF loaded THEN pending \cup {<<data.has, last + 1>>} ELSE pending
  /\ UNCHANGED <<dbOn, loaded, dropIn, backup, script, pc, call, gap, promised,
                 disturbed>>

\* The oldest segment first.  Assumption: smdba-pgarchive does not write over a
\* segment that is archived, which the one in its place would be.
Archive ==
  /\ dbOn /\ loaded
  /\ \E s \in pending :
       /\ \A t \in pending : s[2] <= t[2]
       /\ \A t \in archive : t[1] # s[1]
       /\ archive' = archive \cup {s} /\ pending' = pending \ {s}
  /\ UNCHANGED <<dbOn, loaded, dropIn, data, base, script, pc, call, history, gap,
                 disturbed>>

Recovering == dbOn /\ data.kind = "copy" /\ data.signal

\* The next segment, or the end of the recovery when there is none.
Recover ==
  /\ Recovering
  /\ \/ /\ \E s \in archive :
             s[1] = data.has /\ data' = [data EXCEPT !.has = @ \cup {s[2]}]
        /\ UNCHANGED gap
     \/ /\ \A s \in archive : s[1] # data.has
        /\ data' = [data EXCEPT !.kind = "cluster", !.signal = FALSE]
        /\ gap' = (gap \ {"off"}) \cup (IF loaded /\ data.on THEN {} ELSE {"off"})
  /\ UNCHANGED <<dbOn, loaded, dropIn, pending, backup, script, pc, call, history,
                 disturbed>>

-----------------------------------------------------------------------------
(* The world *)

\* Ctrl-C: the script in the container goes on, or stops with mgradm.
Interrupt ==
  /\ pc # "idle" /\ pc' = "idle"
  /\ CASE script \in {"done", "failed"} -> script' = "none" /\ UNCHANGED base
       [] OTHER -> UNCHANGED <<script, base>>
  /\ UNCHANGED <<dbOn, loaded, dropIn, data, pending, archive, call, history, gap,
                 disturbed>>

ContainerDies ==
  /\ dbOn /\ DBStops /\ disturbed' = TRUE
  /\ UNCHANGED <<loaded, dropIn, data, pending, archive, pc, call, history, gap>>

\* mgradm start, the boot, or systemd when it starts the database again or the
\* server, which wants it (Restart=on-success): be it in the middle of a command.
Revive ==
  /\ ~dbOn /\ DBStarts /\ disturbed' = TRUE
  /\ UNCHANGED <<dropIn, backup, script, pc, call, history>>

Step == \/ StopService \/ GenerateBackupVolumeConfig \/ UpdatePostgresConfig
        \/ PurgeVolume \/ StartService \/ ExecScript \/ ScriptReturns \/ StopAgain
        \/ RemoveCluster \/ RestoreBase \/ SignalRecovery \/ WaitForRecovery
        \/ Return

Script == RemoveOldBackup \/ BaseBackup

Command == Enable \/ Disable \/ Rebase \/ Restore

World == ServerWrites \/ Archive \/ Interrupt \/ ContainerDies \/ Revive

Next == Step \/ Script \/ Recover \/ Command \/ World

\* PostgreSQL goes on recovering, and mgradm goes on looking.
Spec == Init /\ [][Next]_vars /\ WF_vars(Recover) /\ WF_vars(WaitForRecovery)

-----------------------------------------------------------------------------
(* Properties *)

\* The archive has no gap: as long as nobody turned archiving off and nothing
\* went wrong with postgresql.conf, the data or the backup volume, every write
\* of the database since its base backup is archived or waits for it, with all
\* that comes before it, so that a restore can bring it back.
Continuous ==
  (base.kind = "whole" /\ gap = {} /\ data.kind = "cluster")
    => Restorable(data.has, archive \cup pending)

\* An enable or a rebase that returns no error has made a base backup, to which
\* the archive fits.
EndsWithBackup ==
  [][(Return /\ cmd \in {"enable", "rebase"})
       => (base.kind = "whole" /\ gap = {})]_vars

\* A restore that returns no error has brought back every write that was
\* archived when it removed the old cluster, and waited for the recovery.
RestoreBringsBack ==
  [][(Return /\ cmd = "restore" /\ ~disturbed)
       => (promised \subseteq data.has /\ data.kind = "cluster")]_vars

\* There is neither a cluster nor a base backup to restore it from.
AllLost == data.kind \in {"wiped", "broken"} /\ base.kind # "whole"

\* A restore is at the files of the database with a base backup that was cut:
\* the script looks for a file named base.tar.gz, not whether it is complete.
GoesByHalf == pc \in {"wipe", "untar"} /\ base.kind = "partial"

\* The last copy is only taken by a purge the administrator agreed to or by a
\* restore that goes by half a base backup: in no other way, whatever fails, is
\* interrupted or goes on in the container, are both the cluster and a whole
\* base backup of it gone.
LastCopyKept == [][AllLost' => (AllLost \/ pc = "purge" \/ GoesByHalf)]_vars

\* Enabling and rebasing leave a database that ran running.
DatabaseRunsAgain ==
  [][(Return /\ cmd \in {"enable", "rebase"} /\ wasRunning /\ ~disturbed)
       => dbOn']_vars

\* A restore does not wait for ever for a database that runs.
RestoreEnds ==
  (pc = "wait" /\ ~disturbed) ~> (pc # "wait" \/ disturbed \/ ~dbOn)

\* What disable asks the administrator to agree to, "Database service needs to
\* be restarted to reload backup configurations, continue": it is.
DisableRestartsDatabase ==
  [][(Return /\ cmd \in {"disable", "disable --purge-volume"} /\ wasRunning
        /\ ~disturbed) => dbOn']_vars
=============================================================================
