---------------------- MODULE ContinuousArchivingProofs ----------------------
(***************************************************************************)
(* Proofs about ContinuousArchiving, for any number of writes.             *)
(***************************************************************************)
EXTENDS ContinuousArchiving, WellFoundedInduction, TLAPS

(* TypeOK in three parts: the flags, what is on disk and the rest.         *)

FlagsOK ==
  /\ dbOn \in BOOLEAN /\ loaded \in BOOLEAN /\ dropIn \in BOOLEAN
  /\ wasRunning \in BOOLEAN /\ disturbed \in BOOLEAN

DiskOK ==
  /\ data \in Data /\ pending \in SUBSET Segment
  /\ base \in Base /\ archive \in SUBSET Segment

CallOK ==
  /\ script \in {"none", "clear", "base", "done", "failed"}
  /\ pc \in {"idle", "stop", "dropin", "conf", "purge", "start", "exec",
             "script", "restop", "wipe", "untar", "signal", "wait", "ok"}
  /\ cmd \in {"none", "enable", "disable", "disable --purge-volume", "rebase",
              "restore"}
  /\ last \in 0 .. MaxWrites
  /\ gap \in SUBSET {"off", "removed"}
  /\ promised \in SUBSET Write

LEMMA TypeParts == TypeOK <=> FlagsOK /\ DiskOK /\ CallOK
BY DEF TypeOK, FlagsOK, DiskOK, CallOK

LEMMA ConstantsTyped ==
  /\ NewCluster \in Data /\ Wiped \in Data /\ Broken \in Data
  /\ NoBase \in Base /\ PartialBase \in Base
BY DEF NewCluster, Wiped, Broken, NoBase, PartialBase, Data, Base

\* The writes made so far, and one more.
LEMMA WritesTyped ==
  ASSUME last \in 0 .. MaxWrites
  PROVE  /\ last \in Nat /\ 1 .. last \subseteq Write
         /\ last < MaxWrites => (last + 1 \in Write /\ last + 1 \in 0 .. MaxWrites)
BY MaxWritesAssumption DEF Write

LEMMA InitTyped == Init => TypeOK
<1> SUFFICES ASSUME Init PROVE TypeOK
  OBVIOUS
<1>1. FlagsOK
  BY Zenon DEF Init, FlagsOK
<1>2. DiskOK
  BY ConstantsTyped, Zenon DEF Init, DiskOK
<1>3. CallOK
  BY MaxWritesAssumption DEF Init, CallOK
<1>4. QED
  BY <1>1, <1>2, <1>3, TypeParts

\* A start of the database, whatever it leads to.
LEMMA DBStartTyped ==
  ASSUME TypeOK, DBStarts \/ DBStays
  PROVE  /\ dbOn' \in BOOLEAN /\ loaded' \in BOOLEAN
         /\ data' \in Data /\ pending' \in SUBSET Segment
         /\ gap' \in SUBSET {"off", "removed"}
<1> USE TypeParts
<1>1. data.on \in BOOLEAN
  BY DEF DiskOK, Data
<1>2. dbOn' \in BOOLEAN /\ loaded' \in BOOLEAN
  BY <1>1, Zenon DEF DBStarts, DBStays, FlagsOK
<1>3. [data EXCEPT !.kind = "cluster"] \in Data
  BY DEF DiskOK, Data
<1>4. data' \in Data
  BY <1>3, ConstantsTyped, Zenon DEF DBStarts, DBStays, DiskOK
<1>5. pending' \in SUBSET Segment
  BY DEF DBStarts, DBStays, DiskOK
<1>6. gap' \in SUBSET {"off", "removed"}
  BY DEF DBStarts, DBStays, CallOK
<1>7. QED
  BY <1>2, <1>4, <1>5, <1>6

LEMMA FlagsStep == TypeOK /\ [Next]_vars => FlagsOK'
<1> SUFFICES ASSUME TypeOK, FlagsOK, [Next]_vars PROVE FlagsOK'
  BY TypeParts
<1> USE DEF FlagsOK, Goto, Fail, backup, history, call
<1>1. CASE StopService
  BY <1>1, Zenon DEF StopService, DBStops
<1>2. CASE GenerateBackupVolumeConfig
  BY <1>2, Zenon DEF GenerateBackupVolumeConfig
<1>3. CASE UpdatePostgresConfig
  BY <1>3, Zenon DEF UpdatePostgresConfig
<1>4. CASE PurgeVolume
  BY <1>4, Zenon DEF PurgeVolume
<1>5. CASE StartService \/ Revive
  <2>1. /\ DBStarts \/ DBStays
        /\ dropIn' = dropIn /\ wasRunning' = wasRunning
    BY <1>5, Zenon DEF StartService, Revive
  <2>2. dbOn' \in BOOLEAN /\ loaded' \in BOOLEAN
    BY <2>1, DBStartTyped
  <2>3. disturbed' \in BOOLEAN
    BY <1>5, Zenon DEF StartService, Revive
  <2>4. QED
    BY <2>1, <2>2, <2>3, Zenon
<1>6. CASE ExecScript
  BY <1>6, Zenon DEF ExecScript
<1>7. CASE ScriptReturns
  BY <1>7, Zenon DEF ScriptReturns
<1>8. CASE StopAgain
  BY <1>8, Zenon DEF StopAgain, DBStops
<1>9. CASE RemoveCluster
  BY <1>9, Zenon DEF RemoveCluster
<1>10. CASE RestoreBase
  BY <1>10, Zenon DEF RestoreBase
<1>11. CASE SignalRecovery
  BY <1>11, Zenon DEF SignalRecovery
<1>12. CASE WaitForRecovery
  BY <1>12, Zenon DEF WaitForRecovery
<1>13. CASE Return
  BY <1>13, Zenon DEF Return
<1>14. CASE RemoveOldBackup
  BY <1>14, Zenon DEF RemoveOldBackup
<1>15. CASE BaseBackup
  BY <1>15, Zenon DEF BaseBackup
<1>16. CASE Recover
  BY <1>16, Zenon DEF Recover
<1>17. CASE Command
  BY <1>17, Zenon DEF Command, Enable, Disable, Rebase, Restore, Begin
<1>18. CASE ServerWrites
  BY <1>18, Zenon DEF ServerWrites
<1>19. CASE Archive
  BY <1>19, Zenon DEF Archive
<1>20. CASE Interrupt
  BY <1>20, Zenon DEF Interrupt
<1>21. CASE ContainerDies
  BY <1>21, Zenon DEF ContainerDies, DBStops
<1>23. CASE UNCHANGED vars
  BY <1>23, Zenon DEF vars
<1>24. QED
  BY <1>1, <1>2, <1>3, <1>4, <1>5, <1>6, <1>7, <1>8, <1>9, <1>10, <1>11, <1>12,
     <1>13, <1>14, <1>15, <1>16, <1>17, <1>18, <1>19, <1>20, <1>21, <1>23, Zenon
     DEF Next, Step, Script, World

\* What a script that stops with the container leaves.
LEMMA HalfWrittenTyped ==
  ASSUME TypeOK, base' \in HalfWritten \/ ScriptStops
  PROVE  base' \in Base
BY ConstantsTyped, TypeParts DEF HalfWritten, ScriptStops, DiskOK

LEMMA DiskStep == TypeOK /\ [Next]_vars => DiskOK'
<1> SUFFICES ASSUME TypeOK, DiskOK, CallOK, [Next]_vars PROVE DiskOK'
  BY TypeParts
<1> USE DEF backup
<1>1. CASE StopService \/ StopAgain \/ ContainerDies
  <2>1. base' \in Base
    BY <1>1, HalfWrittenTyped DEF StopService, StopAgain, ContainerDies, DBStops,
       DiskOK
  <2>2. UNCHANGED <<data, pending, archive>>
    BY <1>1 DEF StopService, StopAgain, ContainerDies
  <2>3. QED
    BY <2>1, <2>2 DEF DiskOK
<1>2. CASE UpdatePostgresConfig
  <2>1. /\ Updated \in Data
        /\ [data EXCEPT !.on = FALSE, !.restore = FALSE] \in Data
    BY DEF Updated, DiskOK, Data
  <2>2. QED
    BY <1>2, <2>1, Zenon DEF UpdatePostgresConfig, DiskOK
<1>3. CASE PurgeVolume
  BY <1>3, ConstantsTyped DEF PurgeVolume, DiskOK
<1>4. CASE StartService \/ Revive
  <2>1. (DBStarts \/ DBStays) /\ UNCHANGED <<base, archive>>
    BY <1>4, Zenon DEF StartService, Revive
  <2>2. QED
    BY <2>1, DBStartTyped DEF DiskOK
<1>5. CASE RemoveCluster
  BY <1>5, ConstantsTyped DEF RemoveCluster, DiskOK
<1>6. CASE RestoreBase
  <2>1. [kind |-> "copy", has |-> base.has, on |-> TRUE,
         restore |-> base.restore, signal |-> FALSE] \in Data
    BY DEF DiskOK, Base, Data
  <2>2. QED
    BY <1>6, <2>1, ConstantsTyped, Zenon DEF RestoreBase, DiskOK
<1>7. CASE SignalRecovery
  BY <1>7 DEF SignalRecovery, DiskOK, Data
<1>8. CASE RemoveOldBackup
  BY <1>8, ConstantsTyped DEF RemoveOldBackup, DiskOK
<1>9. CASE BaseBackup
  <2>1. [kind |-> "whole", has |-> data.has, restore |-> data.restore] \in Base
    BY DEF DiskOK, Base, Data
  <2>2. base' \in Base
    BY <1>9, <2>1, HalfWrittenTyped, Zenon DEF BaseBackup
  <2>3. QED
    BY <1>9, <2>2 DEF BaseBackup, DiskOK
<1>10. CASE Recover
  <2>1. [data EXCEPT !.kind = "cluster", !.signal = FALSE] \in Data
    BY DEF DiskOK, Data
  <2>2. \A s \in archive : [data EXCEPT !.has = @ \cup {s[2]}] \in Data
    BY DEF DiskOK, Data, Segment
  <2>3. QED
    BY <1>10, <2>1, <2>2, Zenon DEF Recover, DiskOK
<1>11. CASE ServerWrites
  <2>0. last < MaxWrites
    BY <1>11, Zenon DEF ServerWrites
  <2>1. last + 1 \in Write
    BY <2>0, WritesTyped, Zenon DEF CallOK
  <2>2. [data EXCEPT !.has = @ \cup {last + 1}] \in Data
    BY <2>1 DEF DiskOK, Data
  <2>3. <<data.has, last + 1>> \in Segment
    BY <2>1 DEF DiskOK, Data, Segment
  <2>4. QED
    BY <1>11, <2>2, <2>3 DEF ServerWrites, DiskOK
<1>12. CASE Archive
  BY <1>12 DEF Archive, DiskOK
<1>13. CASE Interrupt
  BY <1>13 DEF Interrupt, DiskOK
<1>14. CASE \/ GenerateBackupVolumeConfig \/ ExecScript \/ ScriptReturns
            \/ WaitForRecovery \/ Return \/ Command \/ UNCHANGED vars
  BY <1>14 DEF GenerateBackupVolumeConfig, ExecScript, ScriptReturns,
     WaitForRecovery, Return, Command, Enable, Disable, Rebase, Restore, Begin,
     vars, DiskOK
<1>15. QED
  BY <1>1, <1>2, <1>3, <1>4, <1>5, <1>6, <1>7, <1>8, <1>9, <1>10, <1>11, <1>12,
     <1>13, <1>14, Zenon DEF Next, Step, Script, World

LEMMA CallStep == TypeOK /\ [Next]_vars => CallOK'
<1> SUFFICES ASSUME TypeOK, DiskOK, CallOK, [Next]_vars PROVE CallOK'
  BY TypeParts
<1> USE DEF CallOK, Goto, Fail, history, call
<1>1. CASE StopService
  BY <1>1 DEF StopService, DBStops, ScriptStops
<1>2. CASE GenerateBackupVolumeConfig \/ PurgeVolume
  BY <1>2 DEF GenerateBackupVolumeConfig, PurgeVolume
<1>3. CASE UpdatePostgresConfig
  BY <1>3 DEF UpdatePostgresConfig
<1>4. CASE StartService
  <2>1. gap' \in SUBSET {"off", "removed"}
    BY <1>4, DBStartTyped, Zenon DEF StartService
  <2>2. QED
    BY <1>4, <2>1 DEF StartService
<1>5. CASE Revive
  <2>1. gap' \in SUBSET {"off", "removed"}
    BY <1>5, DBStartTyped, Zenon DEF Revive
  <2>2. QED
    BY <1>5, <2>1 DEF Revive
<1>6. CASE ExecScript \/ ScriptReturns \/ WaitForRecovery \/ Return
  BY <1>6 DEF ExecScript, ScriptReturns, WaitForRecovery, Return
<1>7. CASE StopAgain \/ ContainerDies
  BY <1>7 DEF StopAgain, ContainerDies, DBStops, ScriptStops
<1>8. CASE RemoveCluster
  <2>1. \A S \in SUBSET (1 .. last) : S \in SUBSET Write
    BY WritesTyped, Zenon
  <2>2. Archived \in SUBSET Write
    BY <2>1, Zenon DEF Archived
  <2>3. QED
    BY <1>8, <2>2 DEF RemoveCluster
<1>9. CASE RestoreBase \/ SignalRecovery
  BY <1>9 DEF RestoreBase, SignalRecovery
<1>10. CASE RemoveOldBackup \/ BaseBackup
  BY <1>10 DEF RemoveOldBackup, BaseBackup, ScriptEnds
<1>11. CASE Recover
  BY <1>11 DEF Recover
<1>12. CASE ServerWrites
  <2>1. last < MaxWrites /\ last' = last + 1
    BY <1>12, Zenon DEF ServerWrites
  <2>2. last' \in 0 .. MaxWrites
    BY <2>1, WritesTyped, Zenon
  <2>3. UNCHANGED <<script, pc, cmd, gap, promised>>
    BY <1>12, Zenon DEF ServerWrites
  <2>4. QED
    BY <2>2, <2>3
<1>13. CASE Archive \/ Interrupt
  BY <1>13 DEF Archive, Interrupt
<1>14. CASE Command
  BY <1>14 DEF Command, Enable, Disable, Rebase, Restore, Begin
<1>15. CASE UNCHANGED vars
  BY <1>15 DEF vars
<1>16. QED
  BY <1>1, <1>2, <1>3, <1>4, <1>5, <1>6, <1>7, <1>8, <1>9, <1>10, <1>11, <1>12,
     <1>13, <1>14, <1>15, Zenon DEF Next, Step, Script, World

\* Type correctness, whatever the number of writes.
THEOREM Typed == Spec => []TypeOK
<1>1. TypeOK /\ [Next]_vars => TypeOK'
  <2>1. FlagsOK' /\ DiskOK' /\ CallOK' => TypeOK'
    BY DEF TypeOK, FlagsOK, DiskOK, CallOK
  <2>2. QED
    BY <2>1, FlagsStep, DiskStep, CallStep
<1>2. QED
  BY InitTyped, <1>1, PTL DEF Spec

-----------------------------------------------------------------------------
(* The inductive invariant *)

\* Writes come in order: everything held was made, and what a segment follows
\* was made before it.
InOrder ==
  /\ data.has \subseteq 1 .. last /\ base.has \subseteq 1 .. last
  /\ \A s \in archive \cup pending : s[2] \in 1 .. last /\ \A v \in s[1] : v < s[2]

\* What the steps of a command imply about it.
StepsFit ==
  /\ pc \in {"exec", "script", "restop"} => cmd \in {"enable", "rebase"}
  /\ (pc # "idle" /\ cmd = "rebase") => pc \in {"start", "exec", "script", "restop", "ok"}
  /\ pc = "purge" => cmd = "disable --purge-volume"
  /\ pc \in {"wipe", "untar", "signal", "wait"} => cmd = "restore"
  /\ pc = "restop" => ~wasRunning

\* The database writes to a cluster, or recovers one, that is to be archived.
Archiving ==
  /\ data.kind = "cluster" \/ (data.kind = "copy" /\ data.signal)
  /\ data.on
  /\ dbOn => loaded

\* A script runs in such a database, and never beside a step of a command that
\* changes the configuration or the files.
ScriptFits ==
  /\ script \in {"clear", "base"}
       => pc \in {"idle", "stop", "script"} /\ dbOn /\ Archiving
  /\ script \in {"done", "failed"} => pc = "script"
  /\ pc = "script" => Archiving

\* A base backup that was just made fits to the archive.
BaseFits ==
  /\ script = "done" => base.kind = "whole" /\ gap = {}
  /\ (pc \in {"restop", "ok"} /\ cmd \in {"enable", "rebase"})
       => base.kind = "whole" /\ gap = {} /\ Archiving

\* A rebase starts the database it found configured.
RebaseFits ==
  /\ (cmd = "rebase" /\ pc \in {"start", "exec"})
       => /\ data.kind \in {"cluster", "copy"} /\ data.on
          /\ dbOn => loaded
  /\ (dbOn /\ data.kind = "copy") => data.signal

\* The files go only when there is a base backup.
BaseThere == pc = "untar" => base.kind # "none"

\* The archive continues the base backup.
ChainFits ==
  /\ (base.kind = "whole" /\ gap = {} /\ data.kind = "cluster")
       => /\ data.on /\ (dbOn => loaded)
          /\ Restorable(data.has, archive \cup pending)
  /\ (base.kind = "whole" /\ "removed" \notin gap /\ data.kind = "copy")
       => Restorable(data.has, archive)

IInv == /\ TypeOK /\ InOrder /\ StepsFit /\ ScriptFits /\ BaseFits /\ RebaseFits
        /\ BaseThere /\ ChainFits

LEMMA InitInvariant == Init => IInv
<1> SUFFICES ASSUME Init PROVE IInv
  OBVIOUS
<1>1. InOrder
  BY DEF Init, InOrder, NewCluster, NoBase
<1>2. StepsFit /\ ScriptFits /\ BaseFits /\ BaseThere
  BY DEF Init, StepsFit, ScriptFits, BaseFits, BaseThere
<1>3. RebaseFits /\ ChainFits
  BY DEF Init, RebaseFits, ChainFits, NewCluster, NoBase
<1>4. QED
  BY <1>1, <1>2, <1>3, InitTyped DEF IInv

LEMMA StepsFitStep == IInv /\ [Next]_vars => StepsFit'
<1> SUFFICES ASSUME TypeOK, StepsFit, [Next]_vars PROVE StepsFit'
  BY DEF IInv
<1> USE DEF StepsFit, Goto, Fail, call, history, backup
<1>1. CASE StopService
  BY <1>1 DEF StopService
<1>2. CASE GenerateBackupVolumeConfig \/ PurgeVolume
  BY <1>2 DEF GenerateBackupVolumeConfig, PurgeVolume
<1>3. CASE UpdatePostgresConfig
  BY <1>3 DEF UpdatePostgresConfig
<1>4. CASE StartService
  BY <1>4 DEF StartService
<1>5. CASE ExecScript \/ StopAgain \/ Return
  BY <1>5 DEF ExecScript, StopAgain, Return
<1>11. CASE ScriptReturns
  <2>1. pc = "script" /\ UNCHANGED <<cmd, wasRunning>>
    BY <1>11, Zenon DEF ScriptReturns
  <2>2. pc' \in {"idle", "ok"} \/ (pc' = "restop" /\ ~wasRunning)
    BY <1>11, Zenon DEF ScriptReturns
  <2>3. QED
    BY <2>1, <2>2
<1>6. CASE RemoveCluster \/ RestoreBase \/ SignalRecovery \/ WaitForRecovery
  BY <1>6 DEF RemoveCluster, RestoreBase, SignalRecovery, WaitForRecovery
<1>7. CASE Command
  BY <1>7 DEF Command, Enable, Disable, Rebase, Restore, Begin
<1>8. CASE Interrupt
  BY <1>8 DEF Interrupt
<1>9. CASE \/ RemoveOldBackup \/ BaseBackup \/ Recover \/ ServerWrites \/ Archive
           \/ ContainerDies \/ Revive \/ UNCHANGED vars
  <2>1. UNCHANGED <<pc, cmd, wasRunning>>
    BY <1>9, Zenon DEF RemoveOldBackup, BaseBackup, Recover, ServerWrites,
       Archive, ContainerDies, Revive, vars
  <2>2. QED
    BY <2>1
<1>10. QED
  BY <1>1, <1>2, <1>3, <1>4, <1>5, <1>6, <1>7, <1>8, <1>9, <1>11, Zenon
     DEF Next, Step, Script, World

\* What a start of the database does to the facts the invariant is about.
LEMMA StartFacts ==
  ASSUME TypeOK, DBStarts \/ DBStays
  PROVE  /\ data'.has = data.has \/ data'.has = {}
         /\ pending' = pending \/ pending' = {}
         /\ gap \subseteq gap'
         /\ dbOn => UNCHANGED <<dbOn, loaded, data, pending, gap>>
<1> USE TypeParts DEF DiskOK, CallOK
<1>1. data.has \subseteq Write
  BY DEF Data
<1>2. [data EXCEPT !.kind = "cluster"].has = data.has /\ NewCluster.has = {}
  BY DEF Data, NewCluster
<1>3. data'.has = data.has \/ data'.has = {}
  BY <1>2, Zenon DEF DBStarts, DBStays
<1>4. pending' = pending \/ pending' = {}
  BY Zenon DEF DBStarts, DBStays
<1>5. gap \subseteq gap'
  BY DEF DBStarts, DBStays
<1>6. dbOn => UNCHANGED <<dbOn, loaded, data, pending, gap>>
  BY Zenon DEF DBStarts, DBStays
<1>7. QED
  BY <1>3, <1>4, <1>5, <1>6

\* A start of a database that does not run, for each content of the data volume.
LEMMA StartCases ==
  ASSUME DBStarts, ~dbOn
  PROVE  /\ data.kind = "wiped" => data' = NewCluster /\ gap' = gap \cup {"off"}
         /\ Startable => \/ data' = data /\ data.signal
                         \/ data' = [data EXCEPT !.kind = "cluster"]
         /\ ~Startable /\ data.kind # "wiped" => UNCHANGED <<dbOn, data>>
<1>1. ASSUME data.kind = "wiped" PROVE data' = NewCluster /\ gap' = gap \cup {"off"}
  <2>1. ~Startable
    BY <1>1 DEF Startable
  <2>2. QED
    BY <1>1, <2>1, Zenon DEF DBStarts
<1>2. ASSUME Startable
      PROVE  \/ data' = data /\ data.signal
             \/ data' = [data EXCEPT !.kind = "cluster"]
  <2>1. data.kind # "wiped"
    BY <1>2 DEF Startable
  <2>2. data' = IF data.signal THEN data ELSE [data EXCEPT !.kind = "cluster"]
    BY <1>2, <2>1, Zenon DEF DBStarts
  <2>3. QED
    BY <2>2, Zenon
<1>3. ASSUME ~Startable, data.kind # "wiped" PROVE UNCHANGED <<dbOn, data>>
  BY <1>3, Zenon DEF DBStarts
<1>4. QED
  BY <1>1, <1>2, <1>3, Zenon

LEMMA InOrderStep == IInv /\ [Next]_vars => InOrder'
<1> SUFFICES ASSUME TypeOK, DiskOK, CallOK, InOrder, [Next]_vars PROVE InOrder'
  BY TypeParts DEF IInv
<1> USE DEF history, backup
<1>1. CASE StopService \/ StopAgain \/ ContainerDies
  <2>1. base' = base \/ base' = PartialBase
    BY <1>1, Zenon DEF StopService, StopAgain, ContainerDies, DBStops, ScriptStops,
       HalfWritten
  <2>2. UNCHANGED <<data, pending, archive, last>>
    BY <1>1 DEF StopService, StopAgain, ContainerDies
  <2>3. QED
    BY <2>1, <2>2 DEF InOrder, PartialBase, NoBase
<1>2. CASE UpdatePostgresConfig
  <2>1. data'.has = data.has
    BY <1>2 DEF UpdatePostgresConfig, Updated, DiskOK, Data
  <2>2. QED
    BY <1>2, <2>1 DEF UpdatePostgresConfig, InOrder
<1>3. CASE PurgeVolume
  BY <1>3 DEF PurgeVolume, InOrder, NoBase
<1>4. CASE StartService \/ Revive
  <2>1. (DBStarts \/ DBStays) /\ UNCHANGED <<base, archive, last>>
    BY <1>4, Zenon DEF StartService, Revive
  <2>2. QED
    BY <2>1, StartFacts DEF InOrder
<1>5. CASE RemoveCluster
  BY <1>5 DEF RemoveCluster, InOrder, Broken, Wiped, NewCluster
<1>6. CASE RestoreBase
  <2>1. data'.has = base.has \/ data'.has = {}
    BY <1>6 DEF RestoreBase, Broken, NewCluster
  <2>2. QED
    BY <1>6, <2>1 DEF RestoreBase, InOrder
<1>7. CASE SignalRecovery
  BY <1>7 DEF SignalRecovery, InOrder, DiskOK, Data
<1>8. CASE RemoveOldBackup
  BY <1>8 DEF RemoveOldBackup, InOrder, NoBase
<1>9. CASE BaseBackup
  <2>1. base'.has \in {base.has, data.has, {}}
    BY <1>9 DEF BaseBackup, HalfWritten, PartialBase, NoBase
  <2>2. QED
    BY <1>9, <2>1 DEF BaseBackup, InOrder
<1>10. CASE Recover
  <2>1. data'.has = data.has \/ \E s \in archive : data'.has = data.has \cup {s[2]}
    BY <1>10 DEF Recover, DiskOK, Data
  <2>2. QED
    BY <1>10, <2>1 DEF Recover, InOrder
<1>11. CASE ServerWrites
  <2>1. /\ last' = last + 1 /\ UNCHANGED <<base, archive>>
        /\ \/ pending' = pending \/ pending' = pending \cup {<<data.has, last + 1>>}
    BY <1>11, Zenon DEF ServerWrites
  <2>2. data'.has = data.has \cup {last + 1}
    BY <1>11 DEF ServerWrites, DiskOK, Data
  <2>3. last \in Nat
    BY WritesTyped, Zenon DEF CallOK
  <2>4. QED
    BY <2>1, <2>2, <2>3 DEF InOrder
<1>12. CASE Archive
  BY <1>12 DEF Archive, InOrder
<1>13. CASE Interrupt
  BY <1>13 DEF Interrupt, InOrder
<1>14. CASE \/ GenerateBackupVolumeConfig \/ ExecScript \/ ScriptReturns
            \/ WaitForRecovery \/ Return \/ Command \/ UNCHANGED vars
  <2>1. UNCHANGED <<data, base, archive, pending, last>>
    BY <1>14 DEF GenerateBackupVolumeConfig, ExecScript, ScriptReturns,
       WaitForRecovery, Return, Command, Enable, Disable, Rebase, Restore, Begin,
       vars
  <2>2. QED
    BY <2>1 DEF InOrder
<1>15. QED
  BY <1>1, <1>2, <1>3, <1>4, <1>5, <1>6, <1>7, <1>8, <1>9, <1>10, <1>11, <1>12,
     <1>13, <1>14, Zenon DEF Next, Step, Script, World

LEMMA BaseThereStep == IInv /\ [Next]_vars => BaseThere'
<1> SUFFICES ASSUME TypeOK, DiskOK, CallOK, StepsFit, ScriptFits, BaseThere,
                    [Next]_vars
             PROVE  BaseThere'
  BY TypeParts DEF IInv
<1> USE DEF BaseThere, Goto, Fail, backup
<1>1. CASE RemoveCluster
  BY <1>1 DEF RemoveCluster
<1>2. CASE StopService \/ StopAgain
  BY <1>2 DEF StopService, StopAgain
<1>3. CASE ContainerDies
  <2>1. base' = base \/ base' = PartialBase
    BY <1>3, Zenon DEF ContainerDies, DBStops, ScriptStops, HalfWritten
  <2>2. pc' = pc
    BY <1>3 DEF ContainerDies
  <2>3. QED
    BY <2>1, <2>2 DEF PartialBase, NoBase
<1>4. CASE RemoveOldBackup \/ BaseBackup
  <2>1. pc # "untar" /\ pc' = pc
    BY <1>4 DEF RemoveOldBackup, BaseBackup, ScriptFits
  <2>2. QED
    BY <2>1
<1>5. CASE \/ GenerateBackupVolumeConfig \/ UpdatePostgresConfig \/ PurgeVolume
           \/ StartService \/ ExecScript \/ ScriptReturns \/ RestoreBase
           \/ SignalRecovery \/ WaitForRecovery \/ Return \/ Interrupt
  <2>1. pc' # "untar"
    BY <1>5 DEF GenerateBackupVolumeConfig, UpdatePostgresConfig, PurgeVolume,
       StartService, ExecScript, ScriptReturns, RestoreBase, SignalRecovery,
       WaitForRecovery, Return, Interrupt
  <2>2. QED
    BY <2>1
<1>6. CASE Command
  <2>1. pc' # "untar"
    BY <1>6 DEF Command, Enable, Disable, Rebase, Restore, Begin
  <2>2. QED
    BY <2>1
<1>7. CASE Recover \/ ServerWrites \/ Archive \/ Revive \/ UNCHANGED vars
  BY <1>7 DEF Recover, ServerWrites, Archive, Revive, vars
<1>8. QED
  BY <1>1, <1>2, <1>3, <1>4, <1>5, <1>6, <1>7, Zenon DEF Next, Step, Script, World

\* Archiving goes on when the database is started, stopped or recovered.
LEMMA ArchivingKept ==
  ASSUME TypeOK, Archiving, RebaseFits
  PROVE  /\ (DBStarts \/ DBStays) => Archiving' /\ gap' = gap
         /\ (dbOn' = FALSE /\ data' = data) => Archiving'
         /\ Recover => Archiving'
<1> USE TypeParts DEF DiskOK, CallOK, Data
<1>1. ASSUME DBStarts \/ DBStays PROVE Archiving' /\ gap' = gap
  <2>1. CASE dbOn
    <3>1. UNCHANGED <<dbOn, loaded, data, gap>>
      BY <1>1, <2>1, StartFacts, Zenon
    <3>2. QED
      BY <3>1 DEF Archiving
  <2>2. CASE ~dbOn
    <3>1. data.kind # "wiped" /\ (data.kind = "copy" => data.signal)
      BY DEF Archiving
    <3>2. /\ \/ data' = data
             \/ data' = [data EXCEPT !.kind = "cluster"]
          /\ gap' = gap
      BY <1>1, <3>1, Zenon DEF DBStarts, DBStays
    <3>3. dbOn' => loaded'
      BY <1>1, <2>2, <3>1, Zenon DEF DBStarts, DBStays, Archiving
    <3>4. QED
      BY <3>2, <3>3 DEF Archiving
  <2>3. QED
    BY <2>1, <2>2
<1>2. ASSUME dbOn' = FALSE, data' = data PROVE Archiving'
  BY <1>2 DEF Archiving
<1>3. ASSUME Recover PROVE Archiving'
  <2>1. UNCHANGED <<dbOn, loaded>>
    BY <1>3, Zenon DEF Recover
  <2>2. \/ data' = [data EXCEPT !.kind = "cluster", !.signal = FALSE]
        \/ \E s \in archive : data' = [data EXCEPT !.has = @ \cup {s[2]}]
    BY <1>3, Zenon DEF Recover
  <2>3. data'.on = data.on
    BY <2>2
  <2>4. data'.kind = "cluster" \/ (data'.kind = data.kind /\ data'.signal = data.signal)
    BY <2>2
  <2>5. QED
    BY <2>1, <2>3, <2>4, Zenon DEF Archiving
<1>4. QED
  BY <1>1, <1>2, <1>3

\* A write changes nothing of what Archiving speaks about.
LEMMA ArchivingFrame ==
  ASSUME TypeOK, UNCHANGED <<dbOn, loaded>>,
         data' = data \/ data' = [data EXCEPT !.has = @ \cup {last + 1}]
  PROVE  Archiving' <=> Archiving
<1>1. data'.kind = data.kind /\ data'.signal = data.signal /\ data'.on = data.on
  BY TypeParts DEF DiskOK, Data
<1>2. QED
  BY <1>1, Zenon DEF Archiving

\* The steps a command takes beside a script that runs, or has just ended.
LEMMA NoScriptBeside ==
  ASSUME CallOK, ScriptFits, pc \notin {"idle", "stop", "script"}
  PROVE  script = "none"
BY DEF CallOK, ScriptFits

LEMMA ScriptFitsStep == IInv /\ [Next]_vars => ScriptFits'
<1> SUFFICES ASSUME TypeOK, DiskOK, CallOK, StepsFit, ScriptFits, RebaseFits,
                    [Next]_vars
             PROVE  ScriptFits'
  BY TypeParts DEF IInv
<1> USE DEF Goto, Fail, call, history, backup
<1>1. CASE StopService
  <2>1. pc = "stop" /\ script \in {"none", "clear", "base"}
    BY <1>1 DEF StopService, ScriptFits, CallOK
  <2>2. pc' # "script"
    BY <1>1 DEF StopService
  <2>3. \/ script' = "none"
        \/ UNCHANGED <<dbOn, loaded, data, script>> /\ pc' = "idle"
    BY <1>1, <2>1 DEF StopService, DBStops, ScriptStops
  <2>4. CASE script' = "none"
    BY <2>2, <2>4 DEF ScriptFits
  <2>5. CASE UNCHANGED <<dbOn, loaded, data, script>> /\ pc' = "idle"
    <3>1. Archiving' <=> Archiving
      BY <2>5, ArchivingFrame, Zenon
    <3>2. QED
      BY <2>1, <2>5, <3>1 DEF ScriptFits
  <2>6. QED
    BY <2>3, <2>4, <2>5
<1>2. CASE \/ GenerateBackupVolumeConfig \/ UpdatePostgresConfig \/ PurgeVolume
           \/ StartService \/ StopAgain \/ RemoveCluster \/ RestoreBase
           \/ SignalRecovery \/ WaitForRecovery \/ Return
  <2>1. pc \notin {"idle", "stop", "script"} /\ pc' # "script"
    BY <1>2 DEF GenerateBackupVolumeConfig, UpdatePostgresConfig, PurgeVolume,
       StartService, StopAgain, RemoveCluster, RestoreBase, SignalRecovery,
       WaitForRecovery, Return
  <2>2. script = "none"
    BY <2>1, NoScriptBeside
  <2>3. script' = "none"
    BY <1>2, <2>2 DEF GenerateBackupVolumeConfig, UpdatePostgresConfig, PurgeVolume,
       StartService, StopAgain, RemoveCluster, RestoreBase, SignalRecovery,
       WaitForRecovery, Return, DBStops, ScriptStops
  <2>4. QED
    BY <2>1, <2>3 DEF ScriptFits
<1>3. CASE ExecScript
  <2>1. UNCHANGED <<dbOn, loaded, data>> /\ pc = "exec"
    BY <1>3, Zenon DEF ExecScript
  <2>2. \/ dbOn /\ (cmd = "enable" => CheckStatus) /\ script' = "clear" /\ pc' = "script"
        \/ script' = script /\ pc' = "idle"
    BY <1>3, Zenon DEF ExecScript
  <2>3. CASE script' = script /\ pc' = "idle"
    <3>1. script = "none"
      BY <2>1, NoScriptBeside
    <3>2. QED
      BY <2>3, <3>1 DEF ScriptFits
  <2>4. CASE dbOn /\ (cmd = "enable" => CheckStatus) /\ script' = "clear" /\ pc' = "script"
    <3>1. cmd \in {"enable", "rebase"}
      BY <2>1 DEF StepsFit
    <3>2. data.kind \in {"cluster", "copy"} /\ data.on /\ loaded
      BY <2>1, <2>4, <3>1, Zenon DEF CheckStatus, RebaseFits
    <3>3. data.kind = "copy" => data.signal
      BY <2>4, Zenon DEF RebaseFits
    <3>4. Archiving
      BY <3>2, <3>3 DEF Archiving
    <3>5. Archiving'
      BY <2>1, <3>4, ArchivingFrame, Zenon
    <3>6. dbOn'
      BY <2>1, <2>4, Zenon
    <3>7. QED
      BY <2>4, <3>5, <3>6 DEF ScriptFits
  <2>5. QED
    BY <2>2, <2>3, <2>4
<1>4. CASE ScriptReturns
  <2>1. script' = "none" /\ pc' # "script"
    BY <1>4 DEF ScriptReturns
  <2>2. QED
    BY <2>1 DEF ScriptFits
<1>5. CASE RemoveOldBackup \/ BaseBackup
  <2>1. UNCHANGED <<dbOn, loaded, data, pc>>
    BY <1>5, Zenon DEF RemoveOldBackup, BaseBackup
  <2>2. script \in {"clear", "base"}
        /\ (script' = "base" \/ script' = (IF pc = "script" THEN "done" ELSE "none")
            \/ script' = (IF pc = "script" THEN "failed" ELSE "none"))
    BY <1>5 DEF RemoveOldBackup, BaseBackup, ScriptEnds
  <2>3. Archiving' <=> Archiving
    BY <2>1, ArchivingFrame, Zenon
  <2>4. QED
    BY <2>1, <2>2, <2>3 DEF ScriptFits
<1>6. CASE Recover
  <2>1. UNCHANGED <<dbOn, script, pc>>
    BY <1>6, Zenon DEF Recover
  <2>2. Archiving => Archiving'
    BY <1>6, ArchivingKept
  <2>3. QED
    BY <2>1, <2>2 DEF ScriptFits
<1>7. CASE Command
  <2>1. UNCHANGED <<dbOn, loaded, data, script>> /\ pc = "idle" /\ pc' # "script"
    BY <1>7 DEF Command, Enable, Disable, Rebase, Restore, Begin
  <2>2. script \in {"clear", "base"} => pc' = "stop"
    BY <1>7, <2>1 DEF Command, Enable, Disable, Rebase, Restore, Begin, ScriptFits
  <2>3. Archiving' <=> Archiving
    BY <2>1, ArchivingFrame, Zenon
  <2>4. QED
    BY <2>1, <2>2, <2>3 DEF ScriptFits
<1>8. CASE ServerWrites \/ Archive \/ UNCHANGED vars
  <2>1. UNCHANGED <<dbOn, loaded, script, pc>>
    BY <1>8, Zenon DEF ServerWrites, Archive, vars
  <2>2. data' = data \/ data' = [data EXCEPT !.has = @ \cup {last + 1}]
    BY <1>8, Zenon DEF ServerWrites, Archive, vars
  <2>3. Archiving' <=> Archiving
    BY <2>1, <2>2, ArchivingFrame, Zenon
  <2>4. QED
    BY <2>1, <2>3 DEF ScriptFits
<1>9. CASE Interrupt
  <2>1. UNCHANGED <<dbOn, loaded, data>> /\ pc' = "idle"
    BY <1>9, Zenon DEF Interrupt
  <2>2. script' \notin {"done", "failed"} /\ (script' \in {"clear", "base"} => script' = script)
    BY <1>9 DEF Interrupt
  <2>3. Archiving' <=> Archiving
    BY <2>1, ArchivingFrame, Zenon
  <2>4. QED
    BY <2>1, <2>2, <2>3 DEF ScriptFits
<1>10. CASE ContainerDies
  <2>1. dbOn' = FALSE /\ UNCHANGED <<data, pc>>
    BY <1>10, Zenon DEF ContainerDies, DBStops
  <2>2. Archiving => Archiving'
    BY <2>1, ArchivingKept
  <2>3. script' \notin {"clear", "base"} /\ (script' \in {"done", "failed"} => pc = "script")
    BY <1>10 DEF ContainerDies, DBStops, ScriptStops, ScriptFits
  <2>4. QED
    BY <2>1, <2>2, <2>3 DEF ScriptFits
<1>11. CASE Revive
  <2>1. UNCHANGED <<script, pc>> /\ ~dbOn /\ DBStarts
    BY <1>11, Zenon DEF Revive
  <2>2. Archiving => Archiving'
    BY <2>1, ArchivingKept
  <2>3. script \notin {"clear", "base"}
    BY <2>1 DEF ScriptFits
  <2>4. QED
    BY <2>1, <2>2, <2>3 DEF ScriptFits
<1>12. QED
  BY <1>1, <1>2, <1>3, <1>4, <1>5, <1>6, <1>7, <1>8, <1>9, <1>10, <1>11, Zenon
     DEF Next, Step, Script, World

LEMMA BaseFitsStep == IInv /\ [Next]_vars => BaseFits'
<1> SUFFICES ASSUME TypeOK, DiskOK, CallOK, StepsFit, ScriptFits, RebaseFits, BaseFits,
                    [Next]_vars
             PROVE  BaseFits'
  BY TypeParts DEF IInv
<1> USE DEF Goto, Fail, call, history, backup
<1>1. CASE \/ StopService \/ GenerateBackupVolumeConfig \/ UpdatePostgresConfig
           \/ PurgeVolume \/ StartService \/ RemoveCluster \/ RestoreBase
           \/ SignalRecovery \/ WaitForRecovery \/ Return \/ ExecScript \/ Command
  <2>1. pc \notin {"script", "restop"} /\ script' # "done"
    <3>1. pc \notin {"script", "restop"}
      BY <1>1 DEF StopService, GenerateBackupVolumeConfig, UpdatePostgresConfig,
         PurgeVolume, StartService, RemoveCluster, RestoreBase, SignalRecovery,
         WaitForRecovery, Return, ExecScript, Command, Enable, Disable, Rebase,
         Restore, Begin
    <3>2. script # "done"
      BY <3>1 DEF ScriptFits
    <3>3. script' \in {script, "clear", "none", "failed"}
      BY <1>1 DEF StopService, GenerateBackupVolumeConfig, UpdatePostgresConfig,
         PurgeVolume, StartService, RemoveCluster, RestoreBase, SignalRecovery,
         WaitForRecovery, Return, ExecScript, Command, Enable, Disable, Rebase,
         Restore, Begin, DBStops, ScriptStops
    <3>4. QED
      BY <3>1, <3>2, <3>3
  <2>2. ~(pc' \in {"restop", "ok"} /\ cmd' \in {"enable", "rebase"})
    BY <1>1 DEF StopService, GenerateBackupVolumeConfig, UpdatePostgresConfig,
       PurgeVolume, StartService, RemoveCluster, RestoreBase, SignalRecovery,
       WaitForRecovery, Return, ExecScript, Command, Enable, Disable, Rebase,
       Restore, Begin, StepsFit
  <2>3. QED
    BY <2>1, <2>2 DEF BaseFits
<1>2. CASE ScriptReturns
  <2>1. UNCHANGED <<dbOn, loaded, data, base, gap>> /\ script' = "none"
    BY <1>2, Zenon DEF ScriptReturns
  <2>2. pc = "script" /\ (pc' \in {"restop", "ok"} => script = "done")
    BY <1>2 DEF ScriptReturns
  <2>3. Archiving'
    BY <2>1, <2>2, ArchivingFrame DEF ScriptFits
  <2>4. QED
    BY <2>1, <2>2, <2>3 DEF BaseFits
<1>3. CASE StopAgain
  <2>1. pc = "restop" /\ UNCHANGED <<loaded, data, gap, cmd>>
    BY <1>3 DEF StopAgain
  <2>2. script = "none"
    BY <2>1, NoScriptBeside
  <2>3. script' = "none" /\ base' = base /\ (dbOn' = FALSE \/ dbOn' = dbOn)
    BY <1>3, <2>2 DEF StopAgain, DBStops, ScriptStops
  <2>4. base.kind = "whole" /\ gap = {} /\ Archiving
    BY <2>1 DEF BaseFits, StepsFit
  <2>5. Archiving'
    BY <2>1, <2>3, <2>4, ArchivingKept, ArchivingFrame, Zenon
  <2>6. QED
    BY <2>1, <2>3, <2>4, <2>5 DEF BaseFits
<1>4. CASE RemoveOldBackup
  <2>1. pc \in {"idle", "stop", "script"} /\ UNCHANGED <<pc, cmd>> /\ script' = "base"
    BY <1>4 DEF RemoveOldBackup, ScriptFits
  <2>2. QED
    BY <2>1 DEF BaseFits
<1>5. CASE BaseBackup
  <2>1. pc \in {"idle", "stop", "script"} /\ UNCHANGED <<pc, cmd>>
    BY <1>5 DEF BaseBackup, ScriptFits
  <2>2. script' = "done" => base'.kind = "whole" /\ gap' = {}
    BY <1>5 DEF BaseBackup, ScriptEnds
  <2>3. QED
    BY <2>1, <2>2 DEF BaseFits
<1>6. CASE Recover
  <2>1. UNCHANGED <<dbOn, loaded, base, script, pc, cmd>> /\ dbOn
    BY <1>6, Zenon DEF Recover, Recovering
  <2>2. Archiving => Archiving'
    BY <1>6, ArchivingKept
  <2>3. Archiving /\ gap = {} => gap' = {}
    BY <1>6, <2>1 DEF Recover, Archiving
  <2>4. script = "done" => Archiving
    BY DEF ScriptFits
  <2>5. QED
    BY <2>1, <2>2, <2>3, <2>4 DEF BaseFits
<1>7. CASE ServerWrites \/ Archive \/ UNCHANGED vars
  <2>1. UNCHANGED <<dbOn, loaded, base, gap, script, pc, cmd>>
    BY <1>7, Zenon DEF ServerWrites, Archive, vars
  <2>2. data' = data \/ data' = [data EXCEPT !.has = @ \cup {last + 1}]
    BY <1>7, Zenon DEF ServerWrites, Archive, vars
  <2>3. Archiving' <=> Archiving
    BY <2>1, <2>2, ArchivingFrame, Zenon
  <2>4. QED
    BY <2>1, <2>3 DEF BaseFits
<1>8. CASE Interrupt
  <2>1. pc' = "idle" /\ script' # "done"
    BY <1>8 DEF Interrupt
  <2>2. QED
    BY <2>1 DEF BaseFits
<1>9. CASE ContainerDies
  <2>1. dbOn' = FALSE /\ UNCHANGED <<data, gap, pc, cmd>>
    BY <1>9, Zenon DEF ContainerDies, DBStops
  <2>2. Archiving => Archiving'
    BY <2>1, ArchivingKept
  <2>3. /\ script' = "done" => script = "done"
        /\ base' = base \/ (base = NoBase /\ base' = PartialBase)
    BY <1>9 DEF ContainerDies, DBStops, ScriptStops, HalfWritten
  <2>4. base.kind = "whole" => base' = base
    BY <2>3 DEF NoBase
  <2>5. QED
    BY <2>1, <2>2, <2>3, <2>4 DEF BaseFits
<1>10. CASE Revive
  <2>1. UNCHANGED <<base, script, pc, cmd>> /\ DBStarts
    BY <1>10, Zenon DEF Revive
  <2>2. Archiving => Archiving' /\ gap' = gap
    BY <2>1, ArchivingKept
  <2>3. script = "done" => Archiving
    BY DEF ScriptFits
  <2>4. QED
    BY <2>1, <2>2, <2>3 DEF BaseFits
<1>11. QED
  BY <1>1, <1>2, <1>3, <1>4, <1>5, <1>6, <1>7, <1>8, <1>9, <1>10, Zenon
     DEF Next, Step, Script, World

LEMMA RebaseFitsStep == IInv /\ [Next]_vars => RebaseFits'
<1> SUFFICES ASSUME TypeOK, DiskOK, CallOK, StepsFit, ScriptFits, RebaseFits,
                    [Next]_vars
             PROVE  RebaseFits'
  BY TypeParts DEF IInv
<1> USE DEF Goto, Fail, call, history, backup
<1>1. CASE StopService
  <2>1. UNCHANGED <<loaded, data, cmd>> /\ pc = "stop" /\ pc' \notin {"start", "exec"}
    BY <1>1 DEF StopService
  <2>2. dbOn' = FALSE \/ dbOn' = dbOn
    BY <1>1, Zenon DEF StopService, DBStops
  <2>3. QED
    BY <2>1, <2>2 DEF RebaseFits
<1>2. CASE UpdatePostgresConfig
  <2>1. UNCHANGED <<dbOn, loaded, cmd>> /\ pc = "conf"
    BY <1>2, Zenon DEF UpdatePostgresConfig
  <2>2. data'.kind = data.kind /\ data'.signal = data.signal
    BY <1>2 DEF UpdatePostgresConfig, Updated, DiskOK, Data
  <2>3. cmd # "rebase"
    BY <2>1 DEF StepsFit
  <2>4. QED
    BY <2>1, <2>2, <2>3 DEF RebaseFits
<1>3. CASE StartService \/ Revive
  <2>1. DBStarts \/ DBStays
    BY <1>3, Zenon DEF StartService, Revive
  <2>2. cmd' = cmd /\ (pc' = pc \/ (pc = "start" /\ pc' # "start"))
    BY <1>3 DEF StartService, Revive
  <2>3. pc' \in {"start", "exec"} => pc \in {"start", "exec"}
    BY <2>2
  <2>4. (dbOn' /\ data'.kind = "copy") => data'.signal
    <3>1. dbOn => UNCHANGED <<dbOn, data>>
      BY <2>1, StartFacts, Zenon
    <3>2. ASSUME ~dbOn, dbOn'
          PROVE  \/ data' = NewCluster
                 \/ data' = [data EXCEPT !.kind = "cluster"]
                 \/ data' = data /\ data.signal
      <4>1. DBStays => dbOn' = dbOn
        BY Zenon DEF DBStays
      <4>2. QED
        BY <2>1, <3>2, <4>1, StartCases, Zenon
    <3>3. NewCluster.kind = "cluster" /\ [data EXCEPT !.kind = "cluster"].kind = "cluster"
      BY DEF NewCluster, DiskOK, Data
    <3>4. CASE dbOn
      BY <3>1, <3>4, Zenon DEF RebaseFits
    <3>5. CASE ~dbOn
      BY <3>2, <3>3, <3>5
    <3>6. QED
      BY <3>4, <3>5
  <2>5. ASSUME data.kind \in {"cluster", "copy"}, data.on, dbOn => loaded
        PROVE  data'.kind \in {"cluster", "copy"} /\ data'.on /\ (dbOn' => loaded')
    <3>1. data'.kind \in {"cluster", "copy"} /\ data'.on
      BY <2>1, <2>5 DEF DBStarts, DBStays, DiskOK, Data
    <3>2. dbOn' => loaded'
      BY <2>1, <2>5, Zenon DEF DBStarts, DBStays
    <3>3. QED
      BY <3>1, <3>2
  <2>6. QED
    BY <2>2, <2>3, <2>4, <2>5 DEF RebaseFits
<1>4. CASE StopAgain \/ ContainerDies
  <2>1. UNCHANGED <<loaded, data, cmd>> /\ (pc' = pc \/ pc' = "ok")
    BY <1>4 DEF StopAgain, ContainerDies
  <2>2. dbOn' = FALSE \/ dbOn' = dbOn
    BY <1>4, Zenon DEF StopAgain, ContainerDies, DBStops
  <2>3. QED
    BY <2>1, <2>2 DEF RebaseFits
<1>5. CASE RemoveCluster \/ RestoreBase \/ SignalRecovery
  <2>1. UNCHANGED <<dbOn, loaded, cmd>> /\ pc' \notin {"start", "exec"}
    BY <1>5 DEF RemoveCluster, RestoreBase, SignalRecovery
  <2>2. (dbOn /\ data'.kind = "copy") => data'.signal
    BY <1>5 DEF RemoveCluster, RestoreBase, SignalRecovery, RebaseFits, Broken,
       Wiped, NewCluster, DiskOK, Data
  <2>3. QED
    BY <2>1, <2>2 DEF RebaseFits
<1>6. CASE Recover
  <2>1. UNCHANGED <<dbOn, loaded, pc, cmd>>
    BY <1>6, Zenon DEF Recover
  <2>2. /\ data'.on = data.on /\ data'.kind \in {"cluster", data.kind}
        /\ data'.kind = "copy" => data'.signal = data.signal
    BY <1>6 DEF Recover, DiskOK, Data
  <2>3. QED
    BY <2>1, <2>2 DEF RebaseFits
<1>7. CASE Command
  <2>1. UNCHANGED <<dbOn, loaded, data>>
    BY <1>7 DEF Command, Enable, Disable, Rebase, Restore, Begin
  <2>2. cmd' = "rebase" => CheckStatus
    BY <1>7 DEF Command, Enable, Disable, Rebase, Restore, Begin
  <2>3. QED
    BY <2>1, <2>2 DEF RebaseFits, CheckStatus
<1>8. CASE ServerWrites
  <2>1. UNCHANGED <<dbOn, loaded, pc, cmd>>
    BY <1>8, Zenon DEF ServerWrites
  <2>2. data'.on = data.on /\ data'.kind = data.kind /\ data'.signal = data.signal
    BY <1>8 DEF ServerWrites, DiskOK, Data
  <2>3. QED
    BY <2>1, <2>2 DEF RebaseFits
<1>9. CASE \/ GenerateBackupVolumeConfig \/ PurgeVolume \/ ExecScript \/ ScriptReturns
           \/ WaitForRecovery \/ Return \/ Interrupt
  <2>1. UNCHANGED <<dbOn, loaded, data, cmd>> /\ pc' # "exec"
    BY <1>9 DEF GenerateBackupVolumeConfig, PurgeVolume, ExecScript, ScriptReturns,
       WaitForRecovery, Return, Interrupt
  <2>2. cmd # "rebase" \/ pc' # "start"
    BY <1>9 DEF GenerateBackupVolumeConfig, PurgeVolume, ExecScript, ScriptReturns,
       WaitForRecovery, Return, Interrupt, StepsFit
  <2>3. QED
    BY <2>1, <2>2 DEF RebaseFits
<1>10. CASE RemoveOldBackup \/ BaseBackup \/ Archive \/ UNCHANGED vars
  <2>1. UNCHANGED <<dbOn, loaded, data, pc, cmd>>
    BY <1>10 DEF RemoveOldBackup, BaseBackup, Archive, vars
  <2>2. QED
    BY <2>1 DEF RebaseFits
<1>11. QED
  BY <1>1, <1>2, <1>3, <1>4, <1>5, <1>6, <1>7, <1>8, <1>9, <1>10, Zenon
     DEF Next, Step, Script, World

\* A chain goes on with a write that is later than all of it.
LEMMA ChainGrows ==
  ASSUME InOrder, last \in Nat, NEW segments, NEW more, NEW w \in Nat,
         Restorable(data.has, segments), segments \subseteq more,
         <<data.has, w>> \in more, \A v \in data.has : v < w
  PROVE  Restorable(data.has \cup {w}, more)
<1> DEFINE S == data.has \cup {w}
<1>1. base.has \subseteq S
  BY DEF Restorable
<1>2. ASSUME NEW x \in S \ base.has PROVE <<{v \in S : v < x}, x>> \in more
  <2>1. data.has \subseteq Nat
    BY DEF InOrder
  <2>2. CASE x = w
    <3>1. {v \in S : v < x} = data.has
      BY <2>1, <2>2
    <3>2. QED
      BY <2>2, <3>1
  <2>3. CASE x # w
    <3>1. x \in data.has /\ x < w /\ x \in Nat
      BY <2>1, <2>3
    <3>2. {v \in S : v < x} = {v \in data.has : v < x}
      BY <2>1, <3>1
    <3>3. <<{v \in data.has : v < x}, x>> \in segments
      BY <1>2, <3>1 DEF Restorable
    <3>4. QED
      BY <3>2, <3>3
  <2>4. QED
    BY <2>2, <2>3
<1>3. QED
  BY <1>1, <1>2 DEF Restorable

LEMMA ChainFitsStep == IInv /\ [Next]_vars => ChainFits'
<1> SUFFICES ASSUME TypeOK, FlagsOK, DiskOK, CallOK, InOrder, ScriptFits, RebaseFits, ChainFits,
                    [Next]_vars
             PROVE  ChainFits'
  BY TypeParts DEF IInv
<1> USE DEF Goto, Fail, call, history, backup
<1>0. last \in Nat
  BY WritesTyped, Zenon DEF CallOK
<1>1. CASE StopService \/ StopAgain \/ ContainerDies
  <2>1. UNCHANGED <<loaded, data, pending, archive, gap>>
    BY <1>1 DEF StopService, StopAgain, ContainerDies
  <2>2. dbOn' = FALSE \/ dbOn' = dbOn
    BY <1>1, Zenon DEF StopService, StopAgain, ContainerDies, DBStops
  <2>3. base' = base \/ base' = PartialBase
    BY <1>1, Zenon DEF StopService, StopAgain, ContainerDies, DBStops, ScriptStops,
       HalfWritten
  <2>4. base'.kind = "whole" => base' = base
    BY <2>3 DEF PartialBase, NoBase
  <2>5. QED
    BY <2>1, <2>2, <2>4 DEF ChainFits, Restorable
<1>2. CASE UpdatePostgresConfig
  <2>1. UNCHANGED <<dbOn, loaded, base, archive, pending>>
    BY <1>2, Zenon DEF UpdatePostgresConfig
  <2>2. data'.kind = data.kind /\ data'.has = data.has
    BY <1>2 DEF UpdatePostgresConfig, Updated, DiskOK, Data
  <2>3. gap \subseteq gap' /\ (gap' = {} /\ data.on => data'.on)
    BY <1>2 DEF UpdatePostgresConfig
  <2>4. QED
    BY <2>1, <2>2, <2>3 DEF ChainFits, Restorable
<1>3. CASE PurgeVolume
  <2>1. UNCHANGED <<dbOn, loaded, data, pending, gap>>
    BY <1>3, Zenon DEF PurgeVolume
  <2>2. base'.kind = "whole" => base' = base /\ archive' = archive
    BY <1>3 DEF PurgeVolume, NoBase
  <2>3. QED
    BY <2>1, <2>2 DEF ChainFits, Restorable
<1>4. CASE StartService \/ Revive
  <2>1. (DBStarts \/ DBStays) /\ UNCHANGED <<base, archive>>
    BY <1>4, Zenon DEF StartService, Revive
  <2>2. CASE UNCHANGED <<dbOn, loaded, data, pending, gap>>
    BY <2>1, <2>2 DEF ChainFits, Restorable
  <2>3. CASE gap' # gap
    <3>1. gap' # {}
      BY <2>1, <2>3, StartFacts DEF CallOK
    <3>2. data'.kind # "copy"
      BY <2>1, <2>3 DEF DBStarts, DBStays, NewCluster, DiskOK, Data
    <3>3. QED
      BY <3>1, <3>2 DEF ChainFits
  <2>4. CASE gap' = gap /\ ~dbOn /\ Startable /\ DBStarts
    <3>1. data.kind \in {"cluster", "copy"} /\ data.kind # "wiped"
      BY <2>4 DEF Startable
    <3>2. /\ loaded' = data.on
          /\ data.on => pending' = pending
          /\ data' = data \/ (~data.signal /\ data' = [data EXCEPT !.kind = "cluster"])
      BY <2>4, <3>1, Zenon DEF DBStarts
    <3>3. gap' = IF data.kind = "copy" /\ ~data.signal THEN gap \cup {"off"} ELSE gap
      BY <2>4, <3>1, Zenon DEF DBStarts
    <3>4. data'.has = data.has /\ data'.on = data.on
      BY <3>2 DEF DiskOK, Data
    <3>5. data'.kind = data.kind \/ "off" \in gap'
      BY <3>1, <3>2, <3>3 DEF DiskOK, Data
    <3>6. data'.kind = "copy" => data'.kind = data.kind
      BY <3>2 DEF DiskOK, Data
    <3>7. QED
      BY <2>1, <2>4, <3>2, <3>4, <3>5, <3>6 DEF ChainFits, Restorable
  <2>5. QED
    <3>1. \/ UNCHANGED <<dbOn, loaded, data, pending, gap>>
          \/ DBStarts /\ ~dbOn /\ (data.kind = "wiped" \/ Startable)
      BY <2>1, Zenon DEF DBStarts, DBStays
    <3>2. CASE DBStarts /\ ~dbOn /\ data.kind = "wiped"
      <4>1. data' = NewCluster /\ "off" \in gap'
        BY <3>2, StartCases
      <4>2. QED
        BY <4>1 DEF ChainFits, NewCluster
    <3>3. QED
      BY <3>1, <3>2, <2>2, <2>3, <2>4, Zenon
<1>5. CASE RemoveCluster
  <2>1. UNCHANGED <<dbOn, loaded, base, archive, gap>>
    BY <1>5, Zenon DEF RemoveCluster
  <2>2. data' \in {Wiped, Broken} \/ (data' = data /\ pending' = pending)
    BY <1>5, Zenon DEF RemoveCluster
  <2>3. QED
    BY <2>1, <2>2 DEF ChainFits, Restorable, Wiped, Broken, NewCluster
<1>6. CASE RestoreBase
  <2>1. UNCHANGED <<base, archive, gap>>
    BY <1>6, Zenon DEF RestoreBase
  <2>2. data' = Broken \/ (data'.kind = "copy" /\ data'.has = base.has)
    BY <1>6 DEF RestoreBase
  <2>3. QED
    BY <2>1, <2>2 DEF ChainFits, Restorable, Broken, NewCluster
<1>7. CASE SignalRecovery
  <2>1. UNCHANGED <<dbOn, loaded, base, archive, pending, gap>>
    BY <1>7, Zenon DEF SignalRecovery
  <2>2. data'.kind = data.kind /\ data'.has = data.has /\ data'.on = data.on
    BY <1>7 DEF SignalRecovery, DiskOK, Data
  <2>3. QED
    BY <2>1, <2>2 DEF ChainFits, Restorable
<1>8. CASE RemoveOldBackup
  <2>1. base' = NoBase \/ "removed" \in gap'
    BY <1>8 DEF RemoveOldBackup
  <2>2. QED
    BY <2>1 DEF ChainFits, NoBase
<1>9. CASE BaseBackup
  <2>1. UNCHANGED <<dbOn, loaded, data, pending, archive>> /\ script = "base"
    BY <1>9, Zenon DEF BaseBackup
  <2>2. \/ base'.kind = "whole" /\ base'.has = data.has
        \/ base' = base /\ gap' = gap
        \/ base' = PartialBase
    BY <1>9 DEF BaseBackup, HalfWritten
  <2>3. Archiving
    BY <2>1 DEF ScriptFits
  <2>4. CASE base'.kind = "whole" /\ base'.has = data.has
    BY <2>1, <2>3, <2>4 DEF ChainFits, Restorable, Archiving
  <2>5. CASE base' = base /\ gap' = gap
    BY <2>1, <2>5 DEF ChainFits, Restorable
  <2>6. CASE base' = PartialBase
    BY <2>6 DEF ChainFits, PartialBase, NoBase
  <2>7. QED
    BY <2>2, <2>4, <2>5, <2>6
<1>10. CASE Recover
  <2>1. UNCHANGED <<dbOn, loaded, base, archive, pending>> /\ data.kind = "copy"
    BY <1>10, Zenon DEF Recover, Recovering
  <2>2. CASE \E s \in archive :
               s[1] = data.has /\ data' = [data EXCEPT !.has = @ \cup {s[2]}] /\ gap' = gap
    <3>1. PICK s \in archive :
            s[1] = data.has /\ data' = [data EXCEPT !.has = @ \cup {s[2]}] /\ gap' = gap
      BY <2>2
    <3>2. s = <<data.has, s[2]>>
      BY <3>1 DEF DiskOK, Segment
    <3>3. s[2] \in Nat /\ \A v \in data.has : v < s[2]
      BY <3>1, <1>0 DEF InOrder
    <3>4. data'.kind = "copy" /\ data'.has = data.has \cup {s[2]}
      BY <2>1, <3>1 DEF DiskOK, Data
    <3>5. Restorable(data.has, archive) => Restorable(data.has \cup {s[2]}, archive)
      BY <1>0, <3>2, <3>3, ChainGrows
    <3>6. QED
      BY <2>1, <3>1, <3>4, <3>5 DEF ChainFits, Restorable
  <2>3. CASE /\ data' = [data EXCEPT !.kind = "cluster", !.signal = FALSE]
             /\ gap' = (gap \ {"off"}) \cup (IF loaded /\ data.on THEN {} ELSE {"off"})
    <3>1. data'.kind = "cluster" /\ data'.has = data.has /\ data'.on = data.on
      BY <2>3 DEF DiskOK, Data
    <3>2. gap' = {} => loaded /\ data.on /\ "removed" \notin gap
      BY <2>3
    <3>3. QED
      BY <2>1, <3>1, <3>2 DEF ChainFits, Restorable
  <2>4. QED
    BY <1>10, <2>2, <2>3, Zenon DEF Recover
<1>11. CASE ServerWrites
  <2>1. /\ UNCHANGED <<dbOn, loaded, base, archive, gap>>
        /\ dbOn /\ data.kind = "cluster"
        /\ loaded => pending' = pending \cup {<<data.has, last + 1>>}
    BY <1>11, Zenon DEF ServerWrites
  <2>2. /\ data'.kind = data.kind /\ data'.on = data.on
        /\ data'.has = data.has \cup {last + 1}
    BY <1>11 DEF ServerWrites, DiskOK, Data
  <2>3. \A v \in data.has : v < last + 1
    BY <1>0 DEF InOrder
  <2>4. ASSUME base.kind = "whole", gap = {}
        PROVE  /\ data.on /\ loaded
               /\ Restorable(data.has \cup {last + 1}, archive \cup pending')
    <3>1. data.on /\ loaded /\ Restorable(data.has, archive \cup pending)
      BY <2>1, <2>4, Zenon DEF ChainFits
    <3>2. /\ archive \cup pending \subseteq archive \cup pending'
          /\ <<data.has, last + 1>> \in archive \cup pending'
      BY <2>1, <3>1
    <3>3. last + 1 \in Nat
      BY <1>0
    <3>4. QED
      BY <1>0, <2>3, <3>1, <3>2, <3>3, ChainGrows
  <2>5. QED
    BY <2>1, <2>2, <2>4 DEF ChainFits, Restorable
<1>12. CASE Archive
  <2>1. UNCHANGED <<dbOn, loaded, data, base, gap>>
    BY <1>12, Zenon DEF Archive
  <2>2. archive \subseteq archive' /\ archive' \cup pending' = archive \cup pending
    BY <1>12 DEF Archive
  <2>3. QED
    BY <2>1, <2>2 DEF ChainFits, Restorable
<1>13. CASE Interrupt
  <2>1. UNCHANGED <<dbOn, loaded, data, pending, base, archive, gap>>
    BY <1>13 DEF Interrupt
  <2>2. QED
    BY <2>1 DEF ChainFits, Restorable
<1>14. CASE \/ GenerateBackupVolumeConfig \/ ExecScript \/ ScriptReturns
            \/ WaitForRecovery \/ Return \/ Command \/ UNCHANGED vars
  <2>1. UNCHANGED <<dbOn, loaded, data, pending, base, archive, gap>>
    BY <1>14 DEF GenerateBackupVolumeConfig, ExecScript, ScriptReturns,
       WaitForRecovery, Return, Command, Enable, Disable, Rebase, Restore, Begin,
       vars
  <2>2. QED
    BY <2>1 DEF ChainFits, Restorable
<1>15. QED
  BY <1>1, <1>2, <1>3, <1>4, <1>5, <1>6, <1>7, <1>8, <1>9, <1>10, <1>11, <1>12,
     <1>13, <1>14, Zenon DEF Next, Step, Script, World

LEMMA InvariantStep == IInv /\ [Next]_vars => IInv'
<1> SUFFICES ASSUME IInv, TypeOK, [Next]_vars PROVE IInv'
  BY DEF IInv
<1>1. TypeOK'
  <2>1. FlagsOK' /\ DiskOK' /\ CallOK' => TypeOK'
    BY DEF TypeOK, FlagsOK, DiskOK, CallOK
  <2>2. QED
    BY <2>1, FlagsStep, DiskStep, CallStep
<1>2. QED
  BY <1>1, InOrderStep, StepsFitStep, ScriptFitsStep, BaseFitsStep, RebaseFitsStep,
     BaseThereStep, ChainFitsStep DEF IInv

\* The inductive invariant holds, whatever the number of writes.
THEOREM Invariant == Spec => []IInv
BY InitInvariant, InvariantStep, PTL DEF Spec

\* Every write since the base backup can be brought back, whatever the number
\* of writes and whenever commands, scripts and the database are interrupted.
THEOREM ArchiveContinuous == Spec => []Continuous
<1>1. IInv => Continuous
  BY DEF IInv, ChainFits, Continuous
<1>2. QED
  BY Invariant, <1>1, PTL

\* An enable or a rebase that succeeds has made a base backup the archive fits to.
THEOREM BackupEnds == Spec => EndsWithBackup
<1>1. IInv /\ [Next]_vars
        => [(Return /\ cmd \in {"enable", "rebase"})
              => (base.kind = "whole" /\ gap = {})]_vars
  BY Zenon DEF IInv, BaseFits, Return
<1>2. QED
  BY Invariant, <1>1, PTL DEF Spec, EndsWithBackup

\* Only a purge and a restore from half a base backup take the last copy.
LEMMA LastCopyStep ==
  IInv /\ [Next]_vars
    => [AllLost' => (AllLost \/ pc = "purge" \/ GoesByHalf)]_vars
<1> SUFFICES ASSUME IInv, TypeOK, DiskOK, [Next]_vars, AllLost', ~AllLost,
                    pc # "purge", ~GoesByHalf
             PROVE  FALSE
  BY TypeParts DEF IInv
<1>0. base.kind \in {"none", "partial", "whole"}
  BY DEF DiskOK, Base
<1> USE DEF AllLost, backup
<1>1. CASE StopService \/ StopAgain \/ ContainerDies
  <2>1. data' = data
    BY <1>1 DEF StopService, StopAgain, ContainerDies
  <2>2. base' = base \/ base = NoBase
    BY <1>1, Zenon DEF StopService, StopAgain, ContainerDies, DBStops, ScriptStops,
       HalfWritten
  <2>3. QED
    BY <2>1, <2>2 DEF NoBase
<1>2. CASE UpdatePostgresConfig
  <2>1. data'.kind = data.kind /\ base' = base
    BY <1>2 DEF UpdatePostgresConfig, Updated, DiskOK, Data
  <2>2. QED
    BY <2>1
<1>3. CASE PurgeVolume
  BY <1>3 DEF PurgeVolume
<1>4. CASE StartService \/ Revive
  <2>1. (DBStarts \/ DBStays) /\ base' = base
    BY <1>4, Zenon DEF StartService, Revive
  <2>2. data'.kind = data.kind \/ data'.kind = "cluster"
    BY <2>1 DEF DBStarts, DBStays, NewCluster, DiskOK, Data
  <2>3. QED
    BY <2>1, <2>2
<1>5. CASE RemoveCluster
  <2>1. base' = base /\ (data' = data \/ base.kind # "none") /\ pc = "wipe"
    BY <1>5, Zenon DEF RemoveCluster
  <2>2. QED
    BY <1>0, <2>1 DEF GoesByHalf
<1>6. CASE RestoreBase
  <2>1. base' = base /\ base.kind # "none" /\ pc = "untar"
    BY <1>6 DEF RestoreBase, IInv, BaseThere
  <2>2. QED
    BY <1>0, <2>1 DEF GoesByHalf
<1>7. CASE SignalRecovery
  <2>1. data'.kind = data.kind /\ base' = base
    BY <1>7 DEF SignalRecovery, DiskOK, Data
  <2>2. QED
    BY <2>1
<1>8. CASE RemoveOldBackup
  <2>1. data' = data /\ script = "clear"
    BY <1>8, Zenon DEF RemoveOldBackup
  <2>2. data.kind \in {"cluster", "copy"}
    BY <2>1 DEF IInv, ScriptFits, Archiving
  <2>3. QED
    BY <2>1, <2>2
<1>9. CASE BaseBackup
  <2>1. data' = data /\ script = "base"
    BY <1>9, Zenon DEF BaseBackup
  <2>2. data.kind \in {"cluster", "copy"}
    BY <2>1 DEF IInv, ScriptFits, Archiving
  <2>3. QED
    BY <2>1, <2>2
<1>10. CASE Recover
  <2>1. data'.kind \in {"cluster", data.kind} /\ base' = base
    BY <1>10 DEF Recover, DiskOK, Data
  <2>2. QED
    BY <2>1
<1>11. CASE ServerWrites
  <2>1. data'.kind = data.kind /\ base' = base
    BY <1>11 DEF ServerWrites, DiskOK, Data
  <2>2. QED
    BY <2>1
<1>12. CASE \/ GenerateBackupVolumeConfig \/ ExecScript \/ ScriptReturns
            \/ WaitForRecovery \/ Return \/ Command \/ Archive \/ Interrupt
            \/ UNCHANGED vars
  <2>1. UNCHANGED <<data, base>>
    BY <1>12 DEF GenerateBackupVolumeConfig, ExecScript, ScriptReturns,
       WaitForRecovery, Return, Command, Enable, Disable, Rebase, Restore, Begin,
       Archive, Interrupt, vars
  <2>2. QED
    BY <2>1
<1>13. QED
  BY <1>1, <1>2, <1>3, <1>4, <1>5, <1>6, <1>7, <1>8, <1>9, <1>10, <1>11, <1>12, Zenon
     DEF Next, Step, Script, World

\* As long as the volume is not purged and no restore goes by half a base backup
\* there is the cluster or a whole backup of it.
THEOREM LastCopy == Spec => LastCopyKept
BY Invariant, LastCopyStep, PTL DEF Spec, LastCopyKept

\* A database that ran before an enable or a rebase runs from its restart on.
RunsFits ==
  (cmd \in {"enable", "rebase"} /\ wasRunning /\ ~disturbed
     /\ pc \in {"exec", "script", "ok"}) => dbOn

LEMMA RunsFitsStep == IInv /\ RunsFits /\ [Next]_vars => RunsFits'
<1> SUFFICES ASSUME IInv, RunsFits, [Next]_vars PROVE RunsFits'
  OBVIOUS
<1> USE DEF Goto, Fail, history, call, backup
<1>1. CASE StopService \/ GenerateBackupVolumeConfig \/ RemoveCluster
           \/ RestoreBase \/ SignalRecovery \/ Return \/ Interrupt
  <2>1. pc' \notin {"exec", "script", "ok"}
    BY <1>1 DEF StopService, GenerateBackupVolumeConfig, RemoveCluster,
       RestoreBase, SignalRecovery, Return, Interrupt
  <2>2. QED
    BY <2>1, Zenon DEF RunsFits
<1>2. CASE UpdatePostgresConfig \/ PurgeVolume \/ WaitForRecovery
  <2>1. cmd' = cmd
    BY <1>2, Zenon DEF UpdatePostgresConfig, PurgeVolume, WaitForRecovery
  <2>2. pc' \in {"exec", "script", "ok"} => cmd \notin {"enable", "rebase"}
    BY <1>2 DEF UpdatePostgresConfig, PurgeVolume, WaitForRecovery, IInv, StepsFit
  <2>3. QED
    BY <2>1, <2>2, Zenon DEF RunsFits
<1>3. CASE StartService
  <2>1. dbOn' \/ pc' \in {"idle", "wait"}
    BY <1>3, Zenon DEF StartService
  <2>2. pc' \in {"idle", "wait"} => pc' \notin {"exec", "script", "ok"}
    OBVIOUS
  <2>3. QED
    BY <2>1, <2>2, Zenon DEF RunsFits
<1>4. CASE ExecScript
  <2>1. dbOn' = dbOn /\ (dbOn \/ pc' = "idle")
    BY <1>4, Zenon DEF ExecScript
  <2>2. pc' = "idle" => pc' \notin {"exec", "script", "ok"}
    OBVIOUS
  <2>3. QED
    BY <2>1, <2>2, Zenon DEF RunsFits
<1>5. CASE ScriptReturns
  <2>1. UNCHANGED <<dbOn, cmd, wasRunning, disturbed>> /\ pc = "script"
    BY <1>5, Zenon DEF ScriptReturns
  <2>2. pc \in {"exec", "script", "ok"}
    BY <2>1
  <2>3. QED
    BY <2>1, <2>2, Zenon DEF RunsFits
<1>6. CASE StopAgain
  <2>1. UNCHANGED wasRunning /\ pc = "restop"
    BY <1>6, Zenon DEF StopAgain
  <2>2. ~wasRunning
    BY <2>1 DEF IInv, StepsFit
  <2>3. QED
    BY <2>1, <2>2, Zenon DEF RunsFits
<1>7. CASE Command
  <2>1. UNCHANGED dbOn
    BY <1>7, Zenon DEF Command, Enable, Disable, Rebase, Restore, Begin
  <2>2. pc' \in {"exec", "script", "ok"} => dbOn
    BY <1>7 DEF Command, Enable, Disable, Rebase, Restore, Begin
  <2>3. QED
    BY <2>1, <2>2, Zenon DEF RunsFits
<1>8. CASE ContainerDies \/ Revive
  BY <1>8, Zenon DEF ContainerDies, Revive, RunsFits
<1>9. CASE RemoveOldBackup \/ BaseBackup \/ Recover \/ ServerWrites \/ Archive
           \/ UNCHANGED vars
  <2>1. UNCHANGED <<dbOn, pc, cmd, wasRunning, disturbed>>
    BY <1>9, Zenon DEF RemoveOldBackup, BaseBackup, Recover, ServerWrites, Archive,
       vars
  <2>2. QED
    BY <2>1, Zenon DEF RunsFits
<1>10. QED
  BY <1>1, <1>2, <1>3, <1>4, <1>5, <1>6, <1>7, <1>8, <1>9, Zenon
     DEF Next, Step, Script, World

\* An enable or a rebase that succeeds leaves a database that ran running.
THEOREM DatabaseRuns == Spec => DatabaseRunsAgain
<1>1. Init => RunsFits
  BY DEF Init, RunsFits
<1>2. IInv /\ RunsFits /\ [Next]_vars
        => [(Return /\ cmd \in {"enable", "rebase"} /\ wasRunning /\ ~disturbed)
              => dbOn']_vars
  <2> SUFFICES ASSUME RunsFits, Return, cmd \in {"enable", "rebase"}, wasRunning,
                      ~disturbed
               PROVE  dbOn'
    BY Zenon
  <2>1. pc = "ok" /\ UNCHANGED dbOn
    BY Zenon DEF Return
  <2>2. pc \in {"exec", "script", "ok"}
    BY <2>1
  <2>3. QED
    BY <2>1, <2>2, Zenon DEF RunsFits
<1>3. QED
  BY Invariant, <1>1, RunsFitsStep, <1>2, PTL DEF Spec, DatabaseRunsAgain

-----------------------------------------------------------------------------
(* What a restore brings back *)

\* No write was made twice to the same database: recovery has no choice.
Unique == \A s, t \in archive : s[1] = t[1] => s = t

\* What a segment holds that is not in the base backup was made after it.
Late == \A s \in archive \cup pending : s[2] \in base.has \/ \A b \in base.has : b < s[2]

\* What waits to be archived is in the database.
Held == \A s \in pending : s[2] \in data.has

\* Nothing waits for it when the files have been removed, be it that the container was
\* started meanwhile.
Emptied ==
  pc = "untar" =>
    /\ pending = {} /\ data.kind # "copy"
    /\ data.kind = "cluster" => ~data.on /\ ~loaded

\* From the removal of the files on, what a restore has promised can be restored; from
\* the end of the recovery on it is there.
RestoreFits ==
  cmd = "restore" /\ ~disturbed =>
    /\ pc # "dropin"
    /\ pc \in {"wipe", "untar", "signal", "conf", "start"} => ~dbOn
    /\ pc \in {"untar", "signal", "conf", "start"} => promised \subseteq Archived /\ pending = {}
    /\ pc \in {"signal", "conf", "start"} =>
         data.kind = "copy" /\ base.kind = "whole" /\ data.has = base.has
    /\ pc \in {"conf", "start"} => data.signal
    /\ pc \in {"wait", "ok"} =>
         \/ /\ data.kind = "cluster" /\ ~data.signal /\ promised \subseteq data.has
         \/ /\ pc = "wait" /\ data.kind = "copy" /\ data.signal
            /\ Restorable(data.has, archive) /\ promised \subseteq Archived /\ pending = {}

\* Of two chains that are the same below a write that only one has, the other one ends there.
LEMMA ChainsPart ==
  ASSUME Unique, Late, NEW A \in SUBSET Nat, NEW B \in SUBSET Nat,
         Restorable(A, archive), Restorable(B, archive),
         NEW x \in A, x \notin B, {v \in A : v < x} = {v \in B : v < x}
  PROVE  \A y \in B : y < x
<1>1. SUFFICES ASSUME NEW z \in B, ~(z < x) PROVE FALSE
  OBVIOUS
<1> DEFINE Above == {y \in B : ~(y < x)}
<1>2. z \in Above /\ Above \subseteq Nat
  BY <1>1
<1>3. PICK y \in Above : \A k \in Above : ~ (<<k, y>> \in OpToRel(<, Nat))
  BY <1>2, NatLessThanWellFounded, WFMin
<1>4. \A k \in Above : ~ (k < y)
  BY <1>2, <1>3 DEF OpToRel
<1>5. y \in B /\ x < y /\ x \in Nat /\ y \in Nat
  <2>1. y \in B /\ ~(y < x) /\ x \in Nat /\ y \in Nat
    BY <1>2, <1>3
  <2>2. y # x
    BY <2>1
  <2>3. QED BY <2>1, <2>2
<1>6. {v \in B : v < y} = {v \in B : v < x}
  <2>1. \A v \in B : v < y => v < x
    BY <1>4
  <2>2. \A v \in B : v < x => v < y
    BY <1>5
  <2>3. QED BY <2>1, <2>2
<1>7. x \notin base.has /\ <<{v \in A : v < x}, x>> \in archive
  BY DEF Restorable
<1>8. CASE y \in base.has
  <2>1. \A b \in base.has : b < x
    BY <1>7 DEF Late
  <2>2. y < x
    BY <1>8, <2>1
  <2>3. QED BY <1>5, <2>2
<1>9. CASE y \notin base.has
  <2>1. <<{v \in B : v < y}, y>> \in archive
    BY <1>5, <1>9 DEF Restorable
  <2>2. <<{v \in B : v < y}, y>> = <<{v \in A : v < x}, x>>
    BY <1>6, <1>7, <2>1 DEF Unique
  <2>3. y = x
    BY <2>2
  <2>4. QED BY <1>5, <2>3
<1>10. QED BY <1>8, <1>9

\* A chain that no segment continues has all that can be restored.
LEMMA RecoveryEnds ==
  ASSUME InOrder, last \in Nat, Unique, Late, Restorable(data.has, archive),
         \A s \in archive : s[1] # data.has
  PROVE  Archived \subseteq data.has
<1> DEFINE D == data.has
<1>1. D \in SUBSET Nat
  BY DEF InOrder
<1>2. SUFFICES ASSUME NEW S \in SUBSET (1 .. last), Restorable(S, archive) PROVE S \subseteq D
  BY DEF Archived
<1>3. S \in SUBSET Nat
  OBVIOUS
<1> DEFINE Differ == {v \in Nat : (v \in S /\ v \notin D) \/ (v \in D /\ v \notin S)}
<1>4. SUFFICES ASSUME Differ # {} PROVE S \subseteq D
  BY <1>3
<1>5. PICK x \in Differ : \A k \in Differ : ~ (<<k, x>> \in OpToRel(<, Nat))
  BY <1>4, NatLessThanWellFounded, WFMin
<1>6. \A k \in Differ : ~ (k < x)
  BY <1>5 DEF OpToRel
<1>7. {v \in S : v < x} = {v \in D : v < x}
  BY <1>1, <1>3, <1>6
<1>8. CASE x \in S /\ x \notin D
  <2>1. \A y \in D : y < x
    BY <1>1, <1>2, <1>3, <1>7, <1>8, ChainsPart
  <2>2. {v \in S : v < x} = D
    BY <1>7, <2>1
  <2>3. x \notin base.has
    BY <1>8 DEF Restorable
  <2>4. <<{v \in S : v < x}, x>> \in archive
    BY <1>2, <1>8, <2>3 DEF Restorable
  <2>5. QED BY <2>2, <2>4
<1>9. CASE x \in D /\ x \notin S
  <2>1. {v \in D : v < x} = {v \in S : v < x}
    BY <1>7
  <2>2. \A y \in S : y < x
    BY <1>1, <1>2, <1>3, <1>9, <2>1, ChainsPart
  <2>3. QED BY <1>7, <2>2
<1>10. QED BY <1>5, <1>8, <1>9


LEMMA UniqueStep == Unique /\ [Next]_vars => Unique'
<1> SUFFICES ASSUME Unique, [Next]_vars PROVE Unique'
  OBVIOUS
<1>1. CASE Archive
  <2>1. PICK s \in pending : (\A t \in archive : t[1] # s[1]) /\ archive' = archive \cup {s}
    BY <1>1 DEF Archive
  <2>2. QED BY <2>1 DEF Unique
<1>2. CASE ~Archive
  <2>1. archive' \subseteq archive
    BY <1>2 DEF Next, Step, Script, Command, World, StopService, GenerateBackupVolumeConfig,
       UpdatePostgresConfig, PurgeVolume, StartService, ExecScript, ScriptReturns, StopAgain,
       RemoveCluster, RestoreBase, SignalRecovery, WaitForRecovery, Return, RemoveOldBackup,
       BaseBackup, Recover, Enable, Disable, Rebase, Restore, Begin, ServerWrites, Interrupt,
       ContainerDies, Revive, backup, vars
  <2>2. QED BY <2>1 DEF Unique
<1>3. QED BY <1>1, <1>2

LEMMA LateStep == IInv /\ Late /\ Held /\ [Next]_vars => Late'
<1> SUFFICES ASSUME TypeOK, DiskOK, CallOK, InOrder, Late, Held, [Next]_vars PROVE Late'
  BY TypeParts DEF IInv
<1> USE DEF history, backup
<1>1. CASE \/ StopService \/ StopAgain \/ ContainerDies \/ PurgeVolume \/ RemoveOldBackup
           \/ StartService \/ Revive \/ RemoveCluster
  <2>1. base' = base \/ base'.has = {}
    BY <1>1 DEF StopService, StopAgain, ContainerDies, PurgeVolume, RemoveOldBackup,
       StartService, Revive, RemoveCluster, DBStops, ScriptStops, HalfWritten, PartialBase, NoBase
  <2>2. pending' = pending \/ pending' = {}
    <3>1. CASE StartService \/ Revive
      <4>1. DBStarts \/ DBStays
        BY <3>1, Zenon DEF StartService, Revive
      <4>2. QED BY <4>1, StartFacts
    <3>2. CASE ~(StartService \/ Revive)
      BY <1>1, <3>2 DEF StopService, StopAgain, ContainerDies, PurgeVolume, RemoveOldBackup,
         RemoveCluster
    <3>3. QED BY <3>1, <3>2
  <2>3. archive' \subseteq archive
    BY <1>1 DEF StopService, StopAgain, ContainerDies, PurgeVolume, RemoveOldBackup,
       StartService, Revive, RemoveCluster
  <2>4. QED BY <2>1, <2>2, <2>3 DEF Late
<1>2. CASE BaseBackup
  <2>1. UNCHANGED <<pending, archive>>
    BY <1>2, Zenon DEF BaseBackup
  <2>2. CASE base'.has = data.has /\ archive = {}
    BY <2>1, <2>2 DEF Late, Held
  <2>3. CASE base' = base \/ base'.has = {}
    BY <2>1, <2>3 DEF Late
  <2>4. QED BY <1>2, <2>2, <2>3 DEF BaseBackup, HalfWritten, PartialBase, NoBase
<1>3. CASE ServerWrites
  <2>1. UNCHANGED <<base, archive>> /\ pending' \subseteq pending \cup {<<data.has, last + 1>>}
    BY <1>3 DEF ServerWrites
  <2>2. \A b \in base.has : b < last + 1
    <3>1. last \in Nat /\ \A b \in base.has : b \in 1 .. last
      BY WritesTyped DEF InOrder, CallOK
    <3>2. QED BY <3>1
  <2>3. QED BY <2>1, <2>2 DEF Late
<1>4. CASE Archive
  BY <1>4 DEF Archive, Late
<1>5. CASE \/ GenerateBackupVolumeConfig \/ UpdatePostgresConfig \/ ExecScript \/ ScriptReturns
           \/ RestoreBase \/ SignalRecovery \/ WaitForRecovery \/ Return \/ Command \/ Recover
           \/ Interrupt \/ UNCHANGED vars
  <2>1. UNCHANGED <<base, archive, pending>>
    BY <1>5, Zenon DEF GenerateBackupVolumeConfig, UpdatePostgresConfig, ExecScript,
       ScriptReturns, RestoreBase, SignalRecovery, WaitForRecovery, Return, Command, Enable,
       Disable, Rebase, Restore, Begin, Recover, Interrupt, vars
  <2>2. QED BY <2>1 DEF Late
<1>6. QED
  BY <1>1, <1>2, <1>3, <1>4, <1>5, Zenon DEF Next, Step, Script, World

LEMMA HeldStep == IInv /\ Held /\ Emptied /\ [Next]_vars => Held'
<1> SUFFICES ASSUME TypeOK, DiskOK, Held, Emptied, [Next]_vars PROVE Held'
  BY TypeParts DEF IInv
<1> USE DEF history, backup
<1>1. CASE StartService \/ Revive
  <2>1. DBStarts \/ DBStays
    BY <1>1, Zenon DEF StartService, Revive
  <2>2. CASE data'.has = data.has
    <3>1. pending' = pending \/ pending' = {}
      BY <2>1, StartFacts
    <3>2. QED BY <2>2, <3>1 DEF Held
  <2>3. CASE data'.has # data.has
    <3>1. DBStarts /\ data' = NewCluster /\ ~dbOn
      <4>1. DBStarts /\ ~dbOn
        BY <2>1, <2>3 DEF DBStarts, DBStays
      <4>2. [data EXCEPT !.kind = "cluster"].has = data.has
        BY DEF DiskOK, Data
      <4>3. QED BY <2>3, <4>1, <4>2, StartCases
    <3>2. pending' = {}
      <4>1. data.kind = "wiped"
        <5>1. [data EXCEPT !.kind = "cluster"].has = data.has
          BY DEF DiskOK, Data
        <5>2. QED BY <2>3, <3>1, <5>1, StartCases
      <4>2. ~Startable
        BY <4>1 DEF Startable
      <4>3. QED BY <3>1, <4>1, <4>2, Zenon DEF DBStarts
    <3>3. QED BY <3>2 DEF Held
  <2>4. QED BY <2>2, <2>3
<1>2. CASE UpdatePostgresConfig \/ SignalRecovery
  <2>1. data'.has = data.has /\ pending' = pending
    BY <1>2 DEF UpdatePostgresConfig, SignalRecovery, Updated, DiskOK, Data
  <2>2. QED BY <2>1 DEF Held
<1>3. CASE RemoveCluster \/ RestoreBase
  <2>1. pending' = {} \/ UNCHANGED <<data, pending>>
    BY <1>3 DEF RemoveCluster, RestoreBase, Emptied
  <2>2. QED BY <2>1 DEF Held
<1>4. CASE ServerWrites
  <2>1. data'.has = data.has \cup {last + 1} /\ pending' \subseteq pending \cup {<<data.has, last + 1>>}
    BY <1>4 DEF ServerWrites, DiskOK, Data
  <2>2. QED BY <2>1 DEF Held
<1>5. CASE Archive
  BY <1>5 DEF Archive, Held
<1>6. CASE Recover
  <2>1. pending' = pending /\ data.has \subseteq data'.has
    BY <1>6 DEF Recover, DiskOK, Data
  <2>2. QED BY <2>1 DEF Held
<1>7. CASE \/ StopService \/ GenerateBackupVolumeConfig \/ PurgeVolume \/ ExecScript
           \/ ScriptReturns \/ StopAgain \/ WaitForRecovery \/ Return \/ Script \/ Command
           \/ Interrupt \/ ContainerDies \/ UNCHANGED vars
  <2>1. UNCHANGED <<data, pending>>
    BY <1>7, Zenon DEF StopService, GenerateBackupVolumeConfig, PurgeVolume, ExecScript,
       ScriptReturns, StopAgain, WaitForRecovery, Return, Script, RemoveOldBackup, BaseBackup,
       Command, Enable, Disable, Rebase, Restore, Begin, Interrupt, ContainerDies, vars
  <2>2. QED BY <2>1 DEF Held
<1>8. QED
  BY <1>1, <1>2, <1>3, <1>4, <1>5, <1>6, <1>7, Zenon DEF Next, Step, World


LEMMA EmptiedStep == IInv /\ Emptied /\ [Next]_vars => Emptied'
<1> SUFFICES ASSUME TypeOK, DiskOK, Emptied, RebaseFits, [Next]_vars, pc' = "untar"
             PROVE  /\ pending' = {} /\ data'.kind # "copy"
                    /\ data'.kind = "cluster" => ~data'.on /\ ~loaded'
  BY TypeParts DEF IInv, Emptied
<1> USE DEF history, backup, Goto, Fail
<1>1. CASE RemoveCluster
  <2>1. pending' = {} /\ data' \in {Broken, Wiped}
    BY <1>1 DEF RemoveCluster
  <2>2. QED BY <2>1 DEF Broken, Wiped, NewCluster
<1>2. CASE Revive
  <2>1. DBStarts /\ ~dbOn /\ pc = "untar"
    BY <1>2, Zenon DEF Revive
  <2>2. pending' = {}
    BY <2>1, StartFacts DEF Emptied
  <2>3. CASE data.kind = "wiped"
    <3>1. data' = NewCluster
      BY <2>1, <2>3, StartCases
    <3>2. loaded' = FALSE
      BY <2>1, <2>3, Zenon DEF DBStarts, Startable
    <3>3. data'.kind # "copy" /\ data'.on = FALSE
      BY <3>1 DEF NewCluster
    <3>4. QED BY <2>2, <3>2, <3>3
  <2>4. CASE data.kind = "cluster"
    <3>1. data' = data \/ data' = [data EXCEPT !.kind = "cluster"]
      <4>1. Startable \/ (~Startable /\ data.kind # "wiped")
        BY <2>4
      <4>2. QED BY <2>1, <4>1, StartCases
    <3>2. data'.kind = "cluster" /\ data'.on = data.on
      BY <2>4, <3>1 DEF DiskOK, Data
    <3>3. data.on = FALSE /\ loaded = FALSE
      <4>1. data.on \in BOOLEAN /\ loaded \in BOOLEAN
        BY DEF DiskOK, Data, TypeOK
      <4>2. ~data.on /\ ~loaded
        BY <2>1, <2>4, Zenon DEF Emptied
      <4>3. QED BY <4>1, <4>2, Zenon
    <3>4. loaded' = data.on \/ loaded' = loaded
      <4>1. data.kind # "wiped"
        BY <2>4
      <4>2. QED BY <2>1, <4>1, Zenon DEF DBStarts
    <3>5. loaded' = FALSE
      BY <3>3, <3>4, Zenon
    <3>6. QED BY <2>2, <3>2, <3>3, <3>5
  <2>5. CASE data.kind \notin {"wiped", "cluster"}
    <3>1. ~Startable /\ data.kind # "wiped"
      BY <2>1, <2>5 DEF Startable, Emptied
    <3>2. data' = data
      BY <2>1, <3>1, StartCases
    <3>3. QED BY <2>1, <2>2, <2>5, <3>2 DEF Emptied
  <2>6. QED BY <2>3, <2>4, <2>5
<1>3. CASE ServerWrites
  <2>1. pc = "untar" /\ data.kind = "cluster" /\ loaded' = loaded
    BY <1>3 DEF ServerWrites
  <2>2. ~data.on /\ ~loaded /\ pending = {}
    BY <2>1, Zenon DEF Emptied
  <2>3. data'.on = data.on /\ data'.kind = data.kind
    BY <1>3 DEF ServerWrites, DiskOK, Data
  <2>4. pending' = {}
    BY <1>3, <2>2, Zenon DEF ServerWrites
  <2>5. data'.kind # "copy"
    BY <2>1, <2>3
  <2>6. QED BY <2>1, <2>2, <2>3, <2>4, <2>5, Zenon
<1>4. CASE Archive \/ Recover
  <2>1. pc = "untar"
    BY <1>4 DEF Archive, Recover
  <2>2. pending = {} /\ data.kind # "copy"
    BY <2>1 DEF Emptied
  <2>3. QED BY <1>4, <2>2 DEF Archive, Recover, Recovering
<1>5. CASE ContainerDies \/ RemoveOldBackup \/ BaseBackup \/ UNCHANGED vars
  <2>1. UNCHANGED <<data, pending, loaded, pc>>
    BY <1>5, Zenon DEF ContainerDies, RemoveOldBackup, BaseBackup, vars
  <2>2. QED BY <2>1, Zenon DEF Emptied
<1>6. CASE \/ StopService \/ GenerateBackupVolumeConfig \/ UpdatePostgresConfig \/ PurgeVolume
           \/ StartService \/ ExecScript \/ ScriptReturns \/ StopAgain \/ RestoreBase
           \/ SignalRecovery \/ WaitForRecovery \/ Return \/ Command \/ Interrupt
  <2>1. pc' # "untar"
    BY <1>6 DEF StopService, GenerateBackupVolumeConfig, UpdatePostgresConfig, PurgeVolume,
       StartService, ExecScript, ScriptReturns, StopAgain, RestoreBase, SignalRecovery,
       WaitForRecovery, Return, Command, Enable, Disable, Rebase, Restore, Begin, Interrupt
  <2>2. QED BY <2>1
<1>7. QED
  BY <1>1, <1>2, <1>3, <1>4, <1>5, <1>6, Zenon DEF Next, Step, Script, World


\* What can be restored does not change when nothing of it does.
LEMMA ArchivedKept ==
  ASSUME UNCHANGED <<base, archive, last>>
  PROVE  Archived' = Archived
BY DEF Archived, Restorable

\* A step of the recovery, or its end.
LEMMA RecoverFits ==
  ASSUME IInv, Unique, Late, RestoreFits, Recover
  PROVE  RestoreFits'
<1> SUFFICES ASSUME cmd = "restore", ~disturbed PROVE RestoreFits'
  BY Zenon DEF Recover, RestoreFits, call
<1>1. /\ dbOn /\ data.kind = "copy" /\ data.signal
      /\ UNCHANGED <<dbOn, pending, base, archive, pc, cmd, last, promised, disturbed>>
  BY DEF Recover, Recovering, backup, call, history
<1>2. CASE pc \notin {"wait", "ok"}
  <2>1. pc \notin {"dropin", "wipe", "untar", "signal", "conf", "start"}
    BY <1>1 DEF RestoreFits
  <2>2. QED BY <1>1, <1>2, <2>1 DEF RestoreFits
<1>3. CASE pc \in {"wait", "ok"}
  <2>1. pc = "wait" /\ Restorable(data.has, archive) /\ promised \subseteq Archived /\ pending = {}
    BY <1>1, <1>3 DEF RestoreFits
  <2>2. InOrder /\ last \in Nat /\ data \in Data
    BY WritesTyped DEF IInv, TypeOK
  <2>3. CASE \E s \in archive : s[1] = data.has /\ data' = [data EXCEPT !.has = @ \cup {s[2]}]
    <3>1. PICK s \in archive : s[1] = data.has /\ data' = [data EXCEPT !.has = @ \cup {s[2]}]
      BY <2>3
    <3>2. /\ data'.kind = "copy" /\ data'.signal = data.signal
          /\ data'.has = data.has \cup {s[2]}
      BY <1>1, <2>2, <3>1 DEF Data
    <3>3. s[2] \in Nat /\ \A v \in data.has : v < s[2]
      BY <2>2, <3>1 DEF InOrder
    <3>4. s = <<data.has, s[2]>>
      BY <3>1 DEF IInv, TypeOK, Segment
    <3>5. Restorable(data.has \cup {s[2]}, archive)
      BY <2>1, <2>2, <3>3, <3>4, ChainGrows
    <3>6. Restorable(data.has, archive)'
      BY <1>1, <3>2, <3>5 DEF Restorable
    <3>7. Archived' = Archived
      BY <1>1, ArchivedKept
    <3>8. data'.signal
      BY <1>1, <3>2
    <3>9. pc' = "wait"
      BY <1>1, <2>1
    <3>10. promised' \subseteq Archived' /\ pending' = {}
      BY <1>1, <2>1, <3>7
    <3>11. data'.kind = "copy"
      BY <3>2
    <3>12. /\ pc' \notin {"dropin", "wipe", "untar", "signal", "conf", "start"}
      BY <3>9
    <3>13. QED BY <3>6, <3>8, <3>9, <3>10, <3>11, <3>12 DEF RestoreFits
  <2>4. CASE /\ \A s \in archive : s[1] # data.has
             /\ data' = [data EXCEPT !.kind = "cluster", !.signal = FALSE]
    <3>1. Archived \subseteq data.has
      BY <2>1, <2>2, <2>4, RecoveryEnds
    <3>2. data'.kind = "cluster" /\ data'.signal = FALSE /\ data'.has = data.has
      BY <2>2, <2>4 DEF Data
    <3>3. promised' \subseteq data'.has /\ pc' = "wait"
      BY <1>1, <2>1, <3>1, <3>2
    <3>4. ~data'.signal
      BY <3>2
    <3>5. data'.kind = "cluster"
      BY <3>2
    <3>6. pc' \notin {"dropin", "wipe", "untar", "signal", "conf", "start"}
      BY <3>3
    <3>7. QED BY <3>3, <3>4, <3>5, <3>6 DEF RestoreFits
  <2>5. QED BY <2>3, <2>4 DEF Recover
<1>4. QED BY <1>2, <1>3

\* The steps of a restore: the files go, the base backup is unpacked, the database
\* starts and recovers.
LEMMA StepsRestore ==
  ASSUME TypeOK, IInv, RestoreFits, cmd = "restore", ~disturbed,
         \/ StopService \/ UpdatePostgresConfig \/ StartService \/ RemoveCluster \/ RestoreBase
         \/ SignalRecovery \/ WaitForRecovery
  PROVE  RestoreFits'
<1> USE DEF Goto, Fail, history, call, backup
<1>0. data \in Data
  BY DEF TypeOK
<1>1. CASE StopService
  <2>1. pc' = "idle" \/ (pc' = "wipe" /\ dbOn' = FALSE)
    BY <1>1 DEF StopService, DBStops
  <2>2. QED BY <2>1 DEF RestoreFits
<1>2. CASE RemoveCluster
  <2>1. /\ pc = "wipe" /\ promised' = Archived /\ UNCHANGED <<dbOn, base, archive, last>>
        /\ pc' = "idle" \/ (pc' = "untar" /\ pending' = {})
    BY <1>2 DEF RemoveCluster
  <2>2. Archived' = Archived
    BY <2>1, ArchivedKept
  <2>3. ~dbOn
    BY <2>1 DEF RestoreFits
  <2>4. promised' \subseteq Archived' /\ ~dbOn'
    BY <2>1, <2>2, <2>3
  <2>5. QED BY <2>1, <2>4 DEF RestoreFits
<1>3. CASE RestoreBase
  <2>1. /\ pc = "untar" /\ UNCHANGED <<dbOn, base, archive, last, promised, pending>>
        /\ pc' \in {"idle", "signal"}
    BY <1>3 DEF RestoreBase
  <2>2. ~dbOn /\ promised \subseteq Archived /\ pending = {}
    BY <2>1 DEF RestoreFits
  <2>3. ASSUME pc' = "signal"
        PROVE  data'.kind = "copy" /\ base.kind = "whole" /\ data'.has = base.has
    BY <1>3, <2>2, <2>3 DEF RestoreBase
  <2>4. Archived' = Archived
    BY <2>1, ArchivedKept
  <2>5. promised' \subseteq Archived' /\ ~dbOn' /\ pending' = {} /\ base' = base
    BY <2>1, <2>2, <2>4
  <2>6. QED BY <2>1, <2>3, <2>5 DEF RestoreFits
<1>4. CASE SignalRecovery \/ UpdatePostgresConfig
  <2>1. /\ UNCHANGED <<dbOn, base, archive, last, promised, pending>>
        /\ \/ pc' = "idle"
           \/ pc = "signal" /\ pc' = "conf" /\ data' = [data EXCEPT !.signal = TRUE]
           \/ pc = "conf" /\ pc' = "start" /\ data' = [data EXCEPT !.restore = TRUE]
    BY <1>4 DEF SignalRecovery, UpdatePostgresConfig, Updated
  <2>2. CASE pc' = "idle"
    BY <2>2 DEF RestoreFits
  <2>3. CASE pc' # "idle"
    <3>1. pc \in {"signal", "conf"} /\ pc' \in {"conf", "start"}
      BY <2>1, <2>3
    <3>2. /\ ~dbOn /\ promised \subseteq Archived /\ pending = {}
          /\ data.kind = "copy" /\ base.kind = "whole" /\ data.has = base.has
      BY <3>1 DEF RestoreFits
    <3>3. data'.kind = "copy" /\ data'.has = data.has
      BY <1>0, <2>1, <2>3, <3>2 DEF Data
    <3>4. data'.signal
      <4>1. CASE data' = [data EXCEPT !.signal = TRUE]
        BY <1>0, <4>1 DEF Data
      <4>2. CASE pc = "conf" /\ data' = [data EXCEPT !.restore = TRUE]
        <5>1. data.signal
          BY <4>2 DEF RestoreFits
        <5>2. data'.signal = data.signal
          BY <1>0, <4>2 DEF Data
        <5>3. QED BY <5>1, <5>2
      <4>3. QED BY <2>1, <2>3, <4>1, <4>2
    <3>5. Archived' = Archived
      BY <2>1, ArchivedKept
    <3>6. /\ promised' \subseteq Archived' /\ ~dbOn' /\ pending' = {}
          /\ base'.kind = "whole" /\ data'.has = base'.has
      BY <2>1, <3>2, <3>3, <3>5
    <3>7. QED BY <3>1, <3>3, <3>4, <3>6 DEF RestoreFits
  <2>4. QED BY <2>2, <2>3
<1>5. CASE StartService
  <2>1. /\ pc = "start" /\ UNCHANGED <<base, archive, last, promised>>
        /\ pc' = "idle" \/ (pc' = "wait" /\ DBStarts)
    BY <1>5 DEF StartService
  <2>2. CASE pc' = "idle"
    BY <2>2 DEF RestoreFits
  <2>3. CASE pc' = "wait" /\ DBStarts
    <3>1. /\ promised \subseteq Archived /\ pending = {}
          /\ data.kind = "copy" /\ base.kind = "whole" /\ data.has = base.has
      BY <2>1 DEF RestoreFits
    <3>2. ~dbOn /\ data.signal
      BY <2>1 DEF RestoreFits
    <3>3. data' = data /\ pending' = {}
      <4>1. data.kind # "wiped"
        BY <3>1
      <4>2. data' = data /\ (pending' = pending \/ pending' = {})
        BY <2>3, <3>2, <4>1, Zenon DEF DBStarts
      <4>3. QED BY <3>1, <4>2
    <3>4. Archived' = Archived
      BY <2>1, ArchivedKept
    <3>5. Restorable(data.has, archive)'
      BY <2>1, <3>1, <3>3 DEF Restorable
    <3>6. /\ promised' \subseteq Archived' /\ data'.kind = "copy" /\ data'.signal
      BY <2>1, <3>1, <3>2, <3>3, <3>4
    <3>7. pc' \notin {"dropin", "wipe", "untar", "signal", "conf", "start", "ok"}
      BY <2>3
    <3>8. QED BY <2>3, <3>3, <3>5, <3>6, <3>7 DEF RestoreFits
  <2>4. QED BY <2>1, <2>2, <2>3
<1>6. CASE WaitForRecovery
  <2>1. pc = "wait" /\ pc' = "ok" /\ UNCHANGED <<data, promised>>
    BY <1>6 DEF WaitForRecovery
  <2>2. ~data.signal
    BY <1>6, Zenon DEF WaitForRecovery
  <2>3. data.kind = "cluster" /\ promised \subseteq data.has
    BY <2>1, <2>2 DEF RestoreFits
  <2>4. data'.kind = "cluster" /\ promised' \subseteq data'.has /\ ~data'.signal
    BY <2>1, <2>2, <2>3
  <2>5. QED BY <2>1, <2>4 DEF RestoreFits
<1>7. QED BY <1>1, <1>2, <1>3, <1>4, <1>5, <1>6


LEMMA RestoreFitsStep ==
  IInv /\ Unique /\ Late /\ RestoreFits /\ [Next]_vars => RestoreFits'
<1> SUFFICES ASSUME TypeOK, IInv, Unique, Late, RestoreFits, [Next]_vars, cmd' = "restore", ~disturbed'
             PROVE  RestoreFits'
  BY DEF RestoreFits, IInv
<1> USE DEF Goto, Fail, history, call, backup
<1>0. data \in Data
  BY DEF TypeOK
<1>1. CASE Command
  <2>1. pc' = "stop"
    BY <1>1 DEF Command, Enable, Disable, Rebase, Restore, Begin
  <2>2. QED BY <2>1 DEF RestoreFits
<1>2. CASE \/ StopService \/ UpdatePostgresConfig \/ StartService \/ RemoveCluster \/ RestoreBase
           \/ SignalRecovery \/ WaitForRecovery
  <2>1. cmd' = cmd /\ disturbed' = disturbed
    BY <1>2, Zenon DEF StopService, UpdatePostgresConfig, StartService, RemoveCluster, RestoreBase,
       SignalRecovery, WaitForRecovery
  <2>2. cmd = "restore" /\ ~disturbed
    BY <2>1, Zenon
  <2>3. QED BY <1>2, <2>2, StepsRestore
<1>3. CASE Recover
  BY <1>3, RecoverFits
<1>4. CASE ServerWrites
  <2>1. /\ UNCHANGED <<dbOn, base, archive, pc, cmd, promised, disturbed>> /\ dbOn
        /\ data.kind = "cluster" /\ data' = [data EXCEPT !.has = @ \cup {last + 1}]
    BY <1>4 DEF ServerWrites
  <2>2. data'.kind = "cluster" /\ data'.signal = data.signal /\ data.has \subseteq data'.has
    BY <1>0, <2>1 DEF Data
  <2>3. cmd = "restore" /\ ~disturbed
    BY <2>1
  <2>4. pc \notin {"dropin", "wipe", "untar", "signal", "conf", "start"}
    BY <2>1, <2>3 DEF RestoreFits
  <2>5. pc \in {"wait", "ok"} => ~data.signal /\ promised \subseteq data.has
    BY <2>1, <2>3 DEF RestoreFits
  <2>6. pc \in {"wait", "ok"} => ~data'.signal /\ promised' \subseteq data'.has
    BY <2>1, <2>2, <2>5
  <2>7. QED BY <2>1, <2>2, <2>4, <2>6 DEF RestoreFits
<1>5. CASE Archive
  <2>1. UNCHANGED <<dbOn, data, base, pc, cmd, promised, disturbed, last>> /\ dbOn /\ pending # {}
    BY <1>5 DEF Archive
  <2>2. cmd = "restore" /\ ~disturbed
    BY <2>1
  <2>3. pc \notin {"dropin", "wipe", "untar", "signal", "conf", "start"}
    BY <2>1, <2>2 DEF RestoreFits
  <2>4. pc \in {"wait", "ok"} => data.kind = "cluster" /\ ~data.signal /\ promised \subseteq data.has
    BY <2>1, <2>2 DEF RestoreFits
  <2>5. pc' \in {"wait", "ok"} => data'.kind = "cluster" /\ ~data'.signal /\ promised' \subseteq data'.has
    BY <2>1, <2>4
  <2>6. pc' \notin {"dropin", "wipe", "untar", "signal", "conf", "start"}
    BY <2>1, <2>3
  <2>7. QED BY <2>5, <2>6 DEF RestoreFits
<1>6. CASE RemoveOldBackup \/ BaseBackup
  <2>1. script \in {"clear", "base"} /\ pc' = pc
    BY <1>6 DEF RemoveOldBackup, BaseBackup
  <2>2. pc' \in {"idle", "stop", "script"}
    BY <2>1 DEF IInv, ScriptFits
  <2>3. QED BY <2>2 DEF RestoreFits
<1>7. CASE ContainerDies \/ Revive
  BY <1>7 DEF ContainerDies, Revive
<1>8. CASE Interrupt \/ Return
  <2>1. pc' = "idle"
    BY <1>8 DEF Interrupt, Return
  <2>2. QED BY <2>1 DEF RestoreFits
<1>9. CASE GenerateBackupVolumeConfig \/ PurgeVolume \/ ExecScript \/ ScriptReturns \/ StopAgain
  <2>1. pc \in {"dropin", "purge", "exec", "script", "restop"} /\ cmd' = cmd /\ disturbed' = disturbed
    BY <1>9 DEF GenerateBackupVolumeConfig, PurgeVolume, ExecScript, ScriptReturns, StopAgain
  <2>2. cmd = "restore" /\ ~disturbed
    BY <2>1
  <2>3. pc # "dropin"
    BY <2>2 DEF RestoreFits
  <2>4. FALSE
    BY <2>1, <2>2, <2>3 DEF IInv, StepsFit
  <2>5. QED BY <2>4
<1>10. CASE UNCHANGED vars
  <2>1. UNCHANGED <<dbOn, data, pending, base, archive, pc, cmd, last, promised, disturbed>>
    BY <1>10 DEF vars
  <2>2. Archived' = Archived
    BY <2>1, ArchivedKept
  <2>3. Restorable(data.has, archive)' <=> Restorable(data.has, archive)
    BY <2>1 DEF Restorable
  <2>4. QED BY <2>1, <2>2, <2>3, Zenon DEF RestoreFits
<1>11. QED
  BY <1>1, <1>2, <1>3, <1>4, <1>5, <1>6, <1>7, <1>8, <1>9, <1>10, Zenon
     DEF Next, Step, Script, World

Recoverable == Unique /\ Late /\ Held /\ Emptied /\ RestoreFits

\* A restore that succeeds has brought back every write that was archived when it
\* began to remove the files, for any number of writes, with whatever gaps earlier
\* commands have left in the archive.
THEOREM RestoreWorks == Spec => RestoreBringsBack
<1>1. Init => Recoverable
  <2> SUFFICES ASSUME Init PROVE Recoverable
    OBVIOUS
  <2>1. archive = {} /\ pending = {} /\ pc = "idle" /\ cmd = "none"
    BY DEF Init
  <2>2. QED BY <2>1 DEF Recoverable, Unique, Late, Held, Emptied, RestoreFits
<1>2. IInv /\ Recoverable /\ [Next]_vars => Recoverable'
  BY UniqueStep, LateStep, HeldStep, EmptiedStep, RestoreFitsStep, Zenon DEF Recoverable
<1>3. IInv /\ Recoverable /\ [Next]_vars
        => [(Return /\ cmd = "restore" /\ ~disturbed)
              => (promised \subseteq data.has /\ data.kind = "cluster")]_vars
  <2> SUFFICES ASSUME RestoreFits, Return, cmd = "restore", ~disturbed
               PROVE  promised \subseteq data.has /\ data.kind = "cluster"
    BY Zenon DEF Recoverable
  <2>1. pc = "ok"
    BY Zenon DEF Return
  <2>2. QED BY <2>1 DEF RestoreFits
<1>4. QED
  BY Invariant, <1>1, <1>2, <1>3, PTL DEF Spec, RestoreBringsBack


=============================================================================
