------------------------- MODULE ServerUpgradeProofs -------------------------
(***************************************************************************)
(* Proofs about ServerUpgrade, for any releases, any PostgreSQL versions   *)
(* of these and any set of writes.                                         *)
(***************************************************************************)
EXTENDS ServerUpgrade, TLAPS

USE DEF database, DBStops, ServerRuns

(* TypeOK in four parts: the flags, the directories, the running database  *)
(* and the rest.                                                           *)

FlagsOK ==
  /\ dbUnit \in BOOLEAN /\ downgraded \in BOOLEAN /\ early \in BOOLEAN
  /\ exposesTFTP \in BOOLEAN /\ tftp \in BOOLEAN
  /\ external \in BOOLEAN /\ hasTFTP \in BOOLEAN
  /\ err \in BOOLEAN /\ touched \in BOOLEAN
  /\ cut \in BOOLEAN /\ nestedMove \in BOOLEAN /\ served \in BOOLEAN

DirsOK ==
  /\ dir \in [Dir -> Contents]
  /\ dbOn \in Dir \cup {"none"}
  /\ written \in SUBSET Write

RunsOK ==
  /\ dbRuns \in {0} \cup Release
  /\ dbRuns = 0 <=> dbOn = "none"

CallOK ==
  /\ serverRuns \in {0} \cup Release /\ inspected \in Release
  /\ dbImage \in Release /\ serverImage \in Release
  /\ dbHost \in {"db", "external"}
  /\ pc \in {"idle", "stopServer", "stopDB", "data", "mkdir", "copy", "configure",
             "setupUnit", "setupStart", "upgradeUnit", "upgradeStart",
             "serverConf", "serverUnit", "startServer", "optional", "return"}
  /\ cmd \in {"none", "upgrade", "ptf"}
  /\ target \in [server : Release, db : Release]
  /\ deferred \in SUBSET {"db", "server"}

LEMMA TypeParts == TypeOK <=> FlagsOK /\ DirsOK /\ RunsOK /\ CallOK
BY DEF TypeOK, FlagsOK, DirsOK, RunsOK, CallOK

LEMMA NoReleaseIsZero == 0 \notin Release /\ Release \subseteq Int
BY ReleaseAssumption DEF Release

\* What the contents of a directory may be.
LEMMA ContentsTyped ==
  /\ Absent \in Contents /\ Empty \in Contents /\ Broken \in Contents
  /\ \A pg \in Nat, has \in SUBSET Write : Cluster(pg, has) \in Contents
  /\ Absent.has = {} /\ Empty.has = {} /\ Broken.has = {}
  /\ \A pg \in Nat, has \in SUBSET Write : Cluster(pg, has).has = has
BY DEF Absent, Empty, Broken, Cluster, Blank, Contents

LEMMA PgTyped == \A r \in Release : Pg[r] \in Nat
BY PgAssumption

LEMMA InitTyped == Init => TypeOK
<1> SUFFICES ASSUME Init PROVE TypeOK
  OBVIOUS
<1>1. FlagsOK
  <2>1. /\ dbUnit \in BOOLEAN /\ external \in BOOLEAN
        /\ exposesTFTP \in BOOLEAN /\ tftp \in BOOLEAN /\ served \in BOOLEAN
    BY Zenon DEF Init
  <2>2. /\ hasTFTP \in BOOLEAN /\ err \in BOOLEAN /\ touched \in BOOLEAN
        /\ cut \in BOOLEAN /\ nestedMove \in BOOLEAN
        /\ downgraded \in BOOLEAN /\ early \in BOOLEAN
    BY Zenon DEF Init
  <2>3. QED
    BY <2>1, <2>2, Zenon DEF FlagsOK
<1>2. DirsOK
  <2>1. dbImage \in Release /\ Pg[dbImage] \in Nat
    BY PgTyped DEF Init
  <2>2. Cluster(Pg[dbImage], {}) \in Contents
    BY <2>1, ContentsTyped
  <2>3. \A d \in Dir : dir[d] \in Contents
    BY <2>2, ContentsTyped DEF Init
  <2>4. dir \in [Dir -> Contents]
    BY <2>3, Zenon DEF Init
  <2>5. dbOn \in Dir \cup {"none"} /\ written \in SUBSET Write
    BY DEF Init, Dir
  <2>6. QED
    BY <2>4, <2>5 DEF DirsOK
<1>3. CallOK
  BY DEF Init, CallOK
<1>4. RunsOK
  BY NoReleaseIsZero DEF Init, RunsOK
<1>5. QED
  BY <1>1, <1>2, <1>3, <1>4, TypeParts

\* A start of the database, whatever it leads to, leaves the directories typed.
LEMMA DBStartTyped ==
  ASSUME DirsOK, CallOK, DBRuns \/ DBStays
  PROVE  dir' \in [Dir -> Contents] /\ dbOn' \in Dir \cup {"none"}
<1>1. Cluster(Pg[dbImage], {}) \in Contents
  BY ContentsTyped, PgTyped DEF CallOK
<1>2. QED
  BY <1>1 DEF DBRuns, DBStays, DirsOK, Dir

LEMMA DirsStep == TypeOK /\ [Next]_vars => DirsOK'
<1> SUFFICES ASSUME TypeOK, [Next]_vars PROVE DirsOK'
  OBVIOUS
<1>0. DirsOK /\ CallOK
  BY TypeParts
<1> USE <1>0
<1>1. CASE MoveData
  BY <1>1, ContentsTyped DEF MoveData, DirsOK, Dir, MoveTo
<1>2. CASE MakeTarget
  BY <1>2, ContentsTyped DEF MakeTarget, DirsOK, Dir
<1>3. CASE CopyData
  <2>1. NewPg \in Nat
    BY PgTyped DEF NewPg, CallOK
  <2>2. Cluster(NewPg, dir["old"].has) \in Contents
    BY <2>1, ContentsTyped DEF DirsOK, Dir, Contents
  <2>3. QED
    BY <1>3, <2>2, ContentsTyped DEF CopyData, DirsOK, Dir
<1>4. CASE ServerWrites
  <2>1. PICK w \in Write : dir' = [dir EXCEPT ![dbOn].has = @ \cup {w}]
                           /\ written' = written \cup {w}
    BY <1>4 DEF ServerWrites
  <2>2. dbOn \in Dir
    BY <1>4 DEF ServerWrites, DirsOK
  <2>3. [dir[dbOn] EXCEPT !.has = @ \cup {w}] \in Contents
    BY <2>2 DEF DirsOK, Contents
  <2>4. QED
    BY <1>4, <2>1, <2>2, <2>3 DEF ServerWrites, DirsOK
<1>5. CASE StartDB \/ StartServer \/ DeferredStart \/ Revive
  <2>1. (DBRuns \/ DBStays) /\ written' = written
    BY <1>5 DEF StartDB, StartServer, DeferredStart, Revive
  <2>2. QED
    BY <2>1, DBStartTyped DEF DirsOK
<1>6. CASE StopDB \/ ContainerDies \/ Reboot
  BY <1>6 DEF StopDB, ContainerDies, Reboot, Killed, DirsOK
<1>7. CASE \/ StopServer \/ KeepData \/ Configure \/ WriteDBUnit \/ WriteServerConf
           \/ WriteServerUnit \/ UpgradeOptional \/ Return \/ Interrupt \/ Command
           \/ UNCHANGED vars
  BY <1>7 DEF StopServer, KeepData, Configure, WriteDBUnit, WriteServerConf,
     WriteServerUnit, UpgradeOptional, Return, Interrupt, Killed, Command, Begin,
     vars, DirsOK
<1>8. QED
  BY <1>1, <1>2, <1>3, <1>4, <1>5, <1>6, <1>7 DEF Next, Step, World

LEMMA DBStartFlag ==
  ASSUME FlagsOK, DBRuns \/ DBStays
  PROVE  early' \in BOOLEAN
<1>1. CASE early' = early
  BY <1>1, Zenon DEF FlagsOK
<1>2. CASE early' = (pc \in {"data", "mkdir", "copy", "configure", "setupUnit"})
  BY <1>2
<1>3. QED
  BY <1>1, <1>2, Zenon DEF DBRuns, DBStays

\* The flags stay flags.
LEMMA FlagsStep == FlagsOK /\ [Next]_vars => FlagsOK'
<1> SUFFICES ASSUME FlagsOK, [Next]_vars PROVE FlagsOK'
  OBVIOUS
<1> USE DEF FlagsOK, Goto, Fail, units, call, ghosts
<1>1. CASE StopServer
  BY <1>1, Zenon DEF StopServer
<1>2. CASE StopDB
  BY <1>2, Zenon DEF StopDB
<1>3. CASE MoveData
  BY <1>3, Zenon DEF MoveData
<1>4. CASE KeepData
  BY <1>4, Zenon DEF KeepData
<1>5. CASE MakeTarget
  BY <1>5, Zenon DEF MakeTarget
<1>6. CASE CopyData
  BY <1>6, Zenon DEF CopyData
<1>7. CASE Configure
  BY <1>7, Zenon DEF Configure
<1>8. CASE WriteDBUnit
  BY <1>8, Zenon DEF WriteDBUnit
<1>9. CASE StartDB
  <2>1. early' \in BOOLEAN
    BY <1>9, DBStartFlag DEF StartDB
  <2>2. QED
    BY <1>9, <2>1, Zenon DEF StartDB
<1>10. CASE WriteServerConf
  BY <1>10, Zenon DEF WriteServerConf
<1>11. CASE WriteServerUnit
  BY <1>11, Zenon DEF WriteServerUnit
<1>12. CASE StartServer
  <2>1. early' \in BOOLEAN
    BY <1>12, DBStartFlag DEF StartServer
  <2>2. QED
    BY <1>12, <2>1, Zenon DEF StartServer
<1>13. CASE UpgradeOptional
  <2>1. TFTPAfter("as is") \in BOOLEAN /\ TFTPAfter("on") \in BOOLEAN
        /\ TFTPAfter("off") \in BOOLEAN
    BY DEF TFTPAfter
  <2>2. tftp' \in BOOLEAN
    BY <1>13, <2>1 DEF UpgradeOptional, Wish
  <2>3. served' \in BOOLEAN /\ err' \in BOOLEAN
    BY <1>13, Zenon DEF UpgradeOptional
  <2>4. UNCHANGED <<dbUnit, exposesTFTP, external, hasTFTP, touched, cut,
                    nestedMove, downgraded, early>>
    BY <1>13, Zenon DEF UpgradeOptional
  <2>5. QED
    BY <2>2, <2>3, <2>4, Zenon
<1>14. CASE DeferredStart
  <2>1. early' \in BOOLEAN
    BY <1>14, DBStartFlag DEF DeferredStart
  <2>2. QED
    BY <1>14, <2>1, Zenon DEF DeferredStart
<1>15. CASE Return
  BY <1>15, Zenon DEF Return
<1>16. CASE Command
  BY <1>16, Zenon DEF Command, Begin
<1>17. CASE ServerWrites
  BY <1>17, Zenon DEF ServerWrites
<1>18. CASE Revive
  <2>1. early' \in BOOLEAN
    BY <1>18, DBStartFlag DEF Revive
  <2>2. QED
    BY <1>18, <2>1, Zenon DEF Revive
<1>19. CASE ContainerDies
  BY <1>19, Zenon DEF ContainerDies
<1>20. CASE Interrupt
  BY <1>20, Zenon DEF Interrupt, Killed
<1>21. CASE Reboot
  BY <1>21, Zenon DEF Reboot, Killed
<1>22. CASE UNCHANGED vars
  BY <1>22, Zenon DEF vars
<1>23. QED
  BY <1>1, <1>2, <1>3, <1>4, <1>5, <1>6, <1>7, <1>8, <1>9, <1>10, <1>11, <1>12,
     <1>13, <1>14, <1>15, <1>16, <1>17, <1>18, <1>19, <1>20, <1>21, <1>22, Zenon
     DEF Next, Step, World

\* The command and the images it writes keep their types.
LEMMA CallStep == CallOK /\ [Next]_vars => CallOK'
<1> SUFFICES ASSUME CallOK, [Next]_vars PROVE CallOK'
  OBVIOUS
<1> USE DEF CallOK, Goto, Fail, units, call, ghosts
<1>1. CASE StopServer
  BY <1>1 DEF StopServer
<1>2. CASE StopDB
  BY <1>2 DEF StopDB
<1>3. CASE MoveData
  BY <1>3 DEF MoveData
<1>4. CASE KeepData
  BY <1>4 DEF KeepData
<1>5. CASE MakeTarget
  BY <1>5 DEF MakeTarget
<1>6. CASE CopyData
  BY <1>6 DEF CopyData
<1>7. CASE Configure
  BY <1>7 DEF Configure
<1>8. CASE WriteDBUnit
  BY <1>8 DEF WriteDBUnit
<1>9. CASE StartDB
  BY <1>9 DEF StartDB
<1>10. CASE WriteServerConf
  BY <1>10 DEF WriteServerConf
<1>11. CASE WriteServerUnit
  BY <1>11 DEF WriteServerUnit
<1>12. CASE StartServer
  BY <1>12 DEF StartServer
<1>13. CASE UpgradeOptional
  BY <1>13 DEF UpgradeOptional
<1>14. CASE DeferredStart
  BY <1>14 DEF DeferredStart
<1>15. CASE Return
  BY <1>15 DEF Return
<1>16. CASE Command
  BY <1>16 DEF Command, Begin, serverOn
<1>17. CASE \/ ServerWrites \/ Revive \/ ContainerDies \/ Interrupt \/ Reboot
            \/ UNCHANGED vars
  BY <1>17 DEF ServerWrites, Revive, ContainerDies, Interrupt, Reboot, Killed, vars
<1>18. QED
  BY <1>1, <1>2, <1>3, <1>4, <1>5, <1>6, <1>7, <1>8, <1>9, <1>10, <1>11, <1>12,
     <1>13, <1>14, <1>15, <1>16, <1>17 DEF Next, Step, World

\* A database container has a release while it runs.
LEMMA RunsStep == TypeOK /\ [Next]_vars => RunsOK'
<1> SUFFICES ASSUME RunsOK, DirsOK, CallOK, [Next]_vars PROVE RunsOK'
  BY TypeParts
<1> USE NoReleaseIsZero
<1>1. CASE MoveData
  <2>1. dbRuns' = dbRuns /\ (dbOn' = "none" <=> dbOn = "none")
    BY <1>1 DEF MoveData, MoveTo
  <2>2. QED
    BY <2>1 DEF RunsOK
<1>2. CASE StartDB \/ StartServer \/ DeferredStart \/ Revive
  <2>1. DBRuns \/ DBStays
    BY <1>2 DEF StartDB, StartServer, DeferredStart, Revive
  <2>2. \/ dbOn' = dbOn /\ dbRuns' = dbRuns
        \/ dbOn' = "data" /\ dbRuns' = dbImage
    BY <2>1 DEF DBRuns, DBStays
  <2>3. QED
    BY <2>2 DEF RunsOK, CallOK
<1>3. CASE StopDB \/ ContainerDies \/ Reboot
  BY <1>3 DEF StopDB, ContainerDies, Reboot, Killed, RunsOK
<1>4. CASE \/ StopServer \/ KeepData \/ MakeTarget \/ CopyData \/ Configure
           \/ WriteDBUnit \/ WriteServerConf \/ WriteServerUnit \/ UpgradeOptional
           \/ Return \/ Interrupt \/ Command \/ ServerWrites \/ UNCHANGED vars
  <2>1. dbOn' = dbOn /\ dbRuns' = dbRuns
    BY <1>4 DEF StopServer, KeepData, MakeTarget, CopyData, Configure, WriteDBUnit,
       WriteServerConf, WriteServerUnit, UpgradeOptional, Return, Interrupt, Killed,
       Command, Begin, ServerWrites, vars
  <2>2. QED
    BY <2>1 DEF RunsOK
<1>5. QED
  BY <1>1, <1>2, <1>3, <1>4 DEF Next, Step, World

LEMMA TypeStep == TypeOK /\ [Next]_vars => TypeOK'
<1> SUFFICES ASSUME TypeOK, [Next]_vars PROVE TypeOK'
  OBVIOUS
<1>1. FlagsOK' /\ DirsOK' /\ RunsOK' /\ CallOK'
  BY FlagsStep, DirsStep, RunsStep, CallStep, TypeParts
<1>2. QED
  BY <1>1 DEF TypeOK, FlagsOK, DirsOK, RunsOK, CallOK

\* Whatever the releases and the writes are, the variables keep their types.
THEOREM Typed == Spec => []TypeOK
BY InitTyped, TypeStep, PTL DEF Spec

-----------------------------------------------------------------------------
(* No write is lost.  Three facts make it inductive: only clusters hold    *)
(* writes, a database only runs on a cluster, and mkdir finds no _data.    *)

OnlyClustersHold == \A d \in Dir : dir[d].kind # "cluster" => dir[d].has = {}

RunsOnCluster == dbOn # "none" => dir[dbOn].kind = "cluster"

MkdirFindsNothing == pc = "mkdir" => dir["data"] = Absent

WInv == OnlyClustersHold /\ RunsOnCluster /\ MkdirFindsNothing /\ NoWriteLost

LEMMA Kinds ==
  /\ Absent.kind = "absent" /\ Empty.kind = "empty" /\ Broken.kind = "broken"
  /\ \A pg, has : Cluster(pg, has).kind = "cluster" /\ Cluster(pg, has).has = has
  /\ Absent.has = {} /\ Empty.has = {} /\ Broken.has = {}
BY DEF Absent, Empty, Broken, Cluster, Blank

\* NoWriteLost directory by directory.
LEMMA LostPointwise ==
  NoWriteLost <=> \A w \in written : \E d \in Dir : w \in dir[d].has
BY DEF NoWriteLost

LEMMA InitWInv == Init => WInv
<1> SUFFICES ASSUME Init PROVE WInv
  OBVIOUS
<1>1. \A d \in Dir : dir[d] \in {Absent, Empty, Cluster(Pg[dbImage], {})}
  BY DEF Init
<1>2. OnlyClustersHold
  BY <1>1, Kinds DEF OnlyClustersHold
<1>3. RunsOnCluster
  BY Kinds DEF Init, RunsOnCluster, Dir
<1>4. MkdirFindsNothing /\ NoWriteLost
  BY DEF Init, MkdirFindsNothing, NoWriteLost
<1>5. QED
  BY <1>2, <1>3, <1>4 DEF WInv

\* A start of the database creates a cluster in an empty directory at most.
LEMMA DBStartKeeps ==
  ASSUME TypeOK, WInv, DBRuns \/ DBStays, written' = written,
         pc' = "mkdir" => pc = "mkdir"
  PROVE  WInv'
<1>0. DirsOK
  BY TypeParts
<1>1. CASE UNCHANGED dir /\ dbOn' = dbOn
  BY <1>1 DEF WInv, OnlyClustersHold, RunsOnCluster, MkdirFindsNothing, NoWriteLost
<1>2. CASE UNCHANGED dir /\ dbOn' = "data" /\ dir["data"].kind = "cluster"
  BY <1>2 DEF WInv, OnlyClustersHold, RunsOnCluster, MkdirFindsNothing, NoWriteLost
<1>3. CASE /\ dbOn' = "data" /\ dir["data"].kind = "empty"
           /\ dir' = [dir EXCEPT !["data"] = Cluster(Pg[dbImage], {})]
  <2>1. dir["data"].has = {} /\ "data" \in Dir
    BY <1>3 DEF WInv, OnlyClustersHold, Dir
  <2>2. \A d \in Dir : dir'[d].has = dir[d].has
    BY <1>0, <1>3, <2>1, Kinds DEF DirsOK
  <2>3. NoWriteLost'
    BY <2>2, LostPointwise DEF WInv, NoWriteLost
  <2>4. OnlyClustersHold' /\ RunsOnCluster'
    BY <1>0, <1>3, Kinds DEF DirsOK, WInv, OnlyClustersHold, RunsOnCluster, Dir
  <2>5. pc # "mkdir"
    BY <1>3, Kinds DEF WInv, MkdirFindsNothing
  <2>6. QED
    BY <2>3, <2>4, <2>5 DEF WInv, MkdirFindsNothing
<1>4. QED
  BY <1>1, <1>2, <1>3 DEF DBRuns, DBStays

LEMMA WStep == TypeOK /\ WInv /\ [Next]_vars => WInv'
<1> SUFFICES ASSUME TypeOK, WInv, [Next]_vars PROVE WInv'
  OBVIOUS
<1>0. DirsOK /\ CallOK
  BY TypeParts
<1>1. CASE MoveData
  <2>1. CASE UNCHANGED <<dir, dbOn>> /\ pc' = "return"
    BY <1>1, <2>1 DEF MoveData, WInv, OnlyClustersHold, RunsOnCluster,
       MkdirFindsNothing, NoWriteLost
  <2>2. CASE /\ dir[MoveTo] \in {Absent, Empty}
             /\ dir' = [dir EXCEPT ![MoveTo] = dir["data"], !["data"] = Absent]
             /\ dbOn' = IF dbOn = "data" THEN MoveTo ELSE dbOn
    <3>1. MoveTo \in {"old", "nested"} /\ dir[MoveTo].has = {}
          /\ dir[MoveTo].kind # "cluster" /\ written' = written
      BY <1>1, <2>2, Kinds DEF MoveTo, MoveData
    <3>2. /\ dir'["data"] = Absent /\ dir'[MoveTo] = dir["data"]
          /\ \A d \in Dir \ {"data", MoveTo} : dir'[d] = dir[d]
      BY <1>0, <2>2, <3>1 DEF DirsOK, Dir
    <3>3. \A d \in Dir : \A w \in dir[d].has : \E e \in Dir : w \in dir'[e].has
      BY <3>1, <3>2 DEF Dir
    <3>4. NoWriteLost'
      <4>1. \A w \in written : \E d \in Dir : w \in dir'[d].has
        BY <3>3, LostPointwise DEF WInv
      <4>2. QED
        BY <3>1, <4>1 DEF NoWriteLost
    <3>5. OnlyClustersHold'
      BY <3>1, <3>2, Kinds DEF WInv, OnlyClustersHold, Dir
    <3>6. RunsOnCluster'
      BY <1>0, <2>2, <3>1, <3>2 DEF WInv, RunsOnCluster, DirsOK
    <3>7. QED
      BY <3>2, <3>4, <3>5, <3>6 DEF WInv, MkdirFindsNothing
  <2>3. QED
    BY <1>1, <2>1, <2>2 DEF MoveData, Fail
<1>2. CASE MakeTarget
  <2>1. dir["data"] = Absent /\ pc' # "mkdir" /\ UNCHANGED <<dbOn, written>>
    BY <1>2 DEF MakeTarget, Goto, Fail, WInv, MkdirFindsNothing
  <2>2. CASE UNCHANGED dir
    BY <2>1, <2>2 DEF WInv, OnlyClustersHold, RunsOnCluster, MkdirFindsNothing,
       NoWriteLost
  <2>3. CASE dir' = [dir EXCEPT !["data"] = Empty]
    <3>1. \A d \in Dir : dir'[d].has = dir[d].has
      BY <1>0, <2>1, <2>3, Kinds DEF DirsOK
    <3>2. NoWriteLost'
      BY <2>1, <3>1, LostPointwise DEF WInv, NoWriteLost
    <3>3. OnlyClustersHold' /\ RunsOnCluster'
      BY <1>0, <2>1, <2>3, Kinds DEF DirsOK, WInv, OnlyClustersHold, RunsOnCluster
    <3>4. QED
      BY <2>1, <3>2, <3>3 DEF WInv, MkdirFindsNothing
  <2>4. QED
    BY <1>2, <2>2, <2>3 DEF MakeTarget
<1>3. CASE CopyData
  <2>1. pc' # "mkdir" /\ UNCHANGED <<dbOn, written>>
    BY <1>3 DEF CopyData, Goto, Fail
  <2>2. CASE UNCHANGED dir
    BY <2>1, <2>2 DEF WInv, OnlyClustersHold, RunsOnCluster, MkdirFindsNothing,
       NoWriteLost
  <2>3. CASE /\ dir["data"] = Empty
             /\ \/ dir' = [dir EXCEPT !["data"] = Broken]
                \/ dir' = [dir EXCEPT !["data"] = Cluster(NewPg, dir["old"].has)]
    <3>1. /\ \A d \in Dir \ {"data"} : dir'[d] = dir[d]
          /\ dir["data"].has = {} /\ dir["data"].kind # "cluster"
          /\ dir'["data"].kind # "cluster" => dir'["data"].has = {}
      BY <1>0, <2>3, Kinds DEF DirsOK, Dir
    <3>2. NoWriteLost'
      <4>1. \A w \in written : \E d \in Dir : w \in dir'[d].has
        BY <3>1, LostPointwise DEF WInv
      <4>2. QED
        BY <2>1, <4>1 DEF NoWriteLost
    <3>3. OnlyClustersHold' /\ RunsOnCluster'
      BY <1>0, <2>1, <3>1 DEF WInv, OnlyClustersHold, RunsOnCluster, DirsOK
    <3>4. QED
      BY <2>1, <3>2, <3>3 DEF WInv, MkdirFindsNothing
  <2>4. QED
    BY <1>3, <2>2, <2>3 DEF CopyData
<1>4. CASE ServerWrites
  <2>1. PICK w \in Write : dir' = [dir EXCEPT ![dbOn].has = @ \cup {w}]
                           /\ written' = written \cup {w}
    BY <1>4 DEF ServerWrites
  <2>2. dbOn \in Dir /\ dir[dbOn].kind = "cluster" /\ dbOn' = dbOn /\ pc' = pc
    BY <1>0, <1>4 DEF ServerWrites, DirsOK
  <2>3. /\ \A d \in Dir \ {dbOn} : dir'[d] = dir[d]
        /\ dir'[dbOn] = [dir[dbOn] EXCEPT !.has = @ \cup {w}]
    BY <1>0, <2>1, <2>2 DEF DirsOK
  <2>4. dir'[dbOn].kind = "cluster" /\ dir'[dbOn].has = dir[dbOn].has \cup {w}
    BY <1>0, <2>2, <2>3 DEF DirsOK, Contents
  <2>5. NoWriteLost'
    <3>1. \A x \in written' : \E d \in Dir : x \in dir'[d].has
      BY <2>1, <2>2, <2>3, <2>4, LostPointwise DEF WInv
    <3>2. QED
      BY <3>1 DEF NoWriteLost
  <2>6. OnlyClustersHold' /\ RunsOnCluster'
    BY <2>2, <2>3, <2>4 DEF WInv, OnlyClustersHold, RunsOnCluster
  <2>7. MkdirFindsNothing'
    BY <2>2, <2>3, Kinds DEF WInv, MkdirFindsNothing, Dir
  <2>8. QED
    BY <2>5, <2>6, <2>7 DEF WInv
<1>5. CASE StartDB \/ StartServer \/ DeferredStart \/ Revive
  <2>1. (DBRuns \/ DBStays) /\ written' = written /\ (pc' = "mkdir" => pc = "mkdir")
    BY <1>5 DEF StartDB, StartServer, DeferredStart, Revive, Goto, Fail
  <2>2. QED
    BY <2>1, DBStartKeeps
<1>6. CASE StopDB \/ ContainerDies \/ Reboot
  <2>1. dir' = dir /\ written' = written /\ dbOn' \in {dbOn, "none"}
        /\ (pc' = "mkdir" => pc = "mkdir")
    BY <1>6 DEF StopDB, ContainerDies, Reboot, Killed, Goto, Fail
  <2>2. QED
    BY <2>1 DEF WInv, OnlyClustersHold, RunsOnCluster, MkdirFindsNothing, NoWriteLost
<1>7. CASE \/ StopServer \/ KeepData \/ Configure \/ WriteDBUnit \/ WriteServerConf
           \/ WriteServerUnit \/ UpgradeOptional \/ Return \/ Interrupt \/ Command
           \/ UNCHANGED vars
  <2>1. dir' = dir /\ written' = written /\ dbOn' = dbOn
        /\ (pc' = "mkdir" => pc = "mkdir")
    BY <1>7 DEF StopServer, KeepData, Configure, WriteDBUnit, WriteServerConf,
       WriteServerUnit, UpgradeOptional, Return, Interrupt, Killed, Command, Begin,
       vars, Goto, Fail
  <2>2. QED
    BY <2>1 DEF WInv, OnlyClustersHold, RunsOnCluster, MkdirFindsNothing, NoWriteLost
<1>8. QED
  BY <1>1, <1>2, <1>3, <1>4, <1>5, <1>6, <1>7 DEF Next, Step, World

\* Whatever fails, is interrupted or repeated, every committed write is still in
\* some data directory.
THEOREM WritesKept == Spec => []NoWriteLost
<1>1. TypeOK /\ WInv /\ [Next]_vars => (TypeOK /\ WInv)'
  BY TypeStep, WStep
<1>2. Init => TypeOK /\ WInv
  BY InitTyped, InitWInv
<1>3. WInv => NoWriteLost
  BY DEF WInv
<1>4. QED
  BY <1>1, <1>2, <1>3, PTL DEF Spec

-----------------------------------------------------------------------------
(* The server is never ahead of its database.                              *)

\* Of a server with its own database: the unit exists, the server that runs is
\* not of a newer release than its unit, the command asks for no older server
\* than that unit and for no older database than that, and once it has written
\* the database unit this has the image it asks for.
ImagesInOrder ==
  (~external /\ ~downgraded) =>
    /\ dbUnit
    /\ serverRuns <= serverImage
    /\ serverImage <= dbImage
    /\ pc \notin {"idle", "return"} =>
         serverImage <= target.server /\ target.server <= target.db
    /\ pc \in {"setupStart", "upgradeUnit", "upgradeStart", "serverConf"} =>
         dbImage = target.db

\* Where a database that something else started would still have its old image.
Unwritten == {"data", "mkdir", "copy", "configure", "setupUnit"}

\* The running database is of its unit's image unless it was started early.
DBInOrder ==
  (~external /\ ~downgraded /\ dbOn # "none" /\ ~early) =>
    dbRuns = dbImage /\ pc \notin Unwritten

LEMMA ImagesTyped ==
  ASSUME TypeOK
  PROVE  /\ serverImage \in Int /\ dbImage \in Int /\ serverRuns \in Int
         /\ dbRuns \in Int /\ target.server \in Int /\ target.db \in Int
         /\ serverImage >= 0
<1>1. /\ serverImage \in Release /\ dbImage \in Release
      /\ serverRuns \in {0} \cup Release /\ dbRuns \in {0} \cup Release
      /\ target \in [server : Release, db : Release]
  BY Zenon DEF TypeOK
<1>2. QED
  BY <1>1, ReleaseAssumption DEF Release

\* Where the database is stays as it is, and a release passed over stays so.
LEMMA ExternalKept ==
  ASSUME [Next]_vars
  PROVE  external' = external /\ (~downgraded' => ~downgraded)
<1>1. external' = external
  BY DEF Next, Step, Command, World, StopServer, StopDB, MoveData, KeepData,
     MakeTarget, CopyData, Configure, WriteDBUnit, StartDB, WriteServerConf,
     WriteServerUnit, StartServer, UpgradeOptional, DeferredStart, Return, Begin,
     ServerWrites, Revive, ContainerDies, Interrupt, Reboot, Killed, units, vars
<1>2. CASE Command
  BY <1>1, <1>2, Zenon DEF Command, Begin
<1>3. CASE ~Command
  <2>1. downgraded' = downgraded
    BY <1>3 DEF Next, Step, World, StopServer, StopDB, MoveData, KeepData,
       MakeTarget, CopyData, Configure, WriteDBUnit, StartDB, WriteServerConf,
       WriteServerUnit, StartServer, UpgradeOptional, DeferredStart, Return,
       ServerWrites, Revive, ContainerDies, Interrupt, Reboot, Killed, ghosts, vars
  <2>2. QED
    BY <1>1, <2>1
<1>4. QED
  BY <1>2, <1>3

LEMMA ImagesStep == TypeOK /\ ImagesInOrder /\ [Next]_vars => ImagesInOrder'
<1> SUFFICES ASSUME TypeOK, ImagesInOrder, [Next]_vars, ~external', ~downgraded'
             PROVE  ImagesInOrder'
  BY DEF ImagesInOrder
<1>0. /\ serverImage \in Int /\ dbImage \in Int /\ serverRuns \in Int
      /\ target.server \in Int /\ target.db \in Int
      /\ serverImage >= 0 /\ ~external /\ ~downgraded
  BY ImagesTyped, ExternalKept
<1> USE <1>0 DEF ImagesInOrder, Goto, Fail, units, call
<1>1. CASE Command
  <2>1. PICK c \in {"upgrade", "ptf"}, r \in [server : Release, db : Release] :
          Begin(c, r)
    BY <1>1 DEF Command
  <2>2. /\ r.server \in Int /\ r.db \in Int
        /\ target' = r /\ pc' = "stopServer"
        /\ UNCHANGED <<dbUnit, dbImage, serverImage, serverRuns>>
    BY <2>1, ReleaseAssumption DEF Begin, Release
  <2>3. ~(r.server < serverImage)
    BY <2>1, Zenon DEF Begin
  <2>4. r.server <= r.db
    <3>1. CASE c = "upgrade"
      BY <2>1, <2>2, <3>1 DEF Begin
    <3>2. CASE c = "ptf"
      <4>1. r.server = serverImage /\ r.db = dbImage
        BY <2>1, <3>2 DEF Begin
      <4>2. QED
        BY <4>1
    <3>3. QED
      BY <3>1, <3>2
  <2>5. QED
    BY <2>2, <2>3, <2>4
<1>2. CASE WriteDBUnit
  <2>1. dbUnit' \in {dbUnit, TRUE}
    BY <1>2, Zenon DEF WriteDBUnit
  <2>2. dbUnit'
    BY <2>1
  <2>3. /\ pc \in {"setupUnit", "upgradeUnit"}
        /\ serverImage' = serverImage /\ target' = target /\ serverRuns' = serverRuns
        /\ dbImage' = target.db \/ (dbImage' = dbImage /\ pc' = "return")
    BY <1>2, Zenon DEF WriteDBUnit
  <2>4. QED
    BY <2>2, <2>3
<1>3. CASE WriteServerConf
  BY <1>3 DEF WriteServerConf
<1>4. CASE Configure
  BY <1>4 DEF Configure
<1>5. CASE StartDB
  BY <1>5 DEF StartDB
<1>6. CASE StopServer \/ StopDB \/ MoveData \/ KeepData \/ MakeTarget \/ CopyData
  BY <1>6 DEF StopServer, StopDB, MoveData, KeepData, MakeTarget, CopyData
<1>7. CASE \/ WriteServerUnit \/ StartServer \/ UpgradeOptional \/ DeferredStart
           \/ Return \/ World \/ UNCHANGED vars
  <2>1. /\ UNCHANGED <<dbUnit, dbImage, serverImage, target>>
        /\ pc' = pc \/ pc' \in {"idle", "return"}
           \/ (pc \in {"serverUnit", "startServer"} /\ pc' \in {"startServer", "optional"})
    BY <1>7 DEF WriteServerUnit, StartServer, UpgradeOptional, DeferredStart, Return,
       World, ServerWrites, Revive, ContainerDies, Interrupt, Reboot, Killed, vars
  <2>2. serverRuns' \in {0, serverRuns, serverImage}
    BY <1>7, Zenon DEF WriteServerUnit, StartServer, UpgradeOptional, DeferredStart,
       Return, World, ServerWrites, Revive, ContainerDies, Interrupt, Reboot, Killed,
       vars
  <2>3. QED
    BY <2>1, <2>2
<1>8. QED
  BY <1>1, <1>2, <1>3, <1>4, <1>5, <1>6, <1>7 DEF Next, Step

LEMMA DBInOrderStep ==
  TypeOK /\ ImagesInOrder /\ DBInOrder /\ [Next]_vars => DBInOrder'
<1> SUFFICES ASSUME TypeOK, ImagesInOrder, DBInOrder, [Next]_vars,
                    ~external', ~downgraded', dbOn' # "none", ~early'
             PROVE  dbRuns' = dbImage' /\ pc' \notin Unwritten
  BY DEF DBInOrder
<1>0. ~external /\ ~downgraded /\ dbUnit
  BY ExternalKept DEF ImagesInOrder
<1> USE <1>0 DEF DBInOrder, Goto, Fail, Unwritten
<1>1. CASE StartDB \/ StartServer \/ DeferredStart \/ Revive
  <2>1. /\ DBRuns \/ DBStays
        /\ dbImage' = dbImage
        /\ pc' = pc \/ (pc' \notin Unwritten /\ pc \notin Unwritten)
    BY <1>1 DEF StartDB, StartServer, DeferredStart, Revive, units
  <2>2. CASE UNCHANGED database
    BY <2>1, <2>2
  <2>3. CASE dbRuns' = dbImage /\ early' = (pc \in Unwritten)
    BY <2>1, <2>3
  <2>4. QED
    BY <2>1, <2>2, <2>3 DEF DBRuns, DBStays
<1>2. CASE MoveData
  <2>1. pc = "data" /\ early' = early /\ (dbOn' = "none" <=> dbOn = "none")
    BY <1>2 DEF MoveData, MoveTo
  <2>2. QED
    BY <2>1
<1>3. CASE KeepData \/ MakeTarget \/ CopyData \/ Configure
  <2>1. pc \in Unwritten /\ UNCHANGED database
    BY <1>3 DEF KeepData, MakeTarget, CopyData, Configure
  <2>2. QED
    BY <2>1
<1>4. CASE WriteDBUnit
  <2>1. UNCHANGED database /\ pc \in {"setupUnit", "upgradeUnit"}
        /\ pc' \in {"setupStart", "upgradeStart", "return"}
        /\ dbImage' \in {dbImage, target.db}
    BY <1>4, Zenon DEF WriteDBUnit
  <2>2. pc = "upgradeUnit" => dbImage = target.db
    BY DEF ImagesInOrder
  <2>3. QED
    BY <2>1, <2>2
<1>5. CASE StopDB \/ ContainerDies \/ Reboot
  BY <1>5 DEF StopDB, ContainerDies, Reboot, units
<1>6. CASE \/ StopServer \/ WriteServerConf \/ WriteServerUnit \/ UpgradeOptional
           \/ Return \/ Interrupt \/ Command \/ ServerWrites \/ UNCHANGED vars
  <2>1. UNCHANGED <<dbOn, dbRuns, early, dbImage>> /\ (pc' = pc \/ pc' \notin Unwritten)
    BY <1>6 DEF StopServer, WriteServerConf, WriteServerUnit, UpgradeOptional,
       Return, Interrupt, Killed, Command, Begin, ServerWrites, vars, units
  <2>2. QED
    BY <2>1
<1>7. QED
  BY <1>1, <1>2, <1>3, <1>4, <1>5, <1>6 DEF Next, Step, World

\* However an upgrade or a PTF is cut, failed or repeated, neither the server unit
\* nor the running server has the image of a newer release than the unit of the
\* database and the running database, unless a command was let pass to a release
\* older than the unit's, or something else started the database too early.
THEOREM NeverAhead == Spec => []ServerNotAheadOfDB
<1>1. Init => ImagesInOrder /\ DBInOrder
  <2> SUFFICES ASSUME Init PROVE ImagesInOrder /\ DBInOrder
    OBVIOUS
  <2>1. /\ dbImage \in Int /\ serverImage = dbImage /\ serverRuns = serverImage
        /\ ~external => dbRuns = dbImage
    BY ReleaseAssumption DEF Init, Release
  <2>2. ~external => dbUnit
    BY Zenon DEF Init
  <2>3. pc = "idle"
    BY DEF Init
  <2>4. QED
    BY <2>1, <2>2, <2>3 DEF ImagesInOrder, DBInOrder, Unwritten
<1>2. TypeOK /\ ImagesInOrder /\ DBInOrder /\ [Next]_vars
        => ImagesInOrder' /\ DBInOrder'
  BY ImagesStep, DBInOrderStep
<1>3. TypeOK /\ ImagesInOrder /\ DBInOrder => ServerNotAheadOfDB
  <2> SUFFICES ASSUME TypeOK, ImagesInOrder, DBInOrder, dbUnit, ~external, ~downgraded
               PROVE  /\ serverImage <= dbImage /\ serverRuns <= dbImage
                      /\ (dbOn # "none" /\ ~early)
                            => (serverImage <= dbRuns /\ serverRuns <= dbRuns)
    BY DEF ServerNotAheadOfDB
  <2>1. serverImage <= dbImage /\ serverRuns <= serverImage
    BY DEF ImagesInOrder
  <2>2. serverImage <= dbImage /\ serverRuns <= dbImage
    BY <2>1, ImagesTyped
  <2>3. (dbOn # "none" /\ ~early) => dbRuns = dbImage
    BY DEF DBInOrder
  <2>4. QED
    BY <2>2, <2>3
<1>4. QED
  BY <1>1, <1>2, <1>3, Typed, PTL DEF Spec

-----------------------------------------------------------------------------
(* The database in use has every write.                                    *)

\* A directory with all the writes, and no database running elsewhere.
Complete(d) ==
  /\ dir[d].kind = "cluster" /\ dir[d].has = written
  /\ dbOn \in {d, "none"}

\* Where the complete data is at each step, as long as no command was cut and
\* no data directory was moved into an older one.
DataStage ==
  (~cut /\ ~nestedMove /\ ~external) =>
    /\ pc = "mkdir" => touched /\ Complete("old")
    /\ pc = "copy" => touched /\ (dir["data"] = Empty => Complete("old"))
    /\ pc = "return" => (touched /\ err) \/ Complete("data")
    /\ pc \notin {"mkdir", "copy", "return"} => Complete("data")

\* A start of the database leaves the complete directory complete.
LEMMA DBStartComplete ==
  ASSUME TypeOK, NEW d \in {"data", "old"}, Complete(d),
         d = "old" => dir["data"].kind # "cluster",
         DBRuns \/ DBStays, written' = written, d = "old" => dir'["data"].kind # "cluster"
  PROVE  Complete(d)'
<1>1. CASE UNCHANGED dir /\ dbOn' = dbOn
  BY <1>1 DEF Complete
<1>2. CASE UNCHANGED dir /\ dbOn' = "data" /\ dir["data"].kind = "cluster"
  BY <1>2 DEF Complete
<1>3. CASE /\ dbOn' = "data" /\ dir["data"].kind = "empty"
           /\ dir' = [dir EXCEPT !["data"] = Cluster(Pg[dbImage], {})]
  <2>1. dir'["data"].kind = "cluster"
    BY <1>3, Kinds, TypeParts DEF DirsOK, Dir
  <2>2. QED
    BY <1>3, <2>1 DEF Complete
<1>4. QED
  BY <1>1, <1>2, <1>3 DEF DBRuns, DBStays

LEMMA InitDataStage == Init => DataStage
<1> SUFFICES ASSUME Init, ~external PROVE DataStage
  BY DEF DataStage
<1>1. pc = "idle" /\ written = {} /\ dbOn = "data"
  BY DEF Init
<1>2. dir["data"] = Cluster(Pg[dbImage], {})
  BY DEF Init, Dir
<1>3. QED
  BY <1>1, <1>2, Kinds DEF DataStage, Complete

LEMMA DataStep == TypeOK /\ WInv /\ DataStage /\ [Next]_vars => DataStage'
<1> SUFFICES ASSUME TypeOK, WInv, DataStage, [Next]_vars,
                    ~cut', ~nestedMove', ~external'
             PROVE  DataStage'
  BY DEF DataStage
<1>0. /\ DirsOK /\ "data" \in Dir /\ "old" \in Dir
      /\ external' = external
  <2>1. external' = external
    BY DEF Next, Step, Command, World, StopServer, StopDB, MoveData, KeepData,
       MakeTarget, CopyData, Configure, WriteDBUnit, StartDB, WriteServerConf,
       WriteServerUnit, StartServer, UpgradeOptional, DeferredStart, Return, Begin,
       ServerWrites, Revive, ContainerDies, Interrupt, Reboot, Killed, units, vars
  <2>2. QED
    BY <2>1, TypeParts DEF Dir
<1> USE <1>0 DEF ghosts, Goto, Fail
<1>1. CASE \/ StopServer \/ StopDB \/ KeepData \/ Configure \/ WriteDBUnit
           \/ WriteServerConf \/ WriteServerUnit \/ UpgradeOptional \/ Command
  <2>1. /\ UNCHANGED <<dir, written>> /\ dbOn' \in {dbOn, "none"}
        /\ pc \notin {"mkdir", "copy", "return"} /\ pc' \notin {"mkdir", "copy"}
    BY <1>1 DEF StopServer, StopDB, KeepData, Configure, WriteDBUnit,
       WriteServerConf, WriteServerUnit, UpgradeOptional, Command, Begin
  <2>2. cut' = cut /\ nestedMove' = nestedMove
    BY <1>1 DEF StopServer, StopDB, KeepData, Configure, WriteDBUnit,
       WriteServerConf, WriteServerUnit, UpgradeOptional, Command, Begin
  <2>3. Complete("data")
    BY <2>1, <2>2 DEF DataStage
  <2>4. Complete("data")'
    BY <2>1, <2>3 DEF Complete
  <2>5. QED
    BY <2>1, <2>4 DEF DataStage
<1>2. CASE MoveData
  <2>1. /\ pc = "data" /\ written' = written
        /\ cut' = cut /\ (nestedMove' = nestedMove \/ nestedMove' = (nestedMove \/ MoveTo = "nested"))
    BY <1>2 DEF MoveData
  <2>2. Complete("data")
    BY <2>1 DEF DataStage
  <2>3. CASE UNCHANGED <<dir, dbOn>> /\ pc' = "return"
    <3>1. Complete("data")'
      BY <2>1, <2>2, <2>3 DEF Complete
    <3>2. QED
      BY <2>3, <3>1 DEF DataStage
  <2>4. CASE /\ dir' = [dir EXCEPT ![MoveTo] = dir["data"], !["data"] = Absent]
             /\ dbOn' = IF dbOn = "data" THEN MoveTo ELSE dbOn
             /\ touched' = TRUE /\ nestedMove' = (nestedMove \/ MoveTo = "nested")
             /\ pc' = "mkdir"
    <3>1. MoveTo = "old"
      BY <2>4 DEF MoveTo
    <3>2. dir'["old"] = dir["data"]
      BY <2>4, <3>1 DEF DirsOK
    <3>3. Complete("old")'
      BY <2>1, <2>2, <2>4, <3>1, <3>2 DEF Complete
    <3>4. QED
      BY <2>4, <3>3 DEF DataStage
  <2>5. QED
    BY <1>2, <2>3, <2>4 DEF MoveData
<1>3. CASE MakeTarget
  <2>1. /\ pc = "mkdir" /\ UNCHANGED <<dbOn, written, touched>>
        /\ dir' = dir \/ dir' = [dir EXCEPT !["data"] = Empty]
        /\ pc' = "copy" \/ (pc' = "return" /\ err' = TRUE)
    BY <1>3 DEF MakeTarget
  <2>2. touched /\ Complete("old")
    BY <1>3, <2>1 DEF MakeTarget, DataStage
  <2>3. Complete("old")'
    BY <2>1, <2>2 DEF Complete, DirsOK
  <2>4. QED
    BY <2>1, <2>2, <2>3 DEF DataStage
<1>4. CASE CopyData
  <2>1. pc = "copy" /\ UNCHANGED <<dbOn, written, touched>> /\ cut' = cut
        /\ nestedMove' = nestedMove
    BY <1>4 DEF CopyData
  <2>2. touched /\ (dir["data"] = Empty => Complete("old"))
    BY <2>1 DEF DataStage
  <2>3. CASE pc' = "return" /\ err' = TRUE
    BY <2>1, <2>2, <2>3 DEF DataStage
  <2>4. CASE /\ dbOn # "old" /\ dir["data"] = Empty
             /\ dir' = [dir EXCEPT !["data"] = Cluster(NewPg, dir["old"].has)]
             /\ pc' = "configure"
    <3>1. Complete("data")'
      BY <2>1, <2>2, <2>4, Kinds DEF Complete, DirsOK
    <3>2. QED
      BY <2>4, <3>1 DEF DataStage
  <2>5. QED
    BY <1>4, <2>3, <2>4 DEF CopyData
<1>5. CASE StartDB \/ StartServer \/ DeferredStart \/ Revive
  <2>1. /\ DBRuns \/ DBStays
        /\ UNCHANGED <<written, touched, cut, nestedMove>>
        /\ \/ pc' = pc /\ err' = err
           \/ {pc, pc'} \cap {"mkdir", "copy"} = {} /\ pc # "return"
    BY <1>5 DEF StartDB, StartServer, DeferredStart, Revive
  <2>2. ASSUME Complete("data") PROVE Complete("data")'
    BY <2>1, <2>2, DBStartComplete
  <2>3. ASSUME pc = "mkdir" PROVE Complete("old")'
    <3>1. dir["data"] = Absent /\ Complete("old")
      BY <2>1, <2>3 DEF WInv, MkdirFindsNothing, DataStage
    <3>2. UNCHANGED <<dir, dbOn>>
      BY <2>1, <3>1, Kinds DEF DBRuns, DBStays
    <3>3. QED
      BY <2>1, <3>1, <3>2 DEF Complete
  <2>4. ASSUME pc = "copy", dir'["data"] = Empty PROVE Complete("old")'
    <3>1. dir["data"] = Empty
      BY <2>1, <2>4, Kinds DEF DBRuns, DBStays, DirsOK
    <3>2. Complete("old")
      BY <2>1, <2>4, <3>1 DEF DataStage
    <3>3. QED
      BY <2>1, <2>4, <3>1, <3>2, Kinds, DBStartComplete
  <2>5. ~cut /\ ~nestedMove
    BY <2>1
  <2>6. CASE pc' = pc /\ err' = err
    <3>1. pc = "mkdir" => touched' /\ Complete("old")'
      BY <2>1, <2>3, <2>5 DEF DataStage
    <3>2. pc = "copy" => touched' /\ (dir'["data"] = Empty => Complete("old")')
      BY <2>1, <2>4, <2>5 DEF DataStage
    <3>3. pc = "return" => (touched' /\ err') \/ Complete("data")'
      BY <2>1, <2>2, <2>5, <2>6 DEF DataStage
    <3>4. pc \notin {"mkdir", "copy", "return"} => Complete("data")'
      BY <2>2, <2>5 DEF DataStage
    <3>5. QED
      BY <2>6, <3>1, <3>2, <3>3, <3>4 DEF DataStage
  <2>7. CASE {pc, pc'} \cap {"mkdir", "copy"} = {} /\ pc # "return"
    <3>1. Complete("data")'
      BY <2>2, <2>5, <2>7 DEF DataStage
    <3>2. QED
      BY <2>7, <3>1 DEF DataStage
  <2>8. QED
    BY <2>1, <2>6, <2>7
<1>6. CASE Return
  <2>1. /\ pc = "return" /\ pc' = "idle" /\ UNCHANGED <<dir, dbOn, written>>
        /\ cut' = (cut \/ (touched /\ (err \/ cmd = "ptf"))) /\ nestedMove' = nestedMove
    BY <1>6 DEF Return
  <2>2. ~ (touched /\ err) /\ ~cut
    BY <2>1
  <2>3. Complete("data")
    BY <2>1, <2>2 DEF DataStage
  <2>4. QED
    BY <2>1, <2>3 DEF DataStage, Complete
<1>7. CASE Interrupt \/ Reboot
  <2>1. /\ pc' = "idle" /\ UNCHANGED <<dir, written>> /\ dbOn' \in {dbOn, "none"}
        /\ cut' = (cut \/ (pc # "idle" /\ touched)) /\ nestedMove' = nestedMove
    BY <1>7 DEF Interrupt, Reboot, Killed
  <2>2. (pc = "idle" \/ ~touched) /\ ~cut
    BY <2>1
  <2>3. Complete("data")
    BY <2>1, <2>2 DEF DataStage
  <2>4. QED
    BY <2>1, <2>3 DEF DataStage, Complete
<1>8. CASE ContainerDies \/ UNCHANGED vars
  <2>1. /\ UNCHANGED <<dir, written, pc, touched, err, cut, nestedMove>>
        /\ dbOn' \in {dbOn, "none"}
    BY <1>8 DEF ContainerDies, vars
  <2>2. QED
    BY <2>1 DEF DataStage, Complete
<1>9. CASE ServerWrites
  <2>1. PICK w \in Write : dir' = [dir EXCEPT ![dbOn].has = @ \cup {w}]
                           /\ written' = written \cup {w}
    BY <1>9 DEF ServerWrites
  <2>2. /\ dbOn \in Dir /\ dir[dbOn].kind = "cluster"
        /\ UNCHANGED <<dbOn, pc, touched, err, cut, nestedMove>>
    BY <1>9 DEF ServerWrites, DirsOK
  <2>3. ASSUME NEW d \in Dir, Complete(d) PROVE Complete(d)'
    <3>1. d = dbOn
      BY <2>2, <2>3 DEF Complete, Dir
    <3>2. dir'[d] = [dir[d] EXCEPT !.has = @ \cup {w}]
      BY <2>1, <2>2, <3>1 DEF DirsOK
    <3>3. dir'[d].kind = "cluster" /\ dir'[d].has = dir[d].has \cup {w}
      BY <2>2, <3>1, <3>2 DEF DirsOK, Contents
    <3>4. QED
      BY <2>1, <2>2, <2>3, <3>3 DEF Complete
  <2>4. dir'["data"] = Empty => dir["data"] = Empty
    <3>1. CASE dbOn = "data"
      <4>1. dir'["data"].kind = "cluster"
        BY <2>1, <2>2, <3>1 DEF DirsOK, Contents
      <4>2. QED
        BY <4>1, Kinds
    <3>2. CASE dbOn # "data"
      BY <2>1, <2>2, <3>2 DEF DirsOK
    <3>3. QED
      BY <3>1, <3>2
  <2>5. QED
    BY <2>2, <2>3, <2>4 DEF DataStage
<1>10. QED
  BY <1>1, <1>2, <1>3, <1>4, <1>5, <1>6, <1>7, <1>8, <1>9 DEF Next, Step, World

\* Between two commands the data directory in use is a cluster with every write.
THEOREM DatabaseKept == Spec => []DatabaseComplete
<1>1. Init => TypeOK /\ WInv /\ DataStage
  BY InitTyped, InitWInv, InitDataStage
<1>2. TypeOK /\ WInv /\ DataStage /\ [Next]_vars => (TypeOK /\ WInv /\ DataStage)'
  BY TypeStep, WStep, DataStep
<1>3. DataStage => DatabaseComplete
  BY DEF DataStage, Complete, DatabaseComplete
<1>4. QED
  BY <1>1, <1>2, <1>3, PTL DEF Spec

-----------------------------------------------------------------------------
(* TFTP is not lost.                                                       *)

\* Who serves TFTP at each step: the server unit or the service up to the step
\* that writes the server unit, then what the command remembers.
TFTPStage ==
  (~cut /\ served) =>
    /\ pc \notin {"idle", "return"} => hasTFTP
    /\ pc \in {"startServer", "optional"} => touched
    /\ pc = "return" => (touched /\ (err \/ cmd = "ptf")) \/ tftp \/ exposesTFTP
    /\ pc \notin {"startServer", "optional", "return"} => tftp \/ exposesTFTP

LEMMA TFTPStep == TypeOK /\ TFTPStage /\ [Next]_vars => TFTPStage'
<1> SUFFICES ASSUME TypeOK, TFTPStage, [Next]_vars, ~cut', served'
             PROVE  TFTPStage'
  BY DEF TFTPStage
<1> USE DEF Goto, Fail, units, call, ghosts
<1>1. CASE \/ StopServer \/ StopDB \/ MoveData \/ KeepData \/ MakeTarget \/ CopyData
           \/ Configure \/ WriteDBUnit \/ StartDB \/ WriteServerConf
  <2>1. /\ UNCHANGED <<hasTFTP, tftp, exposesTFTP, cut, served>>
        /\ pc \notin {"idle", "startServer", "optional", "return"}
        /\ pc' \notin {"idle", "startServer", "optional"}
    BY <1>1 DEF StopServer, StopDB, MoveData, KeepData, MakeTarget, CopyData,
       Configure, WriteDBUnit, StartDB, WriteServerConf
  <2>2. QED
    BY <2>1 DEF TFTPStage
<1>2. CASE WriteServerUnit
  <2>1. /\ UNCHANGED <<hasTFTP, tftp, cut, served>> /\ pc = "serverUnit"
        /\ \/ touched' = TRUE /\ pc' = "startServer"
           \/ touched' = TRUE /\ pc' = "return" /\ err' = TRUE
           \/ exposesTFTP' = exposesTFTP /\ pc' = "return"
    BY <1>2 DEF WriteServerUnit
  <2>2. ~cut /\ served /\ hasTFTP /\ (tftp \/ exposesTFTP)
    BY <2>1 DEF TFTPStage
  <2>3. QED
    BY <2>1, <2>2 DEF TFTPStage
<1>3. CASE StartServer
  <2>1. /\ UNCHANGED <<hasTFTP, tftp, exposesTFTP, cut, served, touched>>
        /\ pc = "startServer" /\ (pc' = "optional" \/ (pc' = "return" /\ err' = TRUE))
    BY <1>3 DEF StartServer
  <2>2. QED
    BY <2>1 DEF TFTPStage
<1>4. CASE UpgradeOptional
  <2>1. /\ pc = "optional" /\ pc' = "return" /\ cut' = cut
        /\ UNCHANGED <<touched, cmd, exposesTFTP>>
    BY <1>4 DEF UpgradeOptional
  <2>2. CASE err' = TRUE /\ UNCHANGED <<tftp, served>>
    BY <2>1, <2>2 DEF TFTPStage
  <2>3. ASSUME NEW wish \in IF cmd = "ptf" THEN {"as is"} ELSE Wish,
               tftp' = IF cmd = "ptf" THEN tftp ELSE TFTPAfter(wish),
               served' = (wish = "on" \/ (wish = "as is" /\ served))
        PROVE  TFTPStage'
    <3>1. wish = "on" \/ (wish = "as is" /\ served)
      BY <2>3
    <3>2. CASE cmd = "ptf"
      <4>1. wish = "as is" /\ served
        BY <2>3, <3>1, <3>2
      <4>2. touched
        BY <2>1, <4>1 DEF TFTPStage
      <4>3. QED
        BY <2>1, <3>2, <4>2 DEF TFTPStage
    <3>3. CASE cmd # "ptf"
      <4>1. wish = "as is" => hasTFTP
        BY <2>1, <3>1 DEF TFTPStage
      <4>2. TFTPAfter(wish)
        BY <3>1, <4>1 DEF TFTPAfter
      <4>3. tftp'
        BY <2>3, <3>3, <4>2
      <4>4. QED
        BY <2>1, <4>3 DEF TFTPStage
    <3>4. QED
      BY <3>2, <3>3
  <2>4. QED
    BY <1>4, <2>1, <2>2, <2>3 DEF UpgradeOptional
<1>5. CASE DeferredStart
  BY <1>5 DEF DeferredStart, TFTPStage
<1>6. CASE Return
  <2>1. /\ pc = "return" /\ pc' = "idle" /\ UNCHANGED <<served, tftp, exposesTFTP>>
        /\ cut' = (cut \/ (touched /\ (err \/ cmd = "ptf")))
    BY <1>6 DEF Return
  <2>2. tftp \/ exposesTFTP
    BY <2>1 DEF TFTPStage
  <2>3. QED
    BY <2>1, <2>2 DEF TFTPStage
<1>7. CASE Command
  <2>1. /\ UNCHANGED <<cut, served, tftp, exposesTFTP>> /\ pc = "idle"
        /\ pc' = "stopServer" /\ hasTFTP' = (tftp \/ exposesTFTP)
    BY <1>7 DEF Command, Begin
  <2>2. QED
    BY <2>1 DEF TFTPStage
<1>8. CASE Interrupt \/ Reboot
  <2>1. /\ pc' = "idle" /\ UNCHANGED <<served, tftp, exposesTFTP>>
        /\ cut' = (cut \/ (pc # "idle" /\ touched))
    BY <1>8 DEF Interrupt, Reboot, Killed
  <2>2. tftp \/ exposesTFTP
    BY <2>1 DEF TFTPStage
  <2>3. QED
    BY <2>1, <2>2 DEF TFTPStage
<1>9. CASE ServerWrites \/ Revive \/ ContainerDies \/ UNCHANGED vars
  BY <1>9 DEF ServerWrites, Revive, ContainerDies, vars, TFTPStage
<1>10. QED
  BY <1>1, <1>2, <1>3, <1>4, <1>5, <1>6, <1>7, <1>8, <1>9 DEF Next, Step, World

\* TFTP that the administrator wants is served between two commands, unless an
\* upgrade was cut short or a PTF wrote the server unit.
THEOREM TFTPServed == Spec => []TFTPKept
<1>1. Init => TFTPStage
  <2>1. Init => pc = "idle" /\ (served => tftp \/ exposesTFTP)
    BY Zenon DEF Init
  <2>2. QED
    BY <2>1 DEF TFTPStage
<1>2. TypeOK /\ TFTPStage /\ [Next]_vars => TFTPStage'
  BY TFTPStep
<1>3. TFTPStage => TFTPKept
  BY DEF TFTPStage, TFTPKept
<1>4. QED
  BY <1>1, <1>2, <1>3, Typed, PTL DEF Spec
=============================================================================
