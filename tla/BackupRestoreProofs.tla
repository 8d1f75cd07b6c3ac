------------------------- MODULE BackupRestoreProofs -------------------------
(***************************************************************************)
(* Proofs about BackupRestore, for any volumes, any secrets and commands   *)
(* with any number of flags.                                               *)
(***************************************************************************)
EXTENDS BackupRestore, TLAPS

\* What a volume or a tar file may hold.
Content == Maybe(SUBSET Part)

(* TypeOK in five parts: the volumes, what else is on the host, the         *)
(* directory, the command and which host it is.                             *)

VolumesOK == vol \in [Volume -> Content]

ConfigOK ==
  /\ secrets \subseteq Secret /\ network \in BOOLEAN
  /\ units \subseteq Unit /\ running \in BOOLEAN

DirOK ==
  /\ dirs \in 0 .. 3
  /\ file \in [Volume -> [data : Content, sum : Content]]
  /\ conf \in Maybe([network : BOOLEAN, secrets : SUBSET Secret, sum : BOOLEAN])
  /\ sysd \in Maybe([units : SUBSET Unit, sum : BOOLEAN])

CallOK ==
  /\ cmd \in {"none", "create", "restore"}
  /\ pc \in {"idle", "mkdir", "space", "stop", "export",
             "units", "podman", "start", "verify", "untar", "network", "secrets",
             "return"}
  /\ flags \subseteq CreateFlag \cup RestoreFlag
  /\ left \subseteq Volume /\ cur \in Maybe(Volume) /\ present \subseteq Volume
  /\ err \in BOOLEAN
  /\ saved \in [Volume -> Content]

SiteOK == site \in {0, 1}

LEMMA TypeParts == TypeOK <=> VolumesOK /\ ConfigOK /\ DirOK /\ CallOK /\ SiteOK
BY Zenon DEF TypeOK, VolumesOK, ConfigOK, DirOK, CallOK, SiteOK, Content

\* A set with at most one element, and what becomes of it.
LEMMA ContentTyped ==
  /\ {} \in Content /\ {{}} \in Content /\ {Whole} \in Content /\ {{"fresh"}} \in Content
  /\ \A m \in Content : \A d \in m : d \in SUBSET Part
  /\ \A m \in Content : {Cut(x) : x \in m} \in Content
  /\ \A m \in Content, d \in SUBSET Part : {x \cup d : x \in m} \in Content
<1>1. /\ {} \in Content /\ {{}} \in Content /\ {Whole} \in Content
      /\ {{"fresh"}} \in Content
  BY DEF Content, Maybe, Whole, Part
<1>2. ASSUME NEW m \in Content, NEW d \in m PROVE d \in SUBSET Part
  BY <1>2 DEF Content, Maybe
<1>3. ASSUME NEW m \in Content PROVE {Cut(x) : x \in m} \in Content
  <2>1. CASE m = {}
    BY <2>1, <1>1
  <2>2. CASE m # {}
    <3>1. PICK e \in SUBSET Part : m = {e}
      BY <2>2 DEF Content, Maybe
    <3>2. {Cut(x) : x \in m} = {Cut(e)} /\ Cut(e) \in SUBSET Part
      BY <3>1 DEF Cut
    <3>3. QED
      BY <3>2 DEF Content, Maybe
  <2>3. QED
    BY <2>1, <2>2
<1>4. ASSUME NEW m \in Content, NEW d \in SUBSET Part
      PROVE  {x \cup d : x \in m} \in Content
  <2>1. CASE m = {}
    BY <2>1, <1>1
  <2>2. CASE m # {}
    <3>1. PICK e \in SUBSET Part : m = {e}
      BY <2>2 DEF Content, Maybe
    <3>2. {x \cup d : x \in m} = {e \cup d} /\ e \cup d \in SUBSET Part
      BY <3>1
    <3>3. QED
      BY <3>2 DEF Content, Maybe
  <2>3. QED
    BY <2>1, <2>2
<1>5. QED
  BY <1>1, <1>2, <1>3, <1>4

LEMMA InitTyped == Init => TypeOK
<1> SUFFICES ASSUME Init PROVE TypeOK
  OBVIOUS
<1>1. VolumesOK
  BY ContentTyped DEF Init, VolumesOK
<1>2. ConfigOK
  <2>1. network \in BOOLEAN /\ running \in BOOLEAN
    BY Zenon DEF Init
  <2>2. secrets \subseteq Secret /\ units \subseteq Unit
    BY Zenon DEF Init
  <2>3. QED
    BY <2>1, <2>2, Zenon DEF ConfigOK
<1>3. DirOK
  <2>1. [data |-> {}, sum |-> {}] \in [data : Content, sum : Content]
    BY ContentTyped
  <2>2. conf = {} /\ sysd = {} /\ file = [v \in Volume |-> NoFile] /\ dirs \in {0, 1}
    BY Zenon DEF Init
  <2>3. QED
    BY <2>1, <2>2 DEF DirOK, NoFile, Maybe
<1>4. CallOK
  <2>1. err \in BOOLEAN
    BY Zenon DEF Init
  <2>2. /\ cmd = "none" /\ pc = "idle" /\ flags = {} /\ left = {} /\ cur = {}
        /\ present = {} /\ saved = [v \in Volume |-> {}]
    BY Zenon DEF Init
  <2>3. saved \in [Volume -> Content] /\ cur \in Maybe(Volume)
    BY <2>2, ContentTyped DEF Maybe
  <2>4. QED
    BY <2>1, <2>2, <2>3 DEF CallOK
<1>5. SiteOK
  BY DEF Init, SiteOK
<1>6. QED
  BY <1>1, <1>2, <1>3, <1>4, <1>5, TypeParts

-----------------------------------------------------------------------------
(* The type invariant *)

\* What tar may have left behind when it stops.
LEMMA HalfExtractTyped ==
  ASSUME VolumesOK, DirOK, CallOK, HalfExtract
  PROVE  VolumesOK'
<1>1. PICK v \in cur : \E d \in file[v].data :
                          Extract(v, d) \/ Extract(v, Cut(d)) \/ Tear(v, d)
  BY DEF HalfExtract
<1>2. PICK d \in file[v].data : Extract(v, d) \/ Extract(v, Cut(d)) \/ Tear(v, d)
  BY <1>1
<1>3. v \in Volume
  BY DEF CallOK, Maybe
<1>4. d \in SUBSET Part /\ Cut(d) \in SUBSET Part
  BY <1>3, ContentTyped DEF DirOK, Cut
<1>5. \A e \in SUBSET Part : {x \cup e : x \in vol[v]} \in Content
  BY <1>3, ContentTyped DEF VolumesOK
<1>6. {Cut(x \cup d) : x \in vol[v]} \in Content
  <2>1. {Cut(x \cup d) : x \in vol[v]} = {Cut(y) : y \in {x \cup d : x \in vol[v]}}
    OBVIOUS
  <2>2. QED
    BY <2>1, <1>4, <1>5, ContentTyped
<1>7. QED
  BY <1>2, <1>3, <1>4, <1>5, <1>6 DEF Extract, Tear, VolumesOK

LEMMA VolumesStep == TypeOK /\ [Next]_vars => VolumesOK'
<1> SUFFICES ASSUME TypeOK, [Next]_vars PROVE VolumesOK'
  OBVIOUS
<1>0. VolumesOK /\ DirOK /\ CallOK
  BY TypeParts
<1>1. ASSUME vol' = vol PROVE VolumesOK'
  BY <1>0, <1>1 DEF VolumesOK
<1>2. ASSUME vol' = StartedVolumes PROVE VolumesOK'
  BY <1>0, <1>2, ContentTyped DEF VolumesOK, StartedVolumes
<1>3. CASE StartAgain
  <2>1. vol' = vol \/ vol' = StartedVolumes
    BY <1>3, Zenon DEF StartAgain
  <2>2. QED
    BY <2>1, <1>1, <1>2
<1>4. CASE Restart
  <2>1. vol' = vol \/ vol' = StartedVolumes
    BY <1>4, Zenon DEF Restart
  <2>2. QED
    BY <2>1, <1>1, <1>2
<1>5. CASE VerifyVolume
  <2>1. vol' = vol \/ \E v \in left : vol' = [vol EXCEPT ![v] = IF Exists(v) THEN @ ELSE {{}}]
    BY <1>5, Zenon DEF VerifyVolume
  <2>2. QED
    BY <2>1, <1>0, ContentTyped DEF VolumesOK, CallOK
<1>6. CASE UntarVolume
  <2>1. CASE HalfExtract
    BY <2>1, <1>0, HalfExtractTyped
  <2>2. CASE \E v \in cur : \E d \in file[v].data : Extract(v, d)
    BY <2>2, <1>0, HalfExtractTyped DEF HalfExtract
  <2>3. QED
    BY <1>6, <2>1, <2>2, Zenon DEF UntarVolume
<1>7. CASE Interrupt
  <2>1. vol' = vol \/ HalfExtract
    BY <1>7, Zenon DEF Interrupt
  <2>2. QED
    BY <2>1, <1>1, <1>0, HalfExtractTyped
<1>8. CASE Disaster \/ Reinstall
  <2>1. vol' = [v \in Volume |-> {}] \/ vol' = [v \in Volume |-> {{"fresh"}}]
    BY <1>8, Zenon DEF Disaster, Reinstall
  <2>2. QED
    BY <2>1, ContentTyped DEF VolumesOK
<1>9. CASE \/ BeginCreate \/ MakeDirs \/ CheckSpace \/ StopServices \/ ExportVolume
           \/ ExportImages \/ ExportUnits \/ ExportPodman \/ BeginRestore \/ LoadImages
           \/ RestorePodman \/ RestoreNetwork \/ RestoreSecrets \/ RestoreUnits
           \/ Return \/ Rot \/ UNCHANGED vars
  <2>1. vol' = vol
    BY <1>9, Zenon DEF BeginCreate, MakeDirs, CheckSpace, StopServices, ExportVolume,
       ExportImages, ExportUnits, ExportPodman, BeginRestore, LoadImages, RestorePodman,
       RestoreNetwork, RestoreSecrets, RestoreUnits, Return, Rot, Start, Refused, host, vars
  <2>2. QED
    BY <2>1, <1>1
<1>10. QED
  BY <1>3, <1>4, <1>5, <1>6, <1>7, <1>8, <1>9, Zenon DEF Next, Create, Restore, World

LEMMA ConfigStep == TypeOK /\ [Next]_vars => ConfigOK'
<1> SUFFICES ASSUME TypeOK, [Next]_vars PROVE ConfigOK'
  OBVIOUS
<1>0. ConfigOK /\ DirOK
  BY TypeParts
<1>1. ASSUME UNCHANGED <<secrets, network, units, running>> PROVE ConfigOK'
  BY <1>0, <1>1, Zenon DEF ConfigOK
<1>2. CASE StopServices \/ StartAgain \/ Restart
  <2>1. UNCHANGED <<secrets, network, units>>
    BY <1>2, Zenon DEF StopServices, StartAgain, Restart
  <2>2. running' \in BOOLEAN
    <3>1. running' = running \/ running' = TRUE \/ running' = FALSE
      BY <1>2 DEF StopServices, StartAgain, Restart
    <3>2. QED
      BY <3>1, <1>0, Zenon DEF ConfigOK
  <2>3. QED
    BY <2>1, <2>2, <1>0, Zenon DEF ConfigOK
<1>3. CASE RestorePodman \/ RestoreNetwork
  <2>1. UNCHANGED <<secrets, units, running>>
    BY <1>3, Zenon DEF RestorePodman, RestoreNetwork
  <2>2. network' \in BOOLEAN
    <3>1. network' = network \/ network' = TRUE \/ network' = FALSE
      BY <1>3 DEF RestorePodman, RestoreNetwork, MakeNetwork
    <3>2. QED
      BY <3>1, <1>0, Zenon DEF ConfigOK
  <2>3. QED
    BY <2>1, <2>2, <1>0, Zenon DEF ConfigOK
<1>4. CASE RestoreSecrets
  <2>1. UNCHANGED <<network, units, running>>
    BY <1>4, Zenon DEF RestoreSecrets
  <2>2. PICK c \in conf : \E failed \in SUBSET Secret : secrets' = secrets \cup (c.secrets \ failed)
    <3>1. PICK c \in conf : \E failed \in SUBSET {s \in c.secrets : s \in secrets => Set("force")} :
                              secrets' = secrets \cup (c.secrets \ failed)
      BY <1>4, Zenon DEF RestoreSecrets
    <3>2. c.secrets \subseteq Secret
      BY <1>0 DEF DirOK, Maybe
    <3>3. QED
      BY <3>1, <3>2
  <2>3. c.secrets \subseteq Secret
    BY <1>0 DEF DirOK, Maybe
  <2>4. secrets' \subseteq Secret
    BY <2>2, <2>3, <1>0 DEF ConfigOK
  <2>5. QED
    BY <2>1, <2>4, <1>0, Zenon DEF ConfigOK
<1>5. CASE RestoreUnits
  <2>1. running' = running
    BY <1>5, Zenon DEF RestoreUnits
  <2>2. CASE DefaultUnits
    <3>1. network' \in BOOLEAN
      <4>1. network' = network \/ network' = TRUE
        BY <2>2 DEF DefaultUnits
      <4>2. QED
        BY <4>1, <1>0, Zenon DEF ConfigOK
    <3>2. secrets' \subseteq Secret /\ units' \subseteq Unit
      BY <2>2, <1>0 DEF DefaultUnits, ConfigOK, Unit
    <3>3. QED
      BY <2>1, <3>1, <3>2, <1>0, Zenon DEF ConfigOK
  <2>3. CASE UNCHANGED <<network, secrets, units>>
    BY <2>1, <2>3, <1>1
  <2>4. CASE UNCHANGED <<network, secrets>> /\ \E c \in sysd : \E u \in SUBSET c.units :
               units' \subseteq units \cup u
    <3>1. \A c \in sysd : c.units \subseteq Unit
      BY <1>0 DEF DirOK, Maybe
    <3>2. units' \subseteq Unit
      BY <2>4, <3>1, <1>0 DEF ConfigOK
    <3>3. QED
      BY <2>1, <2>4, <3>2, <1>0, Zenon DEF ConfigOK
  <2>5. \/ DefaultUnits \/ UNCHANGED <<network, secrets, units>>
        \/ /\ UNCHANGED <<network, secrets>>
           /\ \E c \in sysd : \/ units' = units
                               \/ units' = units \cup c.units
                               \/ \E failed \in SUBSET c.units : \E gone \in SUBSET failed :
                                    units' = (units \cup (c.units \ failed)) \ gone
    BY <1>5, Zenon DEF RestoreUnits
  <2>6. ASSUME NEW c \in sysd, \/ units' = units
                               \/ units' = units \cup c.units
                               \/ \E failed \in SUBSET c.units : \E gone \in SUBSET failed :
                                    units' = (units \cup (c.units \ failed)) \ gone
        PROVE  \E u \in SUBSET c.units : units' \subseteq units \cup u
    <3>1. units' \subseteq units \cup c.units
      BY <2>6
    <3>2. QED
      BY <3>1
  <2>7. QED
    BY <2>2, <2>3, <2>4, <2>5, <2>6, Zenon
<1>6. CASE Disaster \/ Reinstall
  <2>1. network' \in BOOLEAN /\ running' \in BOOLEAN
    BY <1>6, Zenon DEF Disaster, Reinstall
  <2>2. secrets' \subseteq Secret /\ units' \subseteq Unit
    BY <1>6, Zenon DEF Disaster, Reinstall
  <2>3. QED
    BY <2>1, <2>2, Zenon DEF ConfigOK
<1>7. CASE \/ BeginCreate \/ MakeDirs \/ CheckSpace \/ ExportVolume
           \/ ExportImages \/ ExportUnits \/ ExportPodman \/ BeginRestore \/ LoadImages
           \/ VerifyVolume \/ UntarVolume
           \/ Return \/ Interrupt \/ Rot \/ UNCHANGED vars
  <2>1. UNCHANGED <<secrets, network, units, running>>
    BY <1>7, Zenon DEF BeginCreate, MakeDirs, CheckSpace, ExportVolume,
       ExportImages, ExportUnits, ExportPodman, BeginRestore, LoadImages, VerifyVolume,
       UntarVolume, Return, Interrupt, Rot, Start, Refused, HostButVolumes, host, vars
  <2>2. QED
    BY <2>1, <1>1
<1>8. QED
  BY <1>2, <1>3, <1>4, <1>5, <1>6, <1>7, Zenon DEF Next, Create, Restore, World

LEMMA DirStep == TypeOK /\ [Next]_vars => DirOK'
<1> SUFFICES ASSUME TypeOK, [Next]_vars PROVE DirOK'
  OBVIOUS
<1>0. DirOK /\ VolumesOK /\ ConfigOK /\ CallOK
  BY TypeParts
<1>1. CASE MakeDirs
  <2>1. dirs' \in 0 .. 3 /\ UNCHANGED <<file, conf, sysd>>
    <3>1. dirs' \in {0, 1, 2, 3} \cup {dirs}
      BY <1>1 DEF MakeDirs
    <3>2. UNCHANGED <<file, conf, sysd>>
      BY <1>1, Zenon DEF MakeDirs
    <3>3. QED
      BY <3>1, <3>2, <1>0 DEF DirOK
  <2>2. QED
    BY <2>1, <1>0 DEF DirOK
<1>2. CASE ExportVolume \/ Interrupt
  <2>1. UNCHANGED <<dirs, conf, sysd>>
    BY <1>2, Zenon DEF ExportVolume, Interrupt
  <2>2. \/ file' = file
        \/ \E v \in left : \E d \in {{}, {Cut(x) : x \in vol[v]}, vol[v]} :
              \E s \in {{}, vol[v]} : file' = [file EXCEPT ![v] = [data |-> d, sum |-> s]]
    BY <1>2 DEF ExportVolume, Interrupt, HalfExport
  <2>3. ASSUME NEW v \in left PROVE v \in Volume /\ vol[v] \in Content
    BY <1>0 DEF CallOK, VolumesOK
  <2>4. ASSUME NEW v \in left, NEW d \in {{}, {Cut(x) : x \in vol[v]}, vol[v]},
               NEW s \in {{}, vol[v]}
        PROVE  [data |-> d, sum |-> s] \in [data : Content, sum : Content]
    <3>1. d \in Content /\ s \in Content
      BY <2>3, ContentTyped
    <3>2. QED
      BY <3>1
  <2>5. file' \in [Volume -> [data : Content, sum : Content]]
    BY <2>2, <2>3, <2>4, <1>0 DEF DirOK
  <2>6. QED
    BY <2>1, <2>5, <1>0 DEF DirOK
<1>3. CASE ExportUnits
  <2>1. UNCHANGED <<dirs, file, conf>>
    BY <1>3, Zenon DEF ExportUnits
  <2>2. sysd' = {} \/ \E u \in SUBSET units, b \in BOOLEAN : sysd' = {[units |-> u, sum |-> b]}
    BY <1>3 DEF ExportUnits
  <2>3. \A u \in SUBSET units, b \in BOOLEAN : [units |-> u, sum |-> b] \in [units : SUBSET Unit, sum : BOOLEAN]
    BY <1>0 DEF ConfigOK
  <2>4. sysd' \in Maybe([units : SUBSET Unit, sum : BOOLEAN])
    BY <2>2, <2>3 DEF Maybe
  <2>5. QED
    BY <2>1, <2>4, <1>0 DEF DirOK
<1>4. CASE ExportPodman
  <2>1. UNCHANGED <<dirs, file, sysd>>
    BY <1>4, Zenon DEF ExportPodman
  <2>2. network \in BOOLEAN
    BY <1>0, Zenon DEF ConfigOK
  <2>3. PICK n \in {FALSE, network}, s \in {{}, secrets} :
          conf' = {} \/ \E b \in BOOLEAN : conf' = {[network |-> n, secrets |-> s, sum |-> b]}
    BY <1>4 DEF ExportPodman
  <2>4. n \in BOOLEAN /\ s \in SUBSET Secret
    <3>1. n = FALSE \/ n = network
      OBVIOUS
    <3>2. n \in BOOLEAN
      BY <3>1, <2>2, Zenon
    <3>3. s \in SUBSET Secret
      BY <1>0 DEF ConfigOK
    <3>4. QED
      BY <3>2, <3>3
  <2>5. \A b \in BOOLEAN : [network |-> n, secrets |-> s, sum |-> b]
                             \in [network : BOOLEAN, secrets : SUBSET Secret, sum : BOOLEAN]
    BY <2>4
  <2>6. conf' \in Maybe([network : BOOLEAN, secrets : SUBSET Secret, sum : BOOLEAN])
    BY <2>3, <2>5 DEF Maybe
  <2>7. QED
    BY <2>1, <2>6, <1>0 DEF DirOK
<1>5. CASE Rot
  <2>1. UNCHANGED <<dirs, conf, sysd>>
    BY <1>5, Zenon DEF Rot
  <2>2. PICK v \in Volume : file' = [file EXCEPT ![v].data = {Cut(d) : d \in @}]
    BY <1>5 DEF Rot
  <2>3. {Cut(d) : d \in file[v].data} \in Content
    BY <1>0, ContentTyped DEF DirOK
  <2>4. file' \in [Volume -> [data : Content, sum : Content]]
    BY <2>2, <2>3, <1>0 DEF DirOK
  <2>5. QED
    BY <2>1, <2>4, <1>0 DEF DirOK
<1>6. CASE \/ BeginCreate \/ CheckSpace \/ StopServices \/ ExportImages \/ StartAgain
           \/ Restore \/ Return \/ Disaster \/ Reinstall \/ UNCHANGED vars
  <2>1. UNCHANGED dir
    BY <1>6, Zenon DEF BeginCreate, CheckSpace, StopServices, ExportImages, StartAgain,
       Restore, BeginRestore, VerifyVolume, UntarVolume, LoadImages, RestorePodman,
       RestoreNetwork, RestoreSecrets, RestoreUnits, Restart, Return, Disaster, Reinstall,
       Start, Refused, vars
  <2>2. QED
    BY <2>1, <1>0 DEF DirOK, dir
<1>7. QED
  BY <1>1, <1>2, <1>3, <1>4, <1>5, <1>6, Zenon DEF Next, Create, World

PC == {"idle", "mkdir", "space", "stop", "export", "units", "podman", "start", "verify",
       "untar", "network", "secrets", "return"}

LEMMA FinishTyped ==
  ASSUME Finish, saved' \in [Volume -> Content]
  PROVE  CallOK'
<1>1. err' \in BOOLEAN
  BY Zenon DEF Finish
<1>2. /\ cmd' = "none" /\ pc' = "idle" /\ left' = {} /\ cur' = {} /\ flags' = {}
      /\ present' = {}
  BY Zenon DEF Finish
<1>3. QED
  BY <1>1, <1>2 DEF CallOK, Maybe

LEMMA StepTyped ==
  ASSUME CallOK, UNCHANGED call, pc' \in PC, err' \in BOOLEAN,
         left' \subseteq Volume, cur' \in Maybe(Volume)
  PROVE  CallOK'
BY Zenon DEF CallOK, PC, call

LEMMA CallStep == TypeOK /\ [Next]_vars => CallOK'
<1> SUFFICES ASSUME TypeOK, [Next]_vars PROVE CallOK'
  OBVIOUS
<1>0. CallOK /\ DirOK
  BY TypeParts
<1>1. ASSUME UNCHANGED <<call, pc, left, cur, err>> PROVE CallOK'
  BY <1>0, <1>1, Zenon DEF CallOK, call
<1>2. ASSUME Finish, UNCHANGED saved PROVE CallOK'
  <2>1. saved' \in [Volume -> Content]
    BY <1>0, <1>2, Zenon DEF CallOK
  <2>2. QED
    BY <2>1, <1>2, FinishTyped
<1>3. ASSUME UNCHANGED <<call, left, cur>>, pc' \in PC, err' = err \/ err' = TRUE \/ err' = FALSE
      PROVE  CallOK'
  <2>1. err' \in BOOLEAN
    BY <1>3, <1>0, Zenon DEF CallOK
  <2>2. left' \subseteq Volume /\ cur' \in Maybe(Volume)
    BY <1>3, <1>0, Zenon DEF CallOK
  <2>3. QED
    BY <2>1, <2>2, <1>3, <1>0, StepTyped, Zenon
<1>4. CASE BeginCreate \/ BeginRestore
  <2>1. CASE Refused
    BY <2>1, <1>1, Zenon DEF Refused, vars
  <2>2. CASE \E c \in {"create", "restore"}, f \in SUBSET (CreateFlag \cup RestoreFlag),
                step \in PC, todo \in SUBSET Volume : Start(c, f, step, todo)
    <3>1. PICK c \in {"create", "restore"}, f \in SUBSET (CreateFlag \cup RestoreFlag),
               step \in PC, todo \in SUBSET Volume : Start(c, f, step, todo)
      BY <2>2
    <3>2. /\ cmd' = c /\ flags' = f /\ pc' = step /\ left' = todo
          /\ present' = {v \in Volume : Exists(v)}
          /\ UNCHANGED <<cur, err, saved>>
      BY <3>1, Zenon DEF Start
    <3>3. present' \subseteq Volume
      BY <3>2
    <3>4. /\ cur \in Maybe(Volume) /\ err \in BOOLEAN /\ saved \in [Volume -> Content]
      BY <1>0, Zenon DEF CallOK
    <3>5. /\ cur' \in Maybe(Volume) /\ err' \in BOOLEAN /\ saved' \in [Volume -> Content]
      BY <3>2, <3>4, Zenon
    <3>6. /\ cmd' \in {"none", "create", "restore"} /\ pc' \in PC
          /\ flags' \subseteq CreateFlag \cup RestoreFlag /\ left' \subseteq Volume
      BY <3>2
    <3>7. QED
      BY <3>3, <3>5, <3>6, Zenon DEF CallOK, PC
  <2>3. CASE BeginCreate
    <3>1. PICK f \in SUBSET CreateFlag :
            \/ Start("create", f, IF "dryrun" \in f THEN "return" ELSE "mkdir", VolumesToBackup(f))
            \/ Refused
      BY <2>3, Zenon DEF BeginCreate
    <3>2. VolumesToBackup(f) \in SUBSET Volume /\ f \in SUBSET (CreateFlag \cup RestoreFlag)
      BY VolumeAssumption DEF VolumesToBackup
    <3>3. (IF "dryrun" \in f THEN "return" ELSE "mkdir") \in PC
      BY DEF PC
    <3>4. QED
      BY <3>1, <3>2, <3>3, <2>1, <2>2
  <2>4. CASE BeginRestore
    <3>1. PICK f \in SUBSET RestoreFlag :
            \/ Start("restore", f, IF "dryrun" \in f THEN "podman" ELSE "verify",
                     IF "dryrun" \in f THEN {} ELSE VolumesToRestore(f))
            \/ Refused
      BY <2>4, Zenon DEF BeginRestore
    <3>2. /\ (IF "dryrun" \in f THEN {} ELSE VolumesToRestore(f)) \in SUBSET Volume
          /\ f \in SUBSET (CreateFlag \cup RestoreFlag)
      BY DEF VolumesToRestore
    <3>3. (IF "dryrun" \in f THEN "podman" ELSE "verify") \in PC
      BY DEF PC
    <3>4. QED
      BY <3>1, <3>2, <3>3, <2>1, <2>2
  <2>5. QED
    BY <1>4, <2>3, <2>4
<1>5. CASE Return
  <2>1. saved' = saved \/ saved' = [v \in Volume |-> file[v].data]
    BY <1>5 DEF Return
  <2>2. saved' \in [Volume -> Content]
    BY <2>1, <1>0 DEF CallOK, DirOK
  <2>3. QED
    BY <1>5, <2>2, FinishTyped DEF Return
<1>6. CASE Interrupt \/ Disaster
  <2>1. Finish /\ UNCHANGED saved
    BY <1>6, Zenon DEF Interrupt, Disaster, Abort
  <2>2. QED
    BY <2>1, <1>0, FinishTyped DEF CallOK
<1>7. CASE Reinstall \/ Rot \/ UNCHANGED vars
  BY <1>7, <1>1, Zenon DEF Reinstall, Rot, vars
<1>8. CASE \/ MakeDirs \/ CheckSpace \/ StopServices \/ ExportImages \/ ExportUnits
           \/ ExportPodman \/ StartAgain
  <2>1. CASE Abort
    BY <2>1, <1>2, Zenon DEF Abort
  <2>2. CASE ~Abort
    <3>1. UNCHANGED <<call, left, cur>>
      BY <1>8, <2>2, Zenon DEF MakeDirs, CheckSpace, StopServices, ExportImages, ExportUnits,
         ExportPodman, StartAgain, Goto, Warn
    <3>2. pc' \in {"space", "export", "stop", "units", "podman", "start", "return"}
      BY <1>8, <2>2 DEF MakeDirs, CheckSpace, StopServices, ExportImages, ExportUnits,
         ExportPodman, StartAgain, Goto, Warn
    <3>3. err' = err \/ err' = TRUE
      BY <1>8, <2>2, Zenon DEF MakeDirs, CheckSpace, StopServices, ExportImages, ExportUnits,
         ExportPodman, StartAgain, Goto, Warn
    <3>4. pc' \in PC
      BY <3>2 DEF PC
    <3>5. QED
      BY <3>1, <3>3, <3>4, <1>3, Zenon
  <2>3. QED
    BY <2>1, <2>2
<1>9. CASE \/ LoadImages \/ RestorePodman \/ RestoreNetwork \/ RestoreSecrets
           \/ RestoreUnits \/ Restart
  <2>1. UNCHANGED <<call, left, cur>>
    BY <1>9, Zenon DEF LoadImages, RestorePodman, RestoreNetwork, RestoreSecrets,
       RestoreUnits, Restart, MakeNetwork, DefaultUnits, Goto, Warn
  <2>2. pc' \in {"podman", "units", "network", "secrets", "start", "return"}
    BY <1>9 DEF LoadImages, RestorePodman, RestoreNetwork, RestoreSecrets,
       RestoreUnits, Restart, MakeNetwork, DefaultUnits, Goto, Warn
  <2>3. err' = err \/ err' = TRUE \/ err' = FALSE
    BY <1>9, Zenon DEF LoadImages, RestorePodman, RestoreNetwork, RestoreSecrets,
       RestoreUnits, Restart, MakeNetwork, DefaultUnits, Goto, Warn
  <2>4. pc' \in PC
    BY <2>2 DEF PC
  <2>5. QED
    BY <2>1, <2>3, <2>4, <1>3, Zenon
<1>10. CASE ExportVolume \/ VerifyVolume \/ UntarVolume
  <2>1. CASE Abort
    BY <2>1, <1>2, Zenon DEF Abort
  <2>2. CASE ~Abort
    <3>1. UNCHANGED <<call, err>>
      BY <1>10, <2>2, Zenon DEF ExportVolume, VerifyVolume, UntarVolume, Goto
    <3>2. pc' \in {"export", "untar", "verify"}
      BY <1>10, <2>2 DEF ExportVolume, VerifyVolume, UntarVolume, Goto
    <3>3. pc' \in PC
      BY <3>2 DEF PC
    <3>4. left' \subseteq left
      BY <1>10, <2>2 DEF ExportVolume, VerifyVolume, UntarVolume, Goto
    <3>5. cur' = cur \/ cur' = {} \/ \E v \in left : cur' = {v}
      BY <1>10, <2>2, Zenon DEF ExportVolume, VerifyVolume, UntarVolume, Goto
    <3>6. left \subseteq Volume /\ cur \in Maybe(Volume) /\ err \in BOOLEAN
      BY <1>0, Zenon DEF CallOK
    <3>7. cur' \in Maybe(Volume)
      BY <3>5, <3>6 DEF Maybe
    <3>8. left' \subseteq Volume
      BY <3>4, <3>6
    <3>9. err' \in BOOLEAN
      BY <3>1, <3>6, Zenon
    <3>10. QED
      BY <3>1, <3>3, <3>7, <3>8, <3>9, <1>0, StepTyped, Zenon
  <2>3. QED
    BY <2>1, <2>2
<1>11. QED
  BY <1>4, <1>5, <1>6, <1>7, <1>8, <1>9, <1>10, Zenon DEF Next, Create, Restore, World

\* Only a disaster moves the server to another host.
LEMMA SiteKept ==
  ASSUME [Next]_vars, ~Disaster
  PROVE  UNCHANGED site
<1>1. CASE UNCHANGED vars \/ Refused \/ Reinstall \/ Rot
  BY <1>1, Zenon DEF Refused, Reinstall, Rot, vars, call
<1>2. CASE (BeginCreate \/ BeginRestore) /\ ~Refused
  BY <1>2, Zenon DEF BeginCreate, BeginRestore, Start
<1>3. CASE \/ MakeDirs \/ CheckSpace \/ StopServices \/ ExportVolume
           \/ ExportImages \/ ExportUnits \/ ExportPodman \/ StartAgain
           \/ Return \/ Interrupt
  BY <1>3, Zenon DEF MakeDirs, CheckSpace, StopServices, ExportVolume, ExportImages,
     ExportUnits, ExportPodman, StartAgain, Return, Interrupt, Goto, Warn, Abort, call
<1>4. CASE \/ VerifyVolume \/ UntarVolume \/ LoadImages \/ RestorePodman
           \/ RestoreNetwork \/ RestoreSecrets \/ RestoreUnits \/ Restart
  BY <1>4, Zenon DEF VerifyVolume, UntarVolume, LoadImages, RestorePodman, RestoreNetwork,
     RestoreSecrets, RestoreUnits, Restart, MakeNetwork, DefaultUnits, Goto, Warn, Abort, call
<1>5. QED
  BY <1>1, <1>2, <1>3, <1>4, Zenon DEF Next, Create, Restore, World

\* Every variable keeps its type.
THEOREM TypeCorrect == Spec => []TypeOK
<1>1. TypeOK /\ [Next]_vars => TypeOK'
  <2>1. TypeOK /\ [Next]_vars => VolumesOK' /\ ConfigOK' /\ DirOK' /\ CallOK'
    BY VolumesStep, ConfigStep, DirStep, CallStep
  <2>2. TypeOK /\ [Next]_vars => SiteOK'
    <3>1. CASE Disaster
      BY <3>1, TypeParts DEF Disaster, SiteOK
    <3>2. CASE ~Disaster
      BY <3>2, SiteKept, TypeParts DEF SiteOK
    <3>3. QED
      BY <3>1, <3>2
  <2>3. VolumesOK' /\ ConfigOK' /\ DirOK' /\ CallOK' /\ SiteOK' => TypeOK'
    BY Zenon DEF TypeOK, VolumesOK, ConfigOK, DirOK, CallOK, SiteOK, Content
  <2>4. QED
    BY <2>1, <2>2, <2>3
<1>2. QED
  BY <1>1, InitTyped, PTL DEF Spec

-----------------------------------------------------------------------------
(* Where a command is *)

Phases ==
  /\ cmd = "none" <=> pc = "idle"
  /\ pc \in {"mkdir", "space", "stop", "export"} => cmd = "create"
  /\ pc \in {"verify", "untar", "network", "secrets"} => cmd = "restore"
  /\ pc = "idle" => flags = {} /\ left = {} /\ present = {}
  /\ pc # "untar" => cur = {}
  /\ pc = "untar" => \E v \in left : cur = {v}
  /\ pc \in {"units", "podman", "start", "return", "network", "secrets"}
       => left = {} \/ "dryrun" \in flags
  /\ "dryrun" \in flags => IF cmd = "create" THEN pc = "return"
                           ELSE pc \in {"podman", "units", "start", "return"}

LEMMA InitPhases == Init => Phases
BY DEF Init, Phases

LEMMA FinishPhases == Finish => Phases'
BY DEF Finish, Phases

LEMMA PhasesStep == TypeOK /\ Phases /\ [Next]_vars => Phases'
<1> SUFFICES ASSUME TypeOK, Phases, [Next]_vars PROVE Phases'
  OBVIOUS
<1>0. CallOK
  BY TypeParts
<1>1. CASE Abort \/ Return
  BY <1>1, FinishPhases DEF Abort, Return
<1>2. CASE Refused \/ Reinstall \/ Rot \/ UNCHANGED vars
  <2>1. UNCHANGED <<call, pc, left, cur>>
    BY <1>2, Zenon DEF Refused, Reinstall, Rot, vars
  <2>2. QED
    BY <2>1 DEF Phases, call
<1>3. CASE BeginCreate /\ ~Refused
  <2>1. PICK f \in SUBSET CreateFlag :
          Start("create", f, IF "dryrun" \in f THEN "return" ELSE "mkdir", VolumesToBackup(f))
    BY <1>3, Zenon DEF BeginCreate
  <2>2. pc = "idle"
    BY <1>3, Zenon DEF BeginCreate
  <2>3. QED
    BY <2>1, <2>2 DEF Start, Phases
<1>4. CASE BeginRestore /\ ~Refused
  <2>1. PICK f \in SUBSET RestoreFlag :
          Start("restore", f, IF "dryrun" \in f THEN "podman" ELSE "verify",
                IF "dryrun" \in f THEN {} ELSE VolumesToRestore(f))
    BY <1>4, Zenon DEF BeginRestore
  <2>2. pc = "idle"
    BY <1>4, Zenon DEF BeginRestore
  <2>3. QED
    BY <2>1, <2>2 DEF Start, Phases
<1>5. CASE (MakeDirs \/ CheckSpace \/ StopServices \/ ExportVolume \/ ExportImages) /\ ~Abort
  <2>1. /\ pc \in {"mkdir", "space", "stop", "export"}
        /\ pc' \in {"space", "export", "stop", "units"}
        /\ pc' = "units" => left = {}
    BY <1>5 DEF MakeDirs, CheckSpace, StopServices, ExportVolume, ExportImages, Goto, Warn
  <2>2. UNCHANGED <<call, cur>>
    BY <1>5, Zenon DEF MakeDirs, CheckSpace, StopServices, ExportVolume, ExportImages, Goto, Warn
  <2>3. left' \subseteq left
    BY <1>5 DEF MakeDirs, CheckSpace, StopServices, ExportVolume, ExportImages, Goto, Warn
  <2>4. QED
    BY <2>1, <2>2, <2>3, <1>0 DEF Phases, call, CallOK
<1>6. CASE ExportUnits \/ ExportPodman \/ StartAgain
  <2>1. /\ pc \in {"units", "podman", "start"} /\ cmd = "create"
        /\ pc' \in {"podman", "start", "return"}
    BY <1>6 DEF ExportUnits, ExportPodman, StartAgain, Goto, Warn
  <2>2. UNCHANGED <<call, left, cur>>
    BY <1>6, Zenon DEF ExportUnits, ExportPodman, StartAgain, Goto, Warn
  <2>3. QED
    BY <2>1, <2>2 DEF Phases, call
<1>7. CASE VerifyVolume /\ ~Abort
  <2>1. /\ pc = "verify" /\ pc' = "untar" /\ UNCHANGED left
        /\ \E v \in left : cur' = {v}
    BY <1>7 DEF VerifyVolume, Goto
  <2>2. UNCHANGED call
    BY <1>7, Zenon DEF VerifyVolume, Goto
  <2>3. QED
    BY <2>1, <2>2 DEF Phases, call
<1>8. CASE UntarVolume /\ ~Abort
  <2>1. pc = "untar" /\ pc' = "verify" /\ cur' = {}
    BY <1>8 DEF UntarVolume, Goto
  <2>2. UNCHANGED call
    BY <1>8, Zenon DEF UntarVolume, Goto
  <2>3. QED
    BY <2>1, <2>2 DEF Phases, call
<1>9. CASE LoadImages
  <2>1. pc = "verify" /\ pc' = "podman" /\ left = {}
    BY <1>9 DEF LoadImages, Goto, Warn
  <2>2. UNCHANGED <<call, left, cur>>
    BY <1>9, Zenon DEF LoadImages, Goto, Warn
  <2>3. QED
    BY <2>1, <2>2 DEF Phases, call
<1>10. CASE RestorePodman \/ RestoreNetwork \/ RestoreSecrets \/ RestoreUnits \/ Restart
  <2>1. /\ pc \in {"podman", "network", "secrets", "units", "start"}
        /\ cmd = "restore"
        /\ pc' \in {"network", "secrets", "units", "start", "return"}
        /\ pc' \in {"network", "secrets"} => ~("dryrun" \in flags)
    BY <1>10 DEF RestorePodman, RestoreNetwork, RestoreSecrets, RestoreUnits, Restart,
       MakeNetwork, DefaultUnits, Goto, Warn, Phases, Set
  <2>2. UNCHANGED <<call, left, cur>>
    BY <1>10, Zenon DEF RestorePodman, RestoreNetwork, RestoreSecrets, RestoreUnits, Restart,
       MakeNetwork, DefaultUnits, Goto, Warn
  <2>3. QED
    BY <2>1, <2>2 DEF Phases, call
<1>11. CASE Interrupt \/ Disaster
  BY <1>11, FinishPhases, Zenon DEF Interrupt, Disaster, Abort
<1>12. QED
  BY <1>1, <1>2, <1>3, <1>4, <1>5, <1>6, <1>7, <1>8, <1>9, <1>10, <1>11, Zenon
     DEF Next, Create, Restore, World

\* The typing and the phases together hold at every moment.
LEMMA PhasesInvariant == Spec => [](TypeOK /\ Phases)
<1>1. TypeOK /\ Phases /\ [Next]_vars => Phases'
  BY PhasesStep
<1>2. QED
  BY <1>1, InitPhases, TypeCorrect, PTL DEF Spec

-----------------------------------------------------------------------------
(* Dry runs *)

LEMMA DryRunStep ==
  ASSUME TypeOK, Phases, [Next]_vars, "dryrun" \in flags, "restart" \notin flags,
         conf # {}, ~Disaster
  PROVE  UNCHANGED <<host, dir>>
<1>1. /\ pc \in {"podman", "units", "start", "return"} /\ pc # "idle" /\ pc # "untar"
      /\ cmd = "create" => pc = "return"
  BY DEF Phases
<1>2. CASE Return \/ UNCHANGED vars
  BY <1>2, Zenon DEF Return, vars
<1>3. CASE RestorePodman
  <2>1. UNCHANGED network
    BY <1>3 DEF RestorePodman
  <2>2. QED
    BY <1>3, <2>1, Zenon DEF RestorePodman, host
<1>4. CASE RestoreUnits
  <2>1. UNCHANGED <<network, secrets, units>>
    BY <1>4, Zenon DEF RestoreUnits, Set
  <2>2. QED
    BY <1>4, <2>1, Zenon DEF RestoreUnits, host
<1>5. CASE Restart
  <2>1. UNCHANGED <<vol, running>>
    BY <1>5, Zenon DEF Restart, Set
  <2>2. QED
    BY <1>5, <2>1, Zenon DEF Restart, host
<1>6. CASE Interrupt
  <2>1. UNCHANGED <<vol, file>>
    BY <1>6, <1>1 DEF Interrupt
  <2>2. QED
    BY <1>6, <2>1, Zenon DEF Interrupt, HostButVolumes, host, dir
<1>7. CASE ~(Return \/ UNCHANGED vars \/ RestorePodman \/ RestoreUnits \/ Restart \/ Interrupt)
  <2>1. \/ BeginCreate \/ MakeDirs \/ CheckSpace \/ StopServices \/ ExportVolume
        \/ ExportImages \/ ExportUnits \/ ExportPodman \/ StartAgain
        \/ BeginRestore \/ VerifyVolume \/ UntarVolume \/ LoadImages
        \/ RestoreNetwork \/ RestoreSecrets \/ Reinstall \/ Rot
    BY <1>7, Zenon DEF Next, Create, Restore, World
  <2>2. \/ pc \in {"idle", "mkdir", "space", "stop", "export", "verify", "untar", "network",
                   "secrets"}
        \/ pc \in {"units", "podman", "start"} /\ cmd = "create"
    BY <2>1, Zenon DEF BeginCreate, MakeDirs, CheckSpace, StopServices, ExportVolume,
       ExportImages, ExportUnits, ExportPodman, StartAgain, BeginRestore, VerifyVolume,
       UntarVolume, LoadImages, RestoreNetwork, RestoreSecrets, Reinstall, Rot
  <2>3. QED
    BY <2>2, <1>1
<1>8. QED
  BY <1>2, <1>3, <1>4, <1>5, <1>6, <1>7

\* A dry run leaves the host and the directory alone, unless it has to make the network
\* that no backup describes or was told to restart the services.
THEOREM DryRunIsHarmless == Spec => DryRunHarmless
<1>1. TypeOK /\ Phases /\ [Next]_vars
        => [("dryrun" \in flags /\ "restart" \notin flags /\ conf # {} /\ ~Disaster)
              => UNCHANGED <<host, dir>>]_vars
  BY DryRunStep
<1>2. QED
  BY <1>1, PhasesInvariant, PTL DEF Spec, DryRunHarmless

-----------------------------------------------------------------------------
(* What was there is kept *)

Guarded ==
  /\ \A v \in present : Exists(v)
  /\ cmd = "restore" /\ "force" \notin flags => left \cap present = {}

LEMMA InitGuarded == Init => Guarded
BY DEF Init, Guarded

\* tar changes one volume and does not remove it.
LEMMA ExtractKeeps ==
  ASSUME VolumesOK, NEW v \in Volume, NEW d, Extract(v, d) \/ Tear(v, d), NEW w \in Volume
  PROVE  (Exists(w) => Exists(w)') /\ (w # v => vol'[w] = vol[w])
<1>1. w # v => vol'[w] = vol[w]
  BY DEF Extract, Tear, VolumesOK
<1>2. vol'[v] \in {{x \cup d : x \in vol[v]}, {Cut(x \cup d) : x \in vol[v]}}
  BY DEF Extract, Tear, VolumesOK
<1>3. vol[v] # {} => vol'[v] # {}
  BY <1>2
<1>4. QED
  BY <1>1, <1>3 DEF Exists

\* No step of a command takes a volume away, and only a forced restoration touches one
\* that was there.
LEMMA VolumesKept ==
  ASSUME TypeOK, Phases, Guarded, [Next]_vars, ~Disaster, cmd # "none",
         NEW v \in present
  PROVE  Exists(v)' /\ ("force" \notin flags => vol'[v] = vol[v])
<1>0. /\ VolumesOK /\ CallOK /\ v \in Volume /\ Exists(v)
  BY TypeParts DEF CallOK, Guarded
<1>1. CASE vol' = vol
  BY <1>0, <1>1 DEF Exists
<1>2. CASE vol' = StartedVolumes
  BY <1>0, <1>2 DEF Exists, StartedVolumes
<1>3. CASE VerifyVolume
  <2>1. CASE \E u \in left : vol' = [vol EXCEPT ![u] = IF Exists(u) THEN @ ELSE {{}}]
    <3>1. PICK u \in left : vol' = [vol EXCEPT ![u] = IF Exists(u) THEN @ ELSE {{}}]
      BY <2>1
    <3>2. vol'[v] = vol[v]
      BY <3>1, <1>0 DEF VolumesOK, Exists
    <3>3. QED
      BY <3>2, <1>0 DEF Exists
  <2>2. QED
    BY <1>3, <2>1, <1>1, Zenon DEF VerifyVolume
<1>4. ASSUME pc = "untar", HalfExtract \/ \E u \in cur : \E d \in file[u].data : Extract(u, d)
      PROVE  Exists(v)' /\ ("force" \notin flags => vol'[v] = vol[v])
  <2>1. PICK u \in left : cur = {u}
    BY <1>4 DEF Phases
  <2>2. PICK d : Extract(u, d) \/ Tear(u, d)
    BY <1>4, <2>1 DEF HalfExtract
  <2>3. u \in Volume /\ cmd = "restore"
    BY <1>0, <1>4 DEF CallOK, Phases
  <2>4. "force" \notin flags => u # v
    BY <2>3 DEF Guarded
  <2>5. QED
    BY <2>2, <2>3, <2>4, <1>0, ExtractKeeps
<1>5. CASE UntarVolume
  <2>1. pc = "untar" /\ (HalfExtract \/ \E u \in cur : \E d \in file[u].data : Extract(u, d))
    BY <1>5, Zenon DEF UntarVolume
  <2>2. QED
    BY <2>1, <1>4
<1>6. CASE Interrupt
  <2>1. vol' = vol \/ (pc = "untar" /\ HalfExtract)
    BY <1>6, Zenon DEF Interrupt
  <2>2. QED
    BY <2>1, <1>1, <1>4
<1>7. CASE ~(VerifyVolume \/ UntarVolume \/ Interrupt)
  <2>1. pc # "idle"
    BY DEF Phases
  <2>2. vol' = vol \/ vol' = StartedVolumes
    BY <1>7, <2>1, Zenon DEF Next, Create, Restore, World, BeginCreate, MakeDirs, CheckSpace,
       StopServices, ExportVolume, ExportImages, ExportUnits, ExportPodman, StartAgain,
       BeginRestore, LoadImages, RestorePodman, RestoreNetwork, RestoreSecrets,
       RestoreUnits, Restart, Return, Reinstall, Rot, host, vars
  <2>3. QED
    BY <2>2, <1>1, <1>2
<1>8. QED
  BY <1>3, <1>5, <1>6, <1>7

LEMMA GuardedStep == TypeOK /\ Phases /\ Guarded /\ [Next]_vars => Guarded'
<1> SUFFICES ASSUME TypeOK, Phases, Guarded, [Next]_vars PROVE Guarded'
  OBVIOUS
<1>0. CallOK
  BY TypeParts
<1>1. CASE Finish
  BY <1>1 DEF Finish, Guarded
<1>2. CASE cmd # "none" /\ ~Disaster /\ UNCHANGED call /\ left' \subseteq left
  <2>1. \A v \in present : Exists(v)'
    BY <1>2, VolumesKept
  <2>2. UNCHANGED <<cmd, flags, present>> /\ left' \subseteq left
    BY <1>2, Zenon DEF call
  <2>3. QED
    BY <2>1, <2>2 DEF Guarded
<1>3. CASE pc = "idle" /\ UNCHANGED <<call, left>>
  <2>1. present = {} /\ left = {}
    BY <1>3 DEF Phases
  <2>2. UNCHANGED <<cmd, flags, present, left>>
    BY <1>3, Zenon DEF call
  <2>3. QED
    BY <2>1, <2>2 DEF Guarded
<1>4. CASE UNCHANGED vars
  BY <1>4 DEF vars, host, call, Guarded, Exists
<1>5. CASE BeginCreate /\ ~Refused
  <2>1. /\ cmd' = "create" /\ present' = {v \in Volume : Exists(v)} /\ UNCHANGED vol
    BY <1>5, Zenon DEF BeginCreate, Start, host
  <2>2. QED
    BY <2>1 DEF Guarded, Exists
<1>6. CASE BeginRestore /\ ~Refused
  <2>1. PICK f \in SUBSET RestoreFlag :
          /\ Acceptable(f)
          /\ Start("restore", f, IF "dryrun" \in f THEN "podman" ELSE "verify",
                   IF "dryrun" \in f THEN {} ELSE VolumesToRestore(f))
    BY <1>6, Zenon DEF BeginRestore
  <2>2. /\ flags' = f /\ present' = {v \in Volume : Exists(v)}
        /\ left' = (IF "dryrun" \in f THEN {} ELSE VolumesToRestore(f))
    BY <2>1, Zenon DEF Start
  <2>3. UNCHANGED vol
    BY <2>1, Zenon DEF Start, host
  <2>4. \A v \in present' : Exists(v)'
    BY <2>2, <2>3 DEF Exists
  <2>5. "force" \notin f => left' \cap present' = {}
    BY <2>1, <2>2 DEF Acceptable
  <2>6. QED
    BY <2>2, <2>4, <2>5 DEF Guarded
<1>7. CASE \/ MakeDirs \/ CheckSpace \/ StopServices \/ ExportVolume
           \/ ExportImages \/ ExportUnits \/ ExportPodman \/ StartAgain
  <2>1. Finish \/ (UNCHANGED call /\ left' \subseteq left)
    BY <1>7 DEF MakeDirs, CheckSpace, StopServices, ExportVolume, ExportImages, ExportUnits,
       ExportPodman, StartAgain, Goto, Warn, Abort
  <2>2. (pc # "idle" /\ ~Disaster) \/ Finish
    BY <1>7, Zenon DEF MakeDirs, CheckSpace, StopServices, ExportVolume, ExportImages,
       ExportUnits, ExportPodman, StartAgain, Disaster, Abort
  <2>3. QED
    BY <2>1, <2>2, <1>1, <1>2 DEF Phases
<1>8. CASE \/ VerifyVolume \/ UntarVolume \/ LoadImages \/ RestorePodman
           \/ RestoreNetwork \/ RestoreSecrets \/ RestoreUnits \/ Restart
  <2>1. Finish \/ (UNCHANGED call /\ left' \subseteq left)
    BY <1>8 DEF VerifyVolume, UntarVolume, LoadImages, RestorePodman, RestoreNetwork,
       RestoreSecrets, RestoreUnits, Restart, MakeNetwork, DefaultUnits, Goto, Warn, Abort
  <2>2. (pc # "idle" /\ ~Disaster) \/ Finish
    BY <1>8, Zenon DEF VerifyVolume, UntarVolume, LoadImages, RestorePodman, RestoreNetwork,
       RestoreSecrets, RestoreUnits, Restart, Disaster, Abort
  <2>3. QED
    BY <2>1, <2>2, <1>1, <1>2 DEF Phases
<1>9. CASE Refused \/ Reinstall \/ Rot
  <2>1. UNCHANGED vars \/ (pc = "idle" /\ UNCHANGED <<call, left>>)
    BY <1>9, Zenon DEF Refused, Reinstall, Rot
  <2>2. QED
    BY <2>1, <1>3, <1>4
<1>10. CASE Return \/ Interrupt \/ Disaster
  BY <1>10, <1>1, Zenon DEF Return, Interrupt, Disaster, Abort
<1>11. QED
  BY <1>4, <1>5, <1>6, <1>7, <1>8, <1>9, <1>10, Zenon DEF Next, Create, Restore, World

\* Whatever was on the host when a command began is only changed by a restoration that
\* was forced to.
THEOREM ExistingIsKept == Spec => ExistingKept
<1>1. TypeOK /\ Phases /\ Guarded /\ [Next]_vars => Guarded'
  BY GuardedStep
<1>2. TypeOK /\ Phases /\ Guarded /\ [Next]_vars
        => [(cmd # "none" /\ ~Disaster)
              => \A v \in present : vol'[v] # vol[v] => "force" \in flags]_vars
  BY VolumesKept
<1>3. QED
  BY <1>1, <1>2, InitGuarded, PhasesInvariant, PTL DEF Spec, ExistingKept

-----------------------------------------------------------------------------
(* The data: what a restoration that reports success has brought back, and that      *)
(* BackupRestore implements DataCopies *)

\* Files lose their end before their beginning.
Uncut(m) == \A d \in m : "tail" \in d => "head" \in d

Contents ==
  \A v \in Volume : Uncut(vol[v]) /\ Uncut(file[v].data)

\* A directory that is not complete has no file, and a backup writes each of them once.
FreshDir ==
  /\ dirs # 3 => \A v \in Volume : file[v].data = {}
  /\ pc = "mkdir" => dirs # 3
  /\ pc \in {"space", "stop", "export"}
       => dirs = 3 /\ \A v \in left : file[v].data = {}

\* The copies that are the result of writing a volume or a file.
LEMMA CutUncut ==
  ASSUME NEW m PROVE Uncut({Cut(x) : x \in m})
BY DEF Uncut, Cut

LEMMA WholeParts == \A d : Whole \subseteq d <=> "head" \in d /\ "tail" \in d
BY DEF Whole

LEMMA NotWhole ==
  /\ \A d : ~(Whole \subseteq Cut(d))
  /\ ~(Whole \subseteq {}) /\ ~(Whole \subseteq {"fresh"})
  /\ Uncut({}) /\ Uncut({{}}) /\ Uncut({{"fresh"}}) /\ Uncut({Whole})
BY DEF Whole, Cut, Uncut

-----------------------------------------------------------------------------
(* What a step does to the data, by the kind of the change *)

Untouched == UNCHANGED <<vol, file>>
Restarted == UNCHANGED file /\ vol' = StartedVolumes
Made ==
  /\ UNCHANGED file
  /\ \E v \in left : vol' = [vol EXCEPT ![v] = IF Exists(v) THEN @ ELSE {{}}]
Extracted ==
  /\ UNCHANGED file /\ pc = "untar"
  /\ \E v \in cur : \E d \in file[v].data :
       Extract(v, d) \/ Extract(v, Cut(d)) \/ (Tear(v, d) /\ Finish)
Exported ==
  /\ UNCHANGED vol /\ pc = "export"
  /\ \E v \in left : \E d \in {{}, {Cut(x) : x \in vol[v]}, vol[v]} : \E s \in {{}, vol[v]} :
       file' = [file EXCEPT ![v] = [data |-> d, sum |-> s]]

LEMMA Changes ==
  [Next]_vars => Untouched \/ Restarted \/ Made \/ Extracted \/ Exported
                  \/ Disaster \/ Reinstall \/ Rot
<1> SUFFICES ASSUME [Next]_vars
             PROVE  Untouched \/ Restarted \/ Made \/ Extracted \/ Exported
                     \/ Disaster \/ Reinstall \/ Rot
  OBVIOUS
<1>1. CASE \/ BeginCreate \/ MakeDirs \/ CheckSpace \/ StopServices
           \/ ExportImages \/ ExportUnits \/ ExportPodman \/ BeginRestore \/ LoadImages
           \/ RestorePodman \/ RestoreNetwork \/ RestoreSecrets \/ RestoreUnits
           \/ Return \/ UNCHANGED vars
  BY <1>1, Zenon DEF Untouched, BeginCreate, MakeDirs, CheckSpace, StopServices,
     ExportImages, ExportUnits, ExportPodman, BeginRestore, LoadImages, RestorePodman,
     RestoreNetwork, RestoreSecrets, RestoreUnits, Return, Start, Refused, host, dir, vars
<1>2. CASE StartAgain \/ Restart
  BY <1>2, Zenon DEF Untouched, Restarted, StartAgain, Restart, dir
<1>3. CASE VerifyVolume
  BY <1>3, Zenon DEF Untouched, Made, VerifyVolume, dir
<1>4. ASSUME HalfExtract, UNCHANGED file, pc = "untar", Finish PROVE Extracted
  BY <1>4, Zenon DEF HalfExtract, Extracted
<1>5. CASE UntarVolume
  <2>1. UNCHANGED file /\ pc = "untar"
    BY <1>5, Zenon DEF UntarVolume, dir
  <2>2. (HalfExtract /\ Finish) \/ \E v \in cur : \E d \in file[v].data : Extract(v, d)
    BY <1>5, Zenon DEF UntarVolume, Abort
  <2>3. QED
    BY <2>1, <2>2, <1>4, Zenon DEF Extracted
<1>6. CASE ExportVolume
  <2>1. UNCHANGED vol /\ pc = "export"
    BY <1>6, Zenon DEF ExportVolume, host
  <2>2. PICK v \in left :
          \/ file' = [file EXCEPT ![v] = [data |-> vol[v], sum |-> vol[v]]]
          \/ file' \in {[file EXCEPT ![v] = [data |-> d, sum |-> {}]] :
                          d \in {{}, {Cut(x) : x \in vol[v]}, vol[v]}}
    BY <1>6, Zenon DEF ExportVolume
  <2>3. \E d \in {{}, {Cut(x) : x \in vol[v]}, vol[v]} : \E s \in {{}, vol[v]} :
          file' = [file EXCEPT ![v] = [data |-> d, sum |-> s]]
    BY <2>2
  <2>4. QED
    BY <2>1, <2>3, Zenon DEF Exported
<1>7. CASE Interrupt
  <2>1. CASE UNCHANGED <<vol, file>>
    BY <2>1 DEF Untouched
  <2>2. CASE pc = "untar" /\ HalfExtract /\ UNCHANGED file
    BY <1>7, <2>2, <1>4, Zenon DEF Interrupt, Abort
  <2>3. CASE pc = "export" /\ HalfExport /\ UNCHANGED vol
    BY <2>3, Zenon DEF HalfExport, Exported
  <2>4. QED
    BY <1>7, <2>1, <2>2, <2>3, Zenon DEF Interrupt
<1>8. QED
  BY <1>1, <1>2, <1>3, <1>5, <1>6, <1>7, Zenon DEF Next, Create, Restore, World

LEMMA ContentsStep ==
  TypeOK /\ Phases /\ Contents /\ [Next]_vars => Contents'
<1> SUFFICES ASSUME TypeOK, Phases, Contents, [Next]_vars, NEW v \in Volume
             PROVE  Uncut(vol'[v]) /\ Uncut(file'[v].data)
  BY DEF Contents
<1>0. /\ VolumesOK /\ CallOK /\ DirOK
      /\ Uncut(vol[v]) /\ Uncut(file[v].data)
  BY TypeParts DEF Contents
<1>1. CASE Untouched
  BY <1>0, <1>1 DEF Untouched
<1>2. CASE Restarted
  BY <1>0, <1>2, NotWhole DEF Restarted, StartedVolumes
<1>3. CASE Made
  BY <1>0, <1>3, NotWhole DEF Made, VolumesOK
<1>4. CASE Extracted
  <2>0. PICK u \in cur : \E d \in file[u].data :
                           Extract(u, d) \/ Extract(u, Cut(d)) \/ Tear(u, d)
    BY <1>4, Zenon DEF Extracted
  <2>1. PICK d \in file[u].data : Extract(u, d) \/ Extract(u, Cut(d)) \/ Tear(u, d)
    BY <2>0
  <2>2. u \in Volume
    BY <1>0 DEF CallOK, Maybe
  <2>3. "tail" \in d => "head" \in d
    BY <2>2 DEF Contents, Uncut
  <2>4. CASE v # u
    BY <2>1, <2>2, <2>4, <1>0, <1>4 DEF Extract, Tear, Extracted, VolumesOK
  <2>5. CASE v = u
    <3>1. \/ vol'[v] = {x \cup d : x \in vol[v]} \/ vol'[v] = {x \cup Cut(d) : x \in vol[v]}
          \/ vol'[v] = {Cut(x \cup d) : x \in vol[v]}
      BY <2>1, <2>5, <1>0 DEF Extract, Tear, VolumesOK
    <3>2. Uncut(vol'[v])
      BY <3>1, <2>3, <1>0 DEF Uncut, Cut
    <3>3. QED
      BY <3>2, <1>0, <1>4 DEF Extracted
  <2>6. QED
    BY <2>4, <2>5
<1>5. CASE Exported
  <2>0. PICK u \in left : \E d \in {{}, {Cut(x) : x \in vol[u]}, vol[u]} :
                           \E s \in {{}, vol[u]} :
          file' = [file EXCEPT ![u] = [data |-> d, sum |-> s]]
    BY <1>5, Zenon DEF Exported
  <2>1. PICK d \in {{}, {Cut(x) : x \in vol[u]}, vol[u]} : \E s \in {{}, vol[u]} :
          file' = [file EXCEPT ![u] = [data |-> d, sum |-> s]]
    BY <2>0
  <2>2. u \in Volume
    BY <1>0 DEF CallOK
  <2>3. Uncut(d)
    BY <2>1, <2>2, NotWhole, CutUncut DEF Contents
  <2>4. file'[v].data = (IF v = u THEN d ELSE file[v].data)
    BY <2>1, <1>0 DEF DirOK
  <2>5. QED
    BY <2>3, <2>4, <1>0, <1>5 DEF Exported
<1>6. CASE Disaster \/ Reinstall
  <2>1. vol'[v] \in {{}, {{"fresh"}}} /\ UNCHANGED file
    BY <1>6 DEF Disaster, Reinstall, dir
  <2>2. QED
    BY <2>1, <1>0, NotWhole
<1>7. CASE Rot
  <2>1. PICK u \in Volume : file' = [file EXCEPT ![u].data = {Cut(d) : d \in @}]
    BY <1>7, Zenon DEF Rot
  <2>2. UNCHANGED vol
    BY <1>7, Zenon DEF Rot, host
  <2>3. file'[v].data = (IF v = u THEN {Cut(d) : d \in file[v].data} ELSE file[v].data)
    BY <2>1, <1>0 DEF DirOK
  <2>4. QED
    BY <2>2, <2>3, <1>0, CutUncut
<1>8. QED
  BY <1>1, <1>2, <1>3, <1>4, <1>5, <1>6, <1>7, Changes


-----------------------------------------------------------------------------
(* The directory *)

LEMMA FreshStep ==
  TypeOK /\ FreshDir /\ [Next]_vars => FreshDir'
<1> SUFFICES ASSUME TypeOK, FreshDir, [Next]_vars PROVE FreshDir'
  OBVIOUS
<1>0. CallOK /\ DirOK
  BY TypeParts
<1>1. CASE MakeDirs
  <2>1. UNCHANGED file /\ pc = "mkdir"
    BY <1>1, Zenon DEF MakeDirs
  <2>2. (dirs' = 3 /\ pc' = "space" /\ left' = left) \/ (pc' = "idle" /\ (dirs' = 3 => dirs = 3))
    BY <1>1 DEF MakeDirs, Goto, Abort, Finish
  <2>3. \A v \in Volume : file[v].data = {}
    BY <2>1 DEF FreshDir
  <2>4. QED
    BY <2>1, <2>2, <2>3, <1>0 DEF FreshDir, CallOK
<1>2. CASE CheckSpace \/ StopServices
  <2>1. UNCHANGED <<dirs, file>> /\ pc \in {"space", "stop"}
    BY <1>2, Zenon DEF CheckSpace, StopServices, dir
  <2>2. pc' \in {"stop", "export", "idle"} /\ left' \subseteq left
    BY <1>2 DEF CheckSpace, StopServices, Goto, Abort, Finish
  <2>3. QED
    BY <2>1, <2>2 DEF FreshDir
<1>3. CASE ExportVolume
  <2>1. dirs = 3 /\ UNCHANGED dirs
    BY <1>3 DEF ExportVolume, FreshDir
  <2>2. CASE Abort
    BY <2>1, <2>2 DEF Abort, Finish, FreshDir
  <2>3. CASE ~Abort
    <3>1. PICK v \in left :
            /\ file' = [file EXCEPT ![v] = [data |-> vol[v], sum |-> vol[v]]]
            /\ left' = left \ {v} /\ pc' = "export"
      BY <1>3, <2>3, Zenon DEF ExportVolume, Goto
    <3>2. \A u \in left' : file'[u] = file[u]
      BY <3>1, <1>0 DEF DirOK, CallOK
    <3>3. \A u \in left : file[u].data = {}
      BY <1>3 DEF FreshDir, ExportVolume
    <3>4. \A u \in left' : file'[u].data = {}
      BY <3>1, <3>2, <3>3
    <3>5. QED
      BY <2>1, <3>1, <3>4 DEF FreshDir
  <2>4. QED
    BY <2>2, <2>3
<1>4. CASE Interrupt
  <2>1. UNCHANGED dirs /\ pc' = "idle"
    BY <1>4, Zenon DEF Interrupt, Abort, Finish
  <2>2. UNCHANGED file \/ pc = "export"
    BY <1>4, Zenon DEF Interrupt
  <2>3. QED
    BY <2>1, <2>2 DEF FreshDir
<1>5. CASE Rot
  <2>1. UNCHANGED dirs /\ pc = "idle" /\ pc' = pc
    BY <1>5, Zenon DEF Rot
  <2>2. PICK u \in Volume : file' = [file EXCEPT ![u].data = {Cut(d) : d \in @}]
    BY <1>5, Zenon DEF Rot
  <2>3. \A v \in Volume : file[v].data = {} => file'[v].data = {}
    BY <2>2, <1>0 DEF DirOK
  <2>4. QED
    BY <2>1, <2>3 DEF FreshDir
<1>6. CASE Disaster
  <2>1. dirs = 3 /\ UNCHANGED dirs /\ pc' = "idle"
    BY <1>6, Zenon DEF Disaster, Finish, dir
  <2>2. QED
    BY <2>1 DEF FreshDir
<1>7. CASE BeginCreate /\ ~Refused
  <2>1. dirs <= 1
    BY <1>7 DEF BeginCreate
  <2>2. UNCHANGED <<dirs, file>> /\ pc' \in {"return", "mkdir"}
    BY <1>7 DEF BeginCreate, Start, dir
  <2>3. dirs # 3
    BY <2>1, <1>0 DEF DirOK
  <2>4. QED
    BY <2>2, <2>3 DEF FreshDir
<1>8. CASE UNCHANGED vars \/ Refused \/ Reinstall
  <2>1. UNCHANGED <<dirs, file, pc, left>>
    BY <1>8, Zenon DEF Refused, Reinstall, vars, dir
  <2>2. QED
    BY <2>1 DEF FreshDir
<1>9. CASE \/ ExportImages \/ ExportUnits \/ ExportPodman \/ StartAgain
           \/ (BeginRestore /\ ~Refused) \/ VerifyVolume \/ UntarVolume \/ LoadImages
           \/ RestorePodman \/ RestoreNetwork \/ RestoreSecrets \/ RestoreUnits
           \/ Restart \/ Return
  <2>1. UNCHANGED <<dirs, file>>
    BY <1>9, Zenon DEF ExportImages, ExportUnits, ExportPodman, StartAgain, BeginRestore,
       VerifyVolume, UntarVolume, LoadImages, RestorePodman, RestoreNetwork,
       RestoreSecrets, RestoreUnits, Restart, Return, Start, dir
  <2>2. pc' \notin {"mkdir", "space", "stop", "export"}
    BY <1>9 DEF ExportImages, ExportUnits, ExportPodman, StartAgain, BeginRestore,
       VerifyVolume, UntarVolume, LoadImages, RestorePodman, RestoreNetwork,
       RestoreSecrets, RestoreUnits, Restart, Return, Start, MakeNetwork, DefaultUnits,
       Goto, Warn, Abort, Finish
  <2>3. QED
    BY <2>1, <2>2 DEF FreshDir
<1>10. QED
  BY <1>1, <1>2, <1>3, <1>4, <1>5, <1>6, <1>7, <1>8, <1>9, Zenon
     DEF Next, Create, Restore, World

LEMMA DirInvariant == Spec => [](TypeOK /\ Phases /\ Contents /\ FreshDir)
<1>1. Init => Contents /\ FreshDir
  <2> SUFFICES ASSUME Init PROVE Contents /\ FreshDir
    OBVIOUS
  <2>1. /\ vol \in [Volume -> {{}, {Whole}}] /\ pc = "idle"
        /\ file = [v \in Volume |-> NoFile]
    BY Zenon DEF Init
  <2>2. \A v \in Volume : vol[v] \in {{}, {Whole}} /\ file[v].data = {}
    BY <2>1 DEF NoFile
  <2>3. QED
    BY <2>1, <2>2, NotWhole DEF Contents, FreshDir
<1>2. TypeOK /\ Phases /\ Contents /\ FreshDir /\ [Next]_vars => Contents' /\ FreshDir'
  BY ContentsStep, FreshStep
<1>3. QED
  BY <1>1, <1>2, PhasesInvariant, PTL DEF Spec


-----------------------------------------------------------------------------
(* What a backup that reports success has saved *)

Saved ==
  /\ \A v \in Volume :
       saved[v] # {} => dirs = 3 /\ file[v].data # {} /\ file[v].sum = saved[v]
  /\ cmd = "create" /\ pc \in {"mkdir", "space", "stop", "export"}
       => \A v \in Volume : saved[v] = {}
  /\ cmd = "create" /\ flags \subseteq {"norestart"}
       => /\ \A v \in Volume \ left : file[v].sum = file[v].data
          /\ pc # "mkdir" => dirs = 3

\* How a step goes on with the command: only ExportVolume and UntarVolume take a volume
\* off the list.
LEMMA GoesOn ==
  ASSUME [Next]_vars
  PROVE  \/ BeginCreate /\ ~Refused
         \/ BeginRestore /\ ~Refused
         \/ Return
         \/ Finish /\ UNCHANGED saved
         \/ UNCHANGED call /\ (UNCHANGED left \/ ExportVolume \/ UntarVolume)
<1>1. CASE \/ Interrupt \/ Disaster
  BY <1>1, Zenon DEF Interrupt, Disaster, Abort
<1>2. CASE \/ UNCHANGED vars \/ Refused \/ Reinstall \/ Rot
  BY <1>2, Zenon DEF Refused, Reinstall, Rot, vars
<1>3. CASE \/ MakeDirs \/ CheckSpace \/ StopServices \/ ExportVolume
           \/ ExportImages \/ ExportUnits \/ ExportPodman \/ StartAgain
           \/ VerifyVolume \/ UntarVolume \/ LoadImages \/ RestorePodman
           \/ RestoreNetwork \/ RestoreSecrets \/ RestoreUnits \/ Restart
  <2>1. Abort \/ UNCHANGED call
    BY <1>3, Zenon DEF MakeDirs, CheckSpace, StopServices, ExportVolume,
       ExportImages, ExportUnits, ExportPodman, StartAgain, VerifyVolume, UntarVolume,
       LoadImages, RestorePodman, RestoreNetwork, RestoreSecrets, RestoreUnits, Restart,
       MakeNetwork, DefaultUnits, Goto, Warn
  <2>2. Abort \/ UNCHANGED left \/ ExportVolume \/ UntarVolume
    BY <1>3, Zenon DEF MakeDirs, CheckSpace, StopServices, ExportImages, ExportUnits,
       ExportPodman, StartAgain, VerifyVolume, LoadImages, RestorePodman, RestoreNetwork,
       RestoreSecrets, RestoreUnits, Restart
  <2>3. QED
    BY <2>1, <2>2, Zenon DEF Abort
<1>4. QED
  BY <1>1, <1>2, <1>3, Zenon DEF Next, Create, Restore, World

\* A step that changes a file.
LEMMA FileKept ==
  ASSUME TypeOK, [Next]_vars
  PROVE  UNCHANGED file \/ pc = "export" \/ Rot
<1>1. CASE Untouched \/ Restarted \/ Made \/ Extracted \/ Exported
  BY <1>1, Zenon DEF Untouched, Restarted, Made, Extracted, Exported
<1>2. CASE Disaster \/ Reinstall
  BY <1>2, Zenon DEF Disaster, Reinstall, dir
<1>3. QED
  BY <1>1, <1>2, Changes

LEMMA RotKeeps ==
  ASSUME TypeOK, Rot, NEW v \in Volume
  PROVE  /\ file'[v].sum = file[v].sum /\ (file[v].data # {} => file'[v].data # {})
         /\ UNCHANGED <<dirs, call, pc, left>> /\ pc = "idle"
<1>0. DirOK
  BY TypeParts
<1>1. PICK u \in Volume : file' = [file EXCEPT ![u].data = {Cut(d) : d \in @}]
  BY Zenon DEF Rot
<1>2. UNCHANGED <<dirs, call, pc, left>> /\ pc = "idle"
  BY Zenon DEF Rot
<1>3. file'[v].data = (IF v = u THEN {Cut(d) : d \in file[v].data} ELSE file[v].data)
  BY <1>1, <1>0 DEF DirOK
<1>4. file'[v].sum = file[v].sum
  BY <1>1, <1>0 DEF DirOK
<1>5. file[v].data # {} => file'[v].data # {}
  BY <1>3
<1>6. QED
  BY <1>2, <1>4, <1>5

\* What was saved stays saved: no backup is made into a directory that has one.
LEMMA SavedKept ==
  ASSUME TypeOK, Phases, FreshDir, Saved, [Next]_vars, NEW v \in Volume, saved'[v] # {}
  PROVE  dirs' = 3 /\ file'[v].data # {} /\ file'[v].sum = saved'[v]
<1>0. CallOK /\ DirOK
  BY TypeParts
<1>1. CASE saved'[v] # saved[v]
  <2>1. Return
    BY <1>1, GoesOn DEF BeginCreate, BeginRestore, Start, call
  <2>2. cmd = "create" /\ flags \subseteq {"norestart"} /\ saved'[v] = file[v].data
    BY <1>1, <2>1 DEF Return
  <2>3. UNCHANGED <<dirs, file>> /\ pc = "return"
    BY <2>1, Zenon DEF Return, dir
  <2>4. left = {}
    BY <2>2, <2>3 DEF Phases
  <2>5. QED
    BY <2>2, <2>3, <2>4 DEF Saved
<1>2. CASE saved'[v] = saved[v]
  <2>0. saved[v] # {} /\ dirs = 3 /\ file[v].data # {} /\ file[v].sum = saved[v]
    BY <1>2 DEF Saved
  <2>1. pc # "export" /\ pc # "mkdir"
    BY <2>0 DEF Saved, Phases
  <2>2. UNCHANGED dirs
    BY <2>1, Zenon DEF Next, Create, Restore, World, BeginCreate, MakeDirs, CheckSpace,
       StopServices, ExportVolume, ExportImages, ExportUnits, ExportPodman, StartAgain,
       BeginRestore, VerifyVolume, UntarVolume, LoadImages, RestorePodman, RestoreNetwork,
       RestoreSecrets, RestoreUnits, Restart, Return, Interrupt, Disaster, Reinstall, Rot,
       Start, Refused, dir, vars
  <2>3. CASE UNCHANGED file
    BY <1>2, <2>0, <2>2, <2>3
  <2>4. CASE Rot
    BY <1>2, <2>0, <2>2, <2>4, RotKeeps
  <2>5. QED
    BY <2>1, <2>3, <2>4, FileKept
<1>3. QED
  BY <1>1, <1>2

LEMMA SavedStep ==
  TypeOK /\ Phases /\ FreshDir /\ Saved /\ [Next]_vars => Saved'
<1> SUFFICES ASSUME TypeOK, Phases, FreshDir, Saved, [Next]_vars PROVE Saved'
  OBVIOUS
<1>0. CallOK /\ DirOK
  BY TypeParts
<1>1. \A v \in Volume :
        saved'[v] # {} => dirs' = 3 /\ file'[v].data # {} /\ file'[v].sum = saved'[v]
  BY SavedKept
<1>2. CASE BeginCreate /\ ~Refused
  <2>1. PICK f \in SUBSET CreateFlag :
          Start("create", f, IF "dryrun" \in f THEN "return" ELSE "mkdir", VolumesToBackup(f))
    BY <1>2, Zenon DEF BeginCreate
  <2>2. /\ flags' = f /\ left' = VolumesToBackup(f) /\ UNCHANGED saved
        /\ pc' = IF "dryrun" \in f THEN "return" ELSE "mkdir"
    BY <2>1, Zenon DEF Start
  <2>3. dirs # 3
    BY <1>2, <1>0 DEF BeginCreate, DirOK
  <2>4. \A v \in Volume : saved'[v] = {}
    BY <2>2, <2>3 DEF Saved
  <2>5. f \subseteq {"norestart"} => left' = Volume /\ pc' = "mkdir"
    BY <2>2, VolumeAssumption DEF VolumesToBackup
  <2>6. QED
    BY <1>1, <2>2, <2>4, <2>5 DEF Saved
<1>3. CASE (BeginRestore /\ ~Refused) \/ Finish
  <2>1. cmd' # "create"
    BY <1>3 DEF BeginRestore, Start, Finish
  <2>2. QED
    BY <1>1, <2>1 DEF Saved
<1>4. CASE Return
  BY <1>3, <1>4, Zenon DEF Return
<1>5. CASE ExportVolume /\ UNCHANGED call
  <2>1. pc = "export" /\ cmd = "create" /\ UNCHANGED dirs
    BY <1>5, Zenon DEF ExportVolume, Phases
  <2>2. UNCHANGED <<cmd, flags, saved>>
    BY <1>5, Zenon DEF call
  <2>3. PICK u \in left :
          /\ file' = [file EXCEPT ![u] = [data |-> vol[u], sum |-> vol[u]]]
          /\ left' = left \ {u}
    <3>1. cmd' # "none"
      BY <2>1, <2>2
    <3>2. ~Abort
      BY <3>1 DEF Abort, Finish
    <3>3. QED
      BY <1>5, <3>2, Zenon DEF ExportVolume
  <2>4. \A v \in Volume \ left' : file'[v].sum = file'[v].data \/ v \notin left
    BY <2>3, <1>0 DEF DirOK
  <2>5. \A v \in Volume \ left : file'[v] = file[v]
    BY <2>3, <1>0 DEF DirOK, CallOK
  <2>6. QED
    BY <1>1, <2>1, <2>2, <2>4, <2>5 DEF Saved
<1>6. CASE UNCHANGED <<call, left>>
  <2>1. UNCHANGED <<cmd, flags, saved>>
    BY <1>6, Zenon DEF call
  <2>2. CASE cmd # "create"
    BY <1>1, <2>1, <2>2 DEF Saved
  <2>3. CASE cmd = "create"
    <3>1. cmd' # "none"
      BY <2>1, <2>3
    <3>2. ~ExportVolume /\ ~Rot /\ ~Interrupt /\ ~Disaster /\ ~Reinstall /\ pc # "idle"
      <4>1. ~ExportVolume
        BY <1>6, <3>1, <1>0 DEF ExportVolume, Abort, Finish, CallOK
      <4>2. ~Rot /\ ~Reinstall /\ pc # "idle"
        BY <2>3, Zenon DEF Rot, Reinstall, Phases
      <4>3. ~Interrupt /\ ~Disaster
        BY <3>1, Zenon DEF Interrupt, Disaster, Abort, Finish
      <4>4. QED
        BY <4>1, <4>2, <4>3
    <3>3. UNCHANGED file
      BY <3>2, Zenon DEF Next, Create, Restore, World, BeginCreate, MakeDirs, CheckSpace,
         StopServices, ExportImages, ExportUnits, ExportPodman, StartAgain,
         BeginRestore, VerifyVolume, UntarVolume, LoadImages, RestorePodman, RestoreNetwork,
         RestoreSecrets, RestoreUnits, Restart, Return, Start, Refused, dir, vars
    <3>4. CASE MakeDirs
      <4>1. dirs' = 3 /\ pc = "mkdir"
        BY <3>1, <3>4 DEF MakeDirs, Abort, Finish
      <4>2. QED
        BY <1>1, <1>6, <2>1, <2>3, <3>3, <4>1 DEF Saved
    <3>5. CASE UNCHANGED vars
      BY <1>1, <1>6, <2>1, <3>3, <3>5 DEF Saved, vars, dir
    <3>6. CASE \/ CheckSpace \/ StopServices \/ ExportImages \/ ExportUnits
               \/ ExportPodman \/ StartAgain
      <4>1. /\ UNCHANGED dirs
            /\ pc \in {"space", "stop", "export", "units", "podman", "start"}
        BY <3>6, Zenon DEF CheckSpace, StopServices, ExportImages, ExportUnits,
           ExportPodman, StartAgain, dir
      <4>2. pc \in {"space", "stop"}
              \/ pc' \notin {"mkdir", "space", "stop", "export"}
        BY <3>6 DEF CheckSpace, StopServices, ExportImages, ExportUnits,
           ExportPodman, StartAgain, Goto, Warn
      <4>3. QED
        BY <1>1, <1>6, <2>1, <2>3, <3>3, <4>1, <4>2 DEF Saved
    <3>7. CASE Return
      BY <3>7, <1>4
    <3>8. QED
      <4>1. \/ UNCHANGED vars \/ MakeDirs \/ CheckSpace \/ StopServices \/ ExportImages
            \/ ExportUnits \/ ExportPodman \/ StartAgain \/ Return
            \/ (BeginCreate \/ BeginRestore \/ VerifyVolume \/ UntarVolume \/ LoadImages
                \/ RestorePodman \/ RestoreNetwork \/ RestoreSecrets \/ RestoreUnits
                \/ Restart)
        BY <3>2, Zenon DEF Next, Create, Restore, World
      <4>2. ~(BeginCreate \/ BeginRestore \/ VerifyVolume \/ UntarVolume \/ LoadImages
                \/ RestorePodman \/ RestoreNetwork \/ RestoreSecrets \/ RestoreUnits
                \/ Restart)
        <5>1. pc \notin {"idle", "verify", "untar", "network", "secrets"} /\ cmd # "restore"
          BY <2>3, <3>2 DEF Phases
        <5>2. QED
          BY <5>1, Zenon DEF BeginCreate, BeginRestore, VerifyVolume, UntarVolume,
             LoadImages, RestorePodman, RestoreNetwork, RestoreSecrets, RestoreUnits, Restart
      <4>3. QED
        BY <4>1, <4>2, <3>4, <3>5, <3>6, <3>7
  <2>4. QED
    BY <2>2, <2>3
<1>7. CASE UntarVolume /\ UNCHANGED call
  BY <1>1, <1>7 DEF UntarVolume, call, Saved, Phases
<1>8. QED
  BY <1>2, <1>3, <1>4, <1>5, <1>6, <1>7, GoesOn


-----------------------------------------------------------------------------
(* What a restoration that reports success has brought back *)

In(d, m) == \E x \in m : d \subseteq x

Strict == {"force", "restart", "skipdatabase"}

Brought ==
  /\ cmd = "restore" /\ flags \subseteq Strict
       => \A v \in Volume \ left : \A d \in saved[v] : In(d, vol[v])
  /\ pc = "untar"
       => \A v \in cur : Exists(v) /\ ("skipverify" \in flags \/ Valid(file[v]))

LEMMA InitBrought == Init => Brought
BY DEF Init, Brought

\* A restoration that goes on has taken nothing out of a volume.
LEMMA VolumesGrow ==
  ASSUME TypeOK, [Next]_vars, ~Disaster, ~Finish, NEW v \in Volume, NEW d, In(d, vol[v])
  PROVE  In(d, vol'[v])
<1>0. VolumesOK /\ CallOK /\ vol[v] # {}
  BY TypeParts DEF In
<1>1. CASE Untouched \/ Exported \/ Rot
  <2>1. UNCHANGED vol
    BY <1>1, Zenon DEF Untouched, Exported, Rot, host
  <2>2. QED
    BY <2>1
<1>2. CASE Restarted \/ Reinstall
  <2>1. vol'[v] = vol[v]
    BY <1>0, <1>2 DEF Restarted, Reinstall, StartedVolumes, Exists
  <2>2. QED
    BY <2>1
<1>3. CASE Made
  <2>1. PICK u \in left : vol' = [vol EXCEPT ![u] = IF Exists(u) THEN @ ELSE {{}}]
    BY <1>3, Zenon DEF Made
  <2>2. vol'[v] = vol[v]
    BY <2>1, <1>0 DEF VolumesOK, Exists
  <2>3. QED
    BY <2>2
<1>4. CASE Extracted
  <2>1. PICK u \in cur : \E e : Extract(u, e)
    BY <1>4, Zenon DEF Extracted
  <2>2. PICK e : Extract(u, e)
    BY <2>1
  <2>3. vol'[v] = vol[v] \/ vol'[v] = {x \cup e : x \in vol[v]}
    BY <2>2, <1>0 DEF Extract, VolumesOK
  <2>4. PICK x \in vol[v] : d \subseteq x
    BY DEF In
  <2>5. x \in vol'[v] \/ x \cup e \in vol'[v]
    BY <2>3, <2>4
  <2>6. QED
    BY <2>4, <2>5 DEF In
<1>5. QED
  BY <1>1, <1>2, <1>3, <1>4, Changes

\* The volume that is extracted gets what its file holds, which is what was saved.
LEMMA UntarBrings ==
  ASSUME TypeOK, Phases, Saved, Brought, UntarVolume, ~Abort, flags \subseteq Strict,
         NEW v \in cur, NEW d \in saved[v]
  PROVE  In(d, vol'[v])
<1>0. VolumesOK /\ CallOK
  BY TypeParts
<1>1. pc = "untar" /\ v \in Volume
  BY <1>0 DEF UntarVolume, CallOK, Maybe
<1>2. Exists(v) /\ Valid(file[v])
  BY <1>1 DEF Brought, Strict
<1>3. file[v].data = saved[v]
  BY <1>1, <1>2 DEF Saved, Valid
<1>4. PICK u \in cur : \E e \in file[u].data : Extract(u, e)
  BY Zenon DEF UntarVolume
<1>5. u = v
  BY <1>1 DEF Phases
<1>6. PICK e \in file[v].data : Extract(v, e)
  BY <1>4, <1>5
<1>7. e = d
  <2>1. file[v].data \in Content
    <3>1. DirOK
      BY TypeParts
    <3>2. QED
      BY <3>1, <1>1 DEF DirOK
  <2>2. QED
    BY <2>1, <1>3, <1>6 DEF Content, Maybe
<1>8. PICK x : x \in vol[v]
  BY <1>2 DEF Exists
<1>9. x \cup d \in vol'[v]
  BY <1>6, <1>7, <1>8, <1>1, <1>0 DEF Extract, VolumesOK
<1>10. QED
  BY <1>9 DEF In

LEMMA BroughtStep ==
  TypeOK /\ Phases /\ FreshDir /\ Saved /\ Brought /\ [Next]_vars => Brought'
<1> SUFFICES ASSUME TypeOK, Phases, FreshDir, Saved, Brought, [Next]_vars PROVE Brought'
  OBVIOUS
<1>0. CallOK /\ VolumesOK
  BY TypeParts
<1>1. pc' = "untar" => \A v \in cur' : Exists(v)' /\ ("skipverify" \in flags' \/ Valid(file[v])')
  <2> SUFFICES ASSUME pc' = "untar"
               PROVE  \A v \in cur' : Exists(v)' /\ ("skipverify" \in flags' \/ Valid(file[v])')
    OBVIOUS
  <2>1. CASE VerifyVolume
    <3>1. ~Abort
      BY DEF Abort, Finish
    <3>2. PICK v \in left :
            /\ Set("skipverify") \/ Valid(file[v])
            /\ vol' = [vol EXCEPT ![v] = IF Exists(v) THEN @ ELSE {{}}]
            /\ cur' = {v}
      BY <2>1, <3>1, Zenon DEF VerifyVolume
    <3>3. UNCHANGED <<flags, file>>
      BY <2>1, <3>1, Zenon DEF VerifyVolume, Goto, call, dir
    <3>4. vol'[v] # {}
      BY <3>2, <1>0 DEF VolumesOK, CallOK, Exists
    <3>5. QED
      BY <3>2, <3>3, <3>4 DEF Exists, Set, Valid
  <2>2. CASE UNCHANGED vars
    <3>1. UNCHANGED <<vol, file, cur, pc, flags>>
      BY <2>2, Zenon DEF vars, host, dir, call
    <3>2. QED
      BY <3>1 DEF Brought, Exists, Valid
  <2>3. VerifyVolume \/ UNCHANGED vars
    <3>1. ~Finish
      BY DEF Finish
    <3>2. ~(\/ Return \/ Interrupt \/ Disaster)
      BY <3>1, Zenon DEF Return, Interrupt, Disaster, Abort
    <3>3. CASE Refused \/ Reinstall \/ Rot
      <4>1. UNCHANGED vars \/ (pc = "idle" /\ UNCHANGED pc)
        BY <3>3, Zenon DEF Refused, Reinstall, Rot
      <4>2. QED
        BY <4>1
    <3>4. ~(\/ MakeDirs \/ CheckSpace \/ StopServices \/ ExportVolume
           \/ ExportImages \/ ExportUnits \/ ExportPodman \/ StartAgain
           \/ UntarVolume \/ LoadImages \/ RestorePodman
           \/ RestoreNetwork \/ RestoreSecrets \/ RestoreUnits \/ Restart)
      BY <3>1 DEF MakeDirs, CheckSpace, StopServices, ExportVolume,
       ExportImages, ExportUnits, ExportPodman, StartAgain, UntarVolume,
       LoadImages, RestorePodman, RestoreNetwork, RestoreSecrets, RestoreUnits, Restart,
       MakeNetwork, DefaultUnits, Goto, Warn, Abort
    <3>5. ~((BeginCreate \/ BeginRestore) /\ ~Refused)
      BY DEF BeginCreate, BeginRestore, Start
    <3>6. QED
      BY <3>2, <3>3, <3>4, <3>5, Zenon DEF Next, Create, Restore, World
  <2>4. QED
    BY <2>1, <2>2, <2>3
<1>2. ASSUME cmd' = "restore", flags' \subseteq Strict, NEW v \in Volume \ left',
             NEW d \in saved'[v]
      PROVE  In(d, vol'[v])
  <2>1. CASE BeginRestore /\ ~Refused
    <3>1. PICK f \in SUBSET RestoreFlag :
            Start("restore", f, IF "dryrun" \in f THEN "podman" ELSE "verify",
                  IF "dryrun" \in f THEN {} ELSE VolumesToRestore(f))
      BY <2>1, Zenon DEF BeginRestore
    <3>2. /\ flags' = f /\ left' = (IF "dryrun" \in f THEN {} ELSE VolumesToRestore(f))
          /\ UNCHANGED saved
      BY <3>1, Zenon DEF Start
    <3>3. left' = {u \in Volume : file[u].data # {}}
      BY <1>2, <3>2 DEF Strict, VolumesToRestore
    <3>4. saved[v] = {}
      BY <1>2, <3>3 DEF Saved
    <3>5. QED
      BY <1>2, <3>2, <3>4
  <2>2. CASE UNCHANGED call /\ (UNCHANGED left \/ ExportVolume \/ UntarVolume)
    <3>1. UNCHANGED <<cmd, flags, saved>>
      BY <2>2, Zenon DEF call
    <3>2. ~Disaster
      BY <1>2 DEF Disaster, Abort, Finish
    <3>3. CASE v \notin left
      <4>1. In(d, vol[v])
        BY <1>2, <3>1, <3>3 DEF Brought
      <4>2. ~Finish
        BY <1>2 DEF Finish
      <4>3. QED
        BY <4>1, <4>2, <3>2, VolumesGrow
    <3>4. CASE v \in left
      <4>1. cmd = "restore" /\ left' # left
        BY <1>2, <3>1, <3>4
      <4>2. UntarVolume
        BY <2>2, <4>1 DEF ExportVolume, Phases
      <4>3. ~Abort
        BY <1>2 DEF Abort, Finish
      <4>4. left' = left \ cur
        BY <4>2, <4>3, Zenon DEF UntarVolume
      <4>5. v \in cur
        BY <1>2, <3>4, <4>4
      <4>6. QED
        BY <1>2, <3>1, <4>2, <4>3, <4>5, UntarBrings
    <3>5. QED
      BY <3>3, <3>4
  <2>3. CASE (BeginCreate /\ ~Refused) \/ Return \/ Finish
    BY <1>2, <2>3 DEF BeginCreate, Start, Return, Finish
  <2>4. QED
    BY <2>1, <2>2, <2>3, GoesOn
<1>3. QED
  BY <1>1, <1>2 DEF Brought

\* The invariants about the data together.
LEMMA DataInvariant == Spec => [](TypeOK /\ Phases /\ FreshDir /\ Saved /\ Brought)
<1>1. Init => Saved
  BY DEF Init, Saved
<1>2. TypeOK /\ Phases /\ FreshDir /\ Saved /\ [Next]_vars => Saved'
  BY SavedStep
<1>3. TypeOK /\ Phases /\ FreshDir /\ Saved /\ Brought /\ [Next]_vars => Brought'
  BY BroughtStep
<1>4. QED
  BY <1>1, <1>2, <1>3, InitBrought, DirInvariant, PTL DEF Spec

\* A restoration that reports success and trusted no file unread has brought back all
\* that was at the backup in the volumes it was not told to skip, whatever was done
\* before.
THEOREM RestorationWhole == Spec => RestoredWhole
<1>1. TypeOK /\ Phases /\ FreshDir /\ Saved /\ Brought /\ [Next]_vars
        => [(Succeeds("restore") /\ flags \subseteq {"force", "restart", "skipdatabase"})
              => \A v \in Volume \ (IF Set("skipdatabase") THEN DBVolume ELSE {}) :
                   \A d \in saved[v] : \E x \in vol[v] : d \subseteq x]_vars
  <2> SUFFICES ASSUME TypeOK, Phases, Brought, Succeeds("restore"), flags \subseteq Strict,
                      NEW v \in Volume, NEW d \in saved[v]
               PROVE  \E x \in vol[v] : d \subseteq x
    BY DEF Strict
  <2>1. cmd = "restore" /\ pc = "return"
    BY DEF Succeeds, Return
  <2>2. left = {}
    BY <2>1 DEF Phases, Strict
  <2>3. QED
    BY <2>1, <2>2 DEF Brought, In
<1>2. QED
  BY <1>1, DataInvariant, PTL DEF Spec, RestoredWhole


-----------------------------------------------------------------------------
(* Backing up and restoring implement DataCopies *)

LEMMA CopiesAt ==
  ASSUME NEW v \in Volume
  PROVE  /\ Copies[v] \subseteq {"server", "backup"}
         /\ "server" \in Copies[v] <=> \E d \in vol[v] : Whole \subseteq d
         /\ "backup" \in Copies[v] <=> \E d \in file[v].data : Whole \subseteq d
BY DEF Copies

\* The copies of a volume change with the whole data in its places only.
LEMMA CopiesKept ==
  ASSUME NEW v \in Volume,
         (\E d \in vol'[v] : Whole \subseteq d) <=> (\E d \in vol[v] : Whole \subseteq d),
         (\E d \in file'[v].data : Whole \subseteq d)
           <=> (\E d \in file[v].data : Whole \subseteq d)
  PROVE  Copies'[v] = Copies[v]
BY DEF Copies

LEMMA CopiesEqual ==
  ASSUME \A v \in Volume : Copies'[v] = Copies[v]
  PROVE  Copies' = Copies
BY DEF Copies

\* A change of one volume.
LEMMA CopiesExcept ==
  ASSUME NEW u \in Volume, \A v \in Volume \ {u} : Copies'[v] = Copies[v],
         NEW p \in {"server", "backup"}, Copies'[u] = Copies[u] \cup {p}
  PROVE  Copies' = [Copies EXCEPT ![u] = @ \cup {p}]
BY DEF Copies

LEMMA CopiesLess ==
  ASSUME NEW u \in Volume, \A v \in Volume \ {u} : Copies'[v] = Copies[v],
         NEW p \in {"server", "backup"}, Copies'[u] = Copies[u] \ {p}
  PROVE  Copies' = [Copies EXCEPT ![u] = @ \ {p}]
BY DEF Copies

\* How the command goes on: another begins, it ends, or it stays.
LEMMA KindStep ==
  ASSUME TypeOK, Phases, [Next]_vars
  PROVE  \/ Kind' = Kind
         \/ Kind' = "none"
         \/ Kind = "none" /\ Kind' \in Data!Restoring \cup {"create"} /\ Untouched
<1>1. CASE Return \/ Finish
  BY <1>1 DEF Return, Finish, Kind
<1>2. CASE UNCHANGED call
  BY <1>2 DEF call, Kind, Set
<1>3. CASE (BeginCreate \/ BeginRestore) /\ ~Refused
  <2>1. pc = "idle" /\ cmd' \in {"create", "restore"}
    BY <1>3 DEF BeginCreate, BeginRestore, Start
  <2>2. Untouched
    BY <1>3, Zenon DEF BeginCreate, BeginRestore, Start, host, dir, Untouched
  <2>3. Kind = "none"
    BY <2>1 DEF Phases, Kind
  <2>4. Kind' \in Data!Restoring \cup {"create"}
    BY <2>1 DEF Kind, Data!Restoring
  <2>5. QED
    BY <2>2, <2>3, <2>4
<1>4. QED
  BY <1>1, <1>2, <1>3, GoesOn

Full(m) == \E d \in m : Whole \subseteq d

\* A volume that a restoration has yet to bring is not there or empty, unless it was
\* forced.
Bare ==
  cmd = "restore" /\ "force" \notin flags => \A v \in left : ~Full(vol[v])

\* Where a sum still fits, the file is as good as the volume; a file that no longer has
\* the data of its sum has been cut.
Fits ==
  \A v \in Volume :
    /\ Valid(file[v]) /\ Full(vol[v]) => Full(file[v].data)
    /\ file[v].sum # {} => \/ file[v].data = file[v].sum
                          \/ file[v].data = {Cut(d) : d \in file[v].data}

\* What tar does to the volume it extracts into, and to the others.
LEMMA ExtractedAt ==
  ASSUME TypeOK, Phases, Contents, Extracted
  PROVE  \E u \in left :
           /\ u \in Volume /\ cur = {u} /\ cmd = "restore" /\ UNCHANGED file
           /\ \A v \in Volume \ {u} : vol'[v] = vol[v]
           /\ \/ (Full(vol[u]) => Full(vol'[u]))
                 /\ (Full(vol'[u]) => Full(vol[u]) \/ Full(file[u].data))
              \/ Finish /\ ~Full(vol'[u])
<1>0. VolumesOK /\ CallOK
  BY TypeParts
<1>1. PICK u \in left : cur = {u}
  BY DEF Extracted, Phases
<1>2. u \in Volume /\ cmd = "restore" /\ UNCHANGED file
  BY <1>0 DEF CallOK, Extracted, Phases
<1>3. PICK d \in file[u].data : Extract(u, d) \/ Extract(u, Cut(d)) \/ (Tear(u, d) /\ Finish)
  BY <1>1, Zenon DEF Extracted
<1>4. \A v \in Volume \ {u} : vol'[v] = vol[v]
  BY <1>2, <1>3, <1>0 DEF Extract, Tear, VolumesOK
<1>5. \/ vol'[u] = {x \cup d : x \in vol[u]} \/ vol'[u] = {x \cup Cut(d) : x \in vol[u]}
      \/ vol'[u] = {Cut(x \cup d) : x \in vol[u]} /\ Finish
  BY <1>2, <1>3, <1>0 DEF Extract, Tear, VolumesOK
<1>6. ("tail" \in d => "head" \in d) /\ \A x \in vol[u] : "tail" \in x => "head" \in x
  BY <1>2, <1>3 DEF Contents, Uncut
<1>7. ASSUME vol'[u] = {x \cup d : x \in vol[u]} \/ vol'[u] = {x \cup Cut(d) : x \in vol[u]}
      PROVE  /\ Full(vol[u]) => Full(vol'[u])
             /\ Full(vol'[u]) => Full(vol[u]) \/ Full(file[u].data)
  <2>1. ASSUME NEW x \in vol[u], Whole \subseteq x PROVE Full(vol'[u])
    <3>1. x \cup d \in vol'[u] \/ x \cup Cut(d) \in vol'[u]
      BY <1>7
    <3>2. Whole \subseteq x \cup d /\ Whole \subseteq x \cup Cut(d)
      BY <2>1
    <3>3. QED
      BY <3>1, <3>2 DEF Full
  <2>2. ASSUME NEW y \in vol'[u], Whole \subseteq y PROVE Full(vol[u]) \/ Full(file[u].data)
    <3>1. PICK x \in vol[u] : y = x \cup d \/ y = x \cup Cut(d)
      BY <1>7
    <3>2. Whole \subseteq x \/ Whole \subseteq d
      BY <3>1, <2>2, <1>6, WholeParts DEF Cut
    <3>3. QED
      BY <3>2 DEF Full
  <2>3. QED
    BY <2>1, <2>2 DEF Full
<1>8. ASSUME vol'[u] = {Cut(x \cup d) : x \in vol[u]} PROVE ~Full(vol'[u])
  BY <1>8, NotWhole DEF Full
<1>9. \/ (Full(vol[u]) => Full(vol'[u]))
         /\ (Full(vol'[u]) => Full(vol[u]) \/ Full(file[u].data))
      \/ Finish /\ ~Full(vol'[u])
  BY <1>5, <1>7, <1>8
<1>10. QED
  BY <1>1, <1>2, <1>4, <1>9, Zenon

\* The only other steps that touch a volume create it.
LEMMA NeverFuller ==
  ASSUME TypeOK, [Next]_vars, ~Extracted, NEW v \in Volume, Full(vol'[v])
  PROVE  Full(vol[v]) /\ vol'[v] = vol[v]
<1>0. VolumesOK
  BY TypeParts
<1>1. ASSUME vol'[v] \in {{}, {{}}, {{"fresh"}}} PROVE FALSE
  BY <1>1, NotWhole DEF Full
<1>2. vol'[v] = vol[v] \/ vol'[v] \in {{}, {{}}, {{"fresh"}}}
  <2>1. CASE Untouched \/ Exported \/ Rot
    BY <2>1, Zenon DEF Untouched, Exported, Rot, host
  <2>2. CASE Restarted
    BY <2>2 DEF Restarted, StartedVolumes
  <2>3. CASE Made
    <3>1. PICK u \in left : vol' = [vol EXCEPT ![u] = IF Exists(u) THEN @ ELSE {{}}]
      BY <2>3, Zenon DEF Made
    <3>2. QED
      BY <3>1, <1>0 DEF VolumesOK
  <2>4. CASE Disaster \/ Reinstall
    BY <2>4 DEF Disaster, Reinstall
  <2>5. QED
    BY <2>1, <2>2, <2>3, <2>4, Changes
<1>3. QED
  BY <1>1, <1>2

LEMMA BareStep ==
  TypeOK /\ Phases /\ Contents /\ Bare /\ [Next]_vars => Bare'
<1> SUFFICES ASSUME TypeOK, Phases, Contents, Bare, [Next]_vars,
                    cmd' = "restore", "force" \notin flags', NEW v \in left', Full(vol'[v])
             PROVE  FALSE
  BY DEF Bare, Full
<1>0. CallOK
  BY TypeParts
<1>1. ~Finish /\ ~Return /\ ~(BeginCreate /\ ~Refused)
  BY DEF Finish, Return, BeginCreate, Start
<1>2. CASE BeginRestore /\ ~Refused
  <2>1. PICK f \in SUBSET RestoreFlag :
          /\ Acceptable(f)
          /\ Start("restore", f, IF "dryrun" \in f THEN "podman" ELSE "verify",
                   IF "dryrun" \in f THEN {} ELSE VolumesToRestore(f))
    BY <1>2, Zenon DEF BeginRestore
  <2>2. /\ flags' = f /\ left' = (IF "dryrun" \in f THEN {} ELSE VolumesToRestore(f))
        /\ UNCHANGED vol
    BY <2>1, Zenon DEF Start, host
  <2>3. ~Exists(v)
    BY <2>1, <2>2 DEF Acceptable
  <2>4. QED
    BY <2>2, <2>3 DEF Exists, Full
<1>3. CASE UNCHANGED call /\ (UNCHANGED left \/ ExportVolume \/ UntarVolume)
  <2>1. UNCHANGED <<cmd, flags>>
    BY <1>3, Zenon DEF call
  <2>2. left' \subseteq left
    BY <1>3, <1>1, Zenon DEF ExportVolume, UntarVolume, Abort
  <2>3. v \in left /\ v \in Volume /\ ~Full(vol[v])
    BY <2>1, <2>2, <1>0 DEF Bare, CallOK
  <2>4. CASE ~Extracted
    BY <2>3, <2>4, NeverFuller
  <2>5. CASE Extracted
    <3>1. PICK u \in left : /\ cur = {u}
                            /\ \A w \in Volume \ {u} : vol'[w] = vol[w]
      BY <2>5, ExtractedAt
    <3>2. v = u
      BY <2>3, <3>1
    <3>3. UntarVolume
      <4>1. pc = "untar" /\ ~Interrupt
        BY <2>5, <1>1, Zenon DEF Extracted, Interrupt, Abort
      <4>2. \/ UNCHANGED vars \/ UntarVolume \/ pc' = "idle"
        BY <4>1, Zenon DEF Next, Create, Restore, World, BeginCreate, MakeDirs, CheckSpace,
           StopServices, ExportVolume, ExportImages, ExportUnits, ExportPodman, StartAgain,
           BeginRestore, VerifyVolume, LoadImages, RestorePodman, RestoreNetwork,
           RestoreSecrets, RestoreUnits, Restart, Return, Disaster, Reinstall, Rot, Finish
      <4>3. ~UNCHANGED vars
        <5>1. vol'[v] # vol[v]
          BY <2>3
        <5>2. QED
          BY <5>1, Zenon DEF vars, host
      <4>4. pc' # "idle"
        BY PhasesStep DEF Phases
      <4>5. QED
        BY <4>2, <4>3, <4>4
    <3>4. left' = left \ cur
      BY <3>3, <1>1, Zenon DEF UntarVolume, Abort
    <3>5. QED
      BY <3>1, <3>2, <3>4
  <2>6. QED
    BY <2>4, <2>5
<1>4. QED
  BY <1>1, <1>2, <1>3, GoesOn

LEMMA FitsStep ==
  TypeOK /\ Phases /\ Contents /\ Fits /\ [Next]_vars => Fits'
<1> SUFFICES ASSUME TypeOK, Phases, Contents, Fits, [Next]_vars, NEW v \in Volume
             PROVE  /\ Valid(file[v])' /\ Full(vol'[v]) => Full(file'[v].data)
                    /\ file'[v].sum # {} => \/ file'[v].data = file'[v].sum
                                            \/ file'[v].data = {Cut(d) : d \in file'[v].data}
  BY DEF Fits, Full
<1>0. VolumesOK /\ DirOK /\ CallOK
  BY TypeParts
<1>1. CASE UNCHANGED file /\ ~Extracted
  BY <1>1, NeverFuller DEF Fits, Valid
<1>2. CASE Extracted
  <2>1. PICK u \in left :
           /\ UNCHANGED file
           /\ \A w \in Volume \ {u} : vol'[w] = vol[w]
           /\ Full(vol'[u]) => Full(vol[u]) \/ Full(file[u].data)
    BY <1>2, ExtractedAt
  <2>2. QED
    BY <2>1 DEF Fits, Valid
<1>3. CASE Exported
  <2>1. PICK u \in left : \E d \in {{}, {Cut(x) : x \in vol[u]}, vol[u]} :
                           \E s \in {{}, vol[u]} :
          file' = [file EXCEPT ![u] = [data |-> d, sum |-> s]]
    BY <1>3, Zenon DEF Exported
  <2>2. PICK d \in {{}, {Cut(x) : x \in vol[u]}, vol[u]}, s \in {{}, vol[u]} :
          file' = [file EXCEPT ![u] = [data |-> d, sum |-> s]]
    BY <2>1
  <2>3. UNCHANGED vol /\ u \in Volume
    BY <1>3, <1>0 DEF Exported, CallOK
  <2>4. CASE v # u
    <3>1. file'[v] = file[v]
      BY <2>2, <2>4, <1>0 DEF DirOK
    <3>2. QED
      BY <3>1, <2>3 DEF Fits, Valid
  <2>5. CASE v = u
    <3>1. file'[v] = [data |-> d, sum |-> s]
      BY <2>2, <2>5, <1>0 DEF DirOK
    <3>2. Valid(file[v])' => d = vol[v]
      BY <3>1, <2>2, <2>5 DEF Valid
    <3>3. d = {Cut(x) : x \in d} \/ d = vol[v]
      BY <2>2, <2>5 DEF Cut
    <3>4. s # {} => s = vol[v]
      BY <2>2, <2>5
    <3>5. file'[v].data = d /\ file'[v].sum = s
      BY <3>1
    <3>6. QED
      BY <3>2, <3>3, <3>4, <3>5, <2>3
  <2>6. QED
    BY <2>4, <2>5
<1>4. CASE Rot
  <2>1. PICK u \in Volume : /\ file' = [file EXCEPT ![u].data = {Cut(d) : d \in @}]
                            /\ file' # file
    BY <1>4, Zenon DEF Rot
  <2>2. UNCHANGED vol
    BY <1>4, Zenon DEF Rot, host
  <2>3. CASE v # u
    <3>1. file'[v] = file[v]
      BY <2>1, <2>3, <1>0 DEF DirOK
    <3>2. QED
      BY <3>1, <2>2 DEF Fits, Valid
  <2>4. CASE v = u
    <3>1. file'[v].data = {Cut(d) : d \in file[v].data} /\ file'[v].sum = file[v].sum
      BY <2>1, <2>4, <1>0 DEF DirOK
    <3>2. file'[v].data # file[v].data
      BY <2>1, <2>4, <3>1, <1>0 DEF DirOK
    <3>3. file'[v].data = {Cut(d) : d \in file'[v].data}
      BY <3>1 DEF Cut
    <3>4. file[v].sum # {} => file[v].data = file[v].sum
      BY <3>1, <3>2 DEF Fits
    <3>5. ~Valid(file[v])'
      BY <3>1, <3>2, <3>4 DEF Valid
    <3>6. QED
      BY <3>3, <3>5
  <2>5. QED
    BY <2>3, <2>4
<1>5. UNCHANGED file \/ Extracted \/ Exported \/ Rot
  <2>1. CASE Untouched \/ Restarted \/ Made
    BY <2>1, Zenon DEF Untouched, Restarted, Made
  <2>2. CASE Disaster \/ Reinstall
    BY <2>2, Zenon DEF Disaster, Reinstall, dir
  <2>3. QED
    BY <2>1, <2>2, Changes
<1>6. QED
  BY <1>1, <1>2, <1>3, <1>4, <1>5

\* Extracting a tar file makes a volume whole only if the file is, and one that is cut
\* spoils a volume only if the restoration was forced: the file it reads is then as good,
\* unless it was not verified.
LEMMA ExtractBrings ==
  ASSUME TypeOK, Phases, Contents, Bare, Fits, Brought, Extracted,
         Kind' = Kind \/ Kind' = "none", UNCHANGED site
  PROVE  (\E v \in Volume : Data!Bring(v) \/ Data!Spoil(v)) \/ Copies' = Copies
<1>1. PICK u \in left :
           /\ u \in Volume /\ cur = {u} /\ cmd = "restore" /\ UNCHANGED file
           /\ \A v \in Volume \ {u} : vol'[v] = vol[v]
           /\ \/ (Full(vol[u]) => Full(vol'[u]))
                 /\ (Full(vol'[u]) => Full(vol[u]) \/ Full(file[u].data))
              \/ Finish /\ ~Full(vol'[u])
  BY ExtractedAt
<1>2. \A v \in Volume \ {u} : Copies'[v] = Copies[v]
  BY <1>1, CopiesKept
<1>3. Kind \in Data!Restoring
  BY <1>1 DEF Kind, Data!Restoring
<1>4. CASE Full(vol'[u]) <=> Full(vol[u])
  <2>1. Copies'[u] = Copies[u]
    BY <1>1, <1>4, CopiesKept DEF Full
  <2>2. QED
    BY <2>1, <1>2, CopiesEqual
<1>5. CASE Full(vol'[u]) /\ ~Full(vol[u])
  <2>1. Full(file[u].data)
    BY <1>1, <1>5
  <2>2. "backup" \in Copies[u]
    BY <2>1, <1>1, CopiesAt DEF Full
  <2>3. Copies'[u] = Copies[u] \cup {"server"}
    BY <1>1, <1>5 DEF Copies, Full
  <2>4. Copies' = [Copies EXCEPT ![u] = @ \cup {"server"}]
    BY <2>3, <1>1, <1>2, CopiesExcept
  <2>5. Data!Bring(u)
    BY <2>2, <2>4, <1>3 DEF Data!Bring
  <2>6. QED
    BY <2>5, <1>1
<1>6. CASE ~Full(vol'[u]) /\ Full(vol[u])
  <2>1. Finish
    BY <1>1, <1>6
  <2>2. Kind' = "none"
    BY <2>1 DEF Finish, Kind
  <2>3. "force" \in flags
    BY <1>1, <1>6 DEF Bare
  <2>4. Kind = IF "skipverify" \in flags THEN "careless" ELSE "forced"
    BY <1>1, <2>3 DEF Kind, Set
  <2>5. Kind = "forced" => "backup" \in Copies[u]
    <3>1. "skipverify" \notin flags => Valid(file[u])
      BY <1>1 DEF Brought, Extracted
    <3>2. "skipverify" \notin flags => Full(file[u].data)
      BY <3>1, <1>1, <1>6 DEF Fits
    <3>3. QED
      BY <2>4, <3>2, <1>1, CopiesAt DEF Full
  <2>6. Copies'[u] = Copies[u] \ {"server"}
    BY <1>1, <1>6 DEF Copies, Full
  <2>7. Copies' = [Copies EXCEPT ![u] = @ \ {"server"}]
    BY <2>6, <1>1, <1>2, CopiesLess
  <2>8. Data!Spoil(u)
    BY <2>2, <2>4, <2>5, <2>7 DEF Data!Spoil
  <2>9. QED
    BY <2>8, <1>1
<1>7. QED
  BY <1>4, <1>5, <1>6

\* A backup writes a file that was not there: what it holds is on the server.
LEMMA ExportSaves ==
  ASSUME TypeOK, Phases, FreshDir, Exported, Kind' = Kind \/ Kind' = "none", UNCHANGED site
  PROVE  (\E v \in Volume : Data!Save(v)) \/ Copies' = Copies
<1>0. VolumesOK /\ CallOK /\ DirOK
  BY TypeParts
<1>1. PICK u \in left : \E d \in {{}, {Cut(x) : x \in vol[u]}, vol[u]} : \E s \in {{}, vol[u]} :
        file' = [file EXCEPT ![u] = [data |-> d, sum |-> s]]
  BY Zenon DEF Exported
<1>2. PICK d \in {{}, {Cut(x) : x \in vol[u]}, vol[u]} : \E s \in {{}, vol[u]} :
        file' = [file EXCEPT ![u] = [data |-> d, sum |-> s]]
  BY <1>1
<1>3. u \in Volume /\ cmd = "create" /\ file[u].data = {} /\ UNCHANGED vol
  BY <1>0 DEF CallOK, Exported, Phases, FreshDir
<1>4. file'[u].data = d /\ \A v \in Volume \ {u} : file'[v] = file[v]
  BY <1>2, <1>3, <1>0 DEF DirOK
<1>5. \A v \in Volume \ {u} : Copies'[v] = Copies[v]
  BY <1>3, <1>4, CopiesKept
<1>6. CASE \E x \in d : Whole \subseteq x
  <2>1. d = vol[u]
    BY <1>2, <1>6, NotWhole
  <2>2. "server" \in Copies[u]
    BY <2>1, <1>3, <1>6, CopiesAt
  <2>3. Copies'[u] = Copies[u] \cup {"backup"}
    BY <1>3, <1>4, <1>6 DEF Copies
  <2>4. Copies' = [Copies EXCEPT ![u] = @ \cup {"backup"}]
    BY <2>3, <1>3, <1>5, CopiesExcept
  <2>5. Data!Save(u)
    BY <2>2, <2>4, <1>3 DEF Data!Save, Kind
  <2>6. QED
    BY <2>5, <1>3
<1>7. CASE ~\E x \in d : Whole \subseteq x
  <2>1. Copies'[u] = Copies[u]
    BY <1>3, <1>4, <1>7, CopiesKept
  <2>2. QED
    BY <2>1, <1>5, CopiesEqual
<1>8. QED
  BY <1>6, <1>7

\* Volumes that are created are not whole, and those that are there stay as they are.
LEMMA CreationAdds ==
  ASSUME TypeOK, Untouched \/ Restarted \/ Made \/ Reinstall
  PROVE  Copies' = Copies
<1>0. VolumesOK
  BY TypeParts
<1>1. UNCHANGED file
  BY Zenon DEF Untouched, Restarted, Made, Reinstall, dir
<1>2. ASSUME NEW v \in Volume
      PROVE  vol'[v] = vol[v] \/ (vol[v] = {} /\ vol'[v] \in {{{}}, {{"fresh"}}})
  <2>1. CASE Untouched
    BY <2>1 DEF Untouched
  <2>2. CASE Restarted
    BY <2>2 DEF Restarted, StartedVolumes, Exists
  <2>3. CASE Made
    <3>1. PICK u \in left : vol' = [vol EXCEPT ![u] = IF Exists(u) THEN @ ELSE {{}}]
      BY <2>3, Zenon DEF Made
    <3>2. QED
      BY <3>1, <1>0 DEF VolumesOK, Exists
  <2>4. CASE Reinstall
    BY <2>4 DEF Reinstall, Exists
  <2>5. QED
    BY <2>1, <2>2, <2>3, <2>4
<1>3. ASSUME NEW v \in Volume PROVE Copies'[v] = Copies[v]
  <2>1. (\E d \in vol'[v] : Whole \subseteq d) <=> (\E d \in vol[v] : Whole \subseteq d)
    BY <1>2, NotWhole
  <2>2. QED
    BY <2>1, <1>1, CopiesKept
<1>4. QED
  BY <1>3, CopiesEqual

\* A disaster leaves no volume.
LEMMA DisasterLoses ==
  ASSUME TypeOK, Disaster
  PROVE  Data!LoseHost
<1>1. Kind' = "none" /\ site' = 1 - site
  BY DEF Disaster, Finish, Kind
<1>2. UNCHANGED file /\ \A v \in Volume : vol'[v] = {}
  BY DEF Disaster, dir
<1>3. Copies' = [v \in Volume |-> Copies[v] \ {"server"}]
  BY <1>2 DEF Copies
<1>4. QED
  BY <1>1, <1>3 DEF Data!LoseHost

\* A file that has gone bad has no end.
LEMMA RotLoses ==
  ASSUME TypeOK, Phases, Rot, UNCHANGED site
  PROVE  \E v \in Volume : Data!Rot(v)
<1>0. DirOK
  BY TypeParts
<1>1. PICK u \in Volume : file' = [file EXCEPT ![u].data = {Cut(d) : d \in @}]
  BY Zenon DEF Rot
<1>2. UNCHANGED <<vol, cmd>> /\ cmd = "none"
  BY Zenon DEF Rot, host, call, Phases
<1>3. Kind = "none" /\ Kind' = "none"
  BY <1>2 DEF Kind
<1>4. \A v \in Volume \ {u} : file'[v] = file[v]
  BY <1>1, <1>0 DEF DirOK
<1>5. file'[u].data = {Cut(d) : d \in file[u].data}
  BY <1>1, <1>0 DEF DirOK
<1>6. \A v \in Volume \ {u} : Copies'[v] = Copies[v]
  BY <1>2, <1>4, CopiesKept
<1>7. ~Full(file'[u].data)
  BY <1>5, NotWhole DEF Full
<1>8. Copies'[u] = Copies[u] \ {"backup"}
  BY <1>2, <1>7 DEF Copies, Full
<1>9. Copies' = [Copies EXCEPT ![u] = @ \ {"backup"}]
  BY <1>6, <1>8, CopiesLess
<1>10. QED
  BY <1>3, <1>9 DEF Data!Rot

LEMMA CopiesInvariant ==
  Spec => [](TypeOK /\ Phases /\ Contents /\ FreshDir /\ Brought /\ Bare /\ Fits)
<1>1. Init => Bare /\ Fits
  <2> SUFFICES ASSUME Init PROVE Bare /\ Fits
    OBVIOUS
  <2>1. cmd = "none" /\ file = [v \in Volume |-> NoFile]
    BY Zenon DEF Init
  <2>2. QED
    BY <2>1 DEF Bare, Fits, NoFile, Valid
<1>2. TypeOK /\ Phases /\ Contents /\ Bare /\ Fits /\ [Next]_vars => Bare' /\ Fits'
  BY BareStep, FitsStep
<1>3. QED
  BY <1>1, <1>2, DirInvariant, DataInvariant, PTL DEF Spec

\* A whole copy of a volume is made only from a whole copy, and however a command ends
\* it takes none away, except a forced restoration that is cut, which leaves the copy it
\* verified: every step is one of DataCopies or changes nothing there.
THEOREM DataImplemented == Spec => KeepsCopies
<1>1. Init => Data!Init
  <2> SUFFICES ASSUME Init PROVE Data!Init
    OBVIOUS
  <2>1. /\ vol \in [Volume -> {{}, {Whole}}] /\ cmd = "none" /\ site = 0
        /\ file = [v \in Volume |-> NoFile]
    BY Zenon DEF Init
  <2>2. \A v \in Volume : file[v].data = {}
    BY <2>1 DEF NoFile
  <2>3. \A v \in Volume : Copies[v] \in {{}, {"server"}}
    BY <2>2, CopiesAt
  <2>4. Kind = "none"
    BY <2>1 DEF Kind
  <2>5. QED
    BY <2>1, <2>3, <2>4 DEF Data!Init, Copies
<1>2. TypeOK /\ Phases /\ Contents /\ FreshDir /\ Brought /\ Bare /\ Fits /\ [Next]_vars
        => [Data!Next]_<<Kind, Copies, site>>
  <2> SUFFICES ASSUME TypeOK, Phases, Contents, FreshDir, Brought, Bare, Fits, [Next]_vars
               PROVE  Data!Next \/ UNCHANGED <<Kind, Copies, site>>
    OBVIOUS
  <2>1. CASE Disaster
    BY <2>1, DisasterLoses DEF Data!Next
  <2>2. CASE ~Disaster /\ Untouched
    <3>1. Copies' = Copies /\ UNCHANGED site
      BY <2>2, CreationAdds, SiteKept
    <3>2. CASE Kind = "none" /\ Kind' \in Data!Restoring \cup {"create"}
      <4>1. Data!Begin(Kind')
        BY <3>1, <3>2 DEF Data!Begin
      <4>2. QED
        BY <4>1, <3>2 DEF Data!Next
    <3>3. CASE Kind' = "none"
      BY <3>1, <3>3 DEF Data!Next, Data!End
    <3>4. QED
      BY <3>1, <3>2, <3>3, KindStep
  <2>3. CASE ~Disaster /\ ~Untouched
    <3>1. Kind' = Kind \/ Kind' = "none"
      BY <2>3, KindStep
    <3>2. UNCHANGED site
      BY <2>3, SiteKept
    <3>3. CASE Copies' = Copies
      BY <3>1, <3>2, <3>3 DEF Data!Next, Data!End
    <3>4. CASE Rot
      BY <3>2, <3>4, RotLoses DEF Data!Next
    <3>5. CASE Extracted
      BY <3>1, <3>2, <3>3, <3>5, ExtractBrings DEF Data!Next
    <3>6. CASE Exported
      BY <3>1, <3>2, <3>3, <3>6, ExportSaves DEF Data!Next
    <3>7. CASE Restarted \/ Made \/ Reinstall
      BY <3>3, <3>7, CreationAdds
    <3>8. QED
      BY <2>3, <3>4, <3>5, <3>6, <3>7, Changes
  <2>4. QED
    BY <2>1, <2>2, <2>3
<1>3. QED
  BY <1>1, <1>2, CopiesInvariant, PTL DEF Spec, KeepsCopies, Data!Spec

-----------------------------------------------------------------------------
(* The configuration *)

NetworkBack == network \/ \E c \in conf : ~c.network
SecretsBack == \A c \in conf : c.secrets \subseteq secrets
UnitsBack == sysd # {} /\ \A c \in sysd : c.units \subseteq units

Plain == cmd = "restore" /\ flags \cap {"restart", "dryrun"} = {} /\ ~err

Configured ==
  Plain =>
    /\ pc \in {"secrets", "units", "start", "return"} => NetworkBack
    /\ pc \in {"units", "start", "return"} => SecretsBack
    /\ pc \in {"start", "return"} => UnitsBack

Late == {"secrets", "units", "start", "return"}

\* The configuration of a backup is one or none.
LEMMA OneConfiguration ==
  ASSUME DirOK
  PROVE  /\ \A c, d \in conf : c = d
         /\ \A c, d \in sysd : c = d
BY DEF DirOK, Maybe

LEMMA ConfiguredStep ==
  TypeOK /\ Phases /\ Configured /\ [Next]_vars => Configured'
<1> SUFFICES ASSUME TypeOK, Phases, Configured, [Next]_vars, Plain', pc' \in Late
             PROVE  /\ NetworkBack'
                    /\ pc' \in {"units", "start", "return"} => SecretsBack'
                    /\ pc' \in {"start", "return"} => UnitsBack'
  BY DEF Configured, Late
<1>0. DirOK /\ CallOK
  BY TypeParts
<1>1. cmd' = "restore" /\ flags' \cap {"restart", "dryrun"} = {} /\ ~err'
  BY Zenon DEF Plain
<1>2. ~Finish
  BY <1>1 DEF Finish
<1>3. ~(BeginCreate /\ ~Refused) /\ ~(BeginRestore /\ ~Refused)
  BY <1>1 DEF BeginCreate, BeginRestore, Start, Late
<1>4. UNCHANGED <<cmd, flags>>
  BY <1>2, <1>3, GoesOn DEF Return, call
<1>5. cmd = "restore" /\ "restart" \notin flags /\ "dryrun" \notin flags
  BY <1>1, <1>4
<1>6. CASE RestorePodman
  <2>1. conf = {}
    BY <1>6, <1>1, <1>5 DEF RestorePodman, Goto, Warn, Set, Late
  <2>2. network' = TRUE /\ pc' = "units"
    BY <1>6, <1>1, <2>1, Zenon DEF RestorePodman, MakeNetwork, Goto, Warn
  <2>3. UNCHANGED conf
    BY <1>6, Zenon DEF RestorePodman, dir
  <2>4. NetworkBack'
    BY <2>2, Zenon DEF NetworkBack
  <2>5. QED
    BY <2>1, <2>2, <2>3, <2>4 DEF SecretsBack
<1>7. CASE RestoreNetwork
  <2>1. pc' = "secrets" /\ UNCHANGED conf
    BY <1>7, Zenon DEF RestoreNetwork, MakeNetwork, Goto, Warn, dir
  <2>2. network' = TRUE \/ \E c \in conf : ~c.network
    BY <1>7, <1>1, Zenon DEF RestoreNetwork, MakeNetwork, Goto, Warn
  <2>3. NetworkBack'
    BY <2>1, <2>2, Zenon DEF NetworkBack
  <2>4. QED
    BY <2>1, <2>3
<1>8. CASE RestoreSecrets
  <2>1. /\ pc = "secrets" /\ pc' = "units" /\ UNCHANGED <<network, conf>>
        /\ UNCHANGED err
    BY <1>8, <1>1, Zenon DEF RestoreSecrets, Goto, Warn, dir
  <2>2. Plain
    BY <1>1, <1>5, <2>1, Zenon DEF Plain
  <2>3. NetworkBack'
    <3>1. NetworkBack
      BY <2>1, <2>2 DEF Configured
    <3>2. QED
      BY <2>1, <3>1, Zenon DEF NetworkBack
  <2>4. SecretsBack'
    <3>1. PICK c \in conf : secrets' = secrets \cup (c.secrets \ {})
      BY <1>8, <1>1, Zenon DEF RestoreSecrets, Warn
    <3>2. QED
      BY <3>1, <2>1, <1>0, OneConfiguration DEF SecretsBack
  <2>5. QED
    BY <2>1, <2>3, <2>4
<1>9. CASE RestoreUnits
  <2>1. /\ pc = "units" /\ pc' = "start" /\ UNCHANGED <<conf, sysd>>
    BY <1>9, Zenon DEF RestoreUnits, DefaultUnits, Goto, Warn, dir
  <2>2. UNCHANGED <<network, secrets, err>> /\ \E c \in sysd : units' = units \cup c.units
    BY <1>9, <1>1, <1>5, Zenon DEF RestoreUnits, DefaultUnits, Goto, Warn, Set
  <2>3. Plain
    BY <1>1, <1>5, <2>2, Zenon DEF Plain
  <2>4. NetworkBack /\ SecretsBack
    BY <2>1, <2>3 DEF Configured
  <2>5. NetworkBack'
    BY <2>1, <2>2, <2>4, Zenon DEF NetworkBack
  <2>6. SecretsBack'
    BY <2>1, <2>2, <2>4 DEF SecretsBack
  <2>7. UnitsBack'
    BY <2>1, <2>2, <1>0, OneConfiguration DEF UnitsBack
  <2>8. QED
    BY <2>5, <2>6, <2>7
<1>10. CASE Restart \/ UNCHANGED vars
  <2>1. UNCHANGED <<network, secrets, units, conf, sysd>>
    BY <1>10, Zenon DEF Restart, vars, host, dir
  <2>2. UNCHANGED err /\ (UNCHANGED pc \/ pc = "start")
    BY <1>10, <1>5, Zenon DEF Restart, Goto, Set, vars
  <2>3. Plain
    BY <1>1, <1>5, <2>2, Zenon DEF Plain
  <2>4. /\ pc \in Late => NetworkBack
        /\ pc' \in {"units", "start", "return"} => SecretsBack
        /\ pc' \in {"start", "return"} => UnitsBack
    BY <2>2, <2>3 DEF Configured, Late
  <2>5. pc \in Late
    BY <2>2 DEF Late
  <2>6. NetworkBack'
    BY <2>1, <2>4, <2>5, Zenon DEF NetworkBack
  <2>7. SecretsBack => SecretsBack'
    BY <2>1 DEF SecretsBack
  <2>8. UnitsBack => UnitsBack'
    BY <2>1 DEF UnitsBack
  <2>9. QED
    BY <2>4, <2>6, <2>7, <2>8
<1>11. RestorePodman \/ RestoreNetwork \/ RestoreSecrets \/ RestoreUnits \/ Restart
        \/ UNCHANGED vars
  <2>1. ~(Return \/ Interrupt \/ Disaster)
    BY <1>2, Zenon DEF Return, Interrupt, Disaster, Abort
  <2>2. ~(Reinstall \/ Rot \/ (Refused /\ ~UNCHANGED vars))
    BY <1>5, Zenon DEF Reinstall, Rot, Refused, Phases
  <2>3. ~(\/ MakeDirs \/ CheckSpace \/ StopServices \/ ExportVolume \/ ExportImages)
    BY <1>5, Zenon DEF MakeDirs, CheckSpace, StopServices, ExportVolume, ExportImages,
       Phases
  <2>4. ~(\/ ExportUnits \/ ExportPodman \/ StartAgain)
    BY <1>5 DEF ExportUnits, ExportPodman, StartAgain
  <2>5. ~(VerifyVolume \/ UntarVolume \/ LoadImages)
    BY <1>2 DEF VerifyVolume, UntarVolume, LoadImages, Goto, Warn, Abort, Late
  <2>6. QED
    BY <1>3, <2>1, <2>2, <2>3, <2>4, <2>5, Zenon DEF Next, Create, Restore, World, Refused
<1>12. QED
  BY <1>6, <1>7, <1>8, <1>9, <1>10, <1>11

\* A restoration without --restart that reports success leaves the network, the secrets
\* and the units of the backup.
THEOREM ConfigurationBack == Spec => RestoredConfig
<1>1. Init => Configured
  BY DEF Init, Configured, Plain
<1>2. TypeOK /\ Phases /\ Configured /\ [Next]_vars => Configured'
  BY ConfiguredStep
<1>3. TypeOK /\ Phases /\ Configured /\ [Next]_vars
        => [(Succeeds("restore") /\ flags \cap {"restart", "dryrun"} = {})
              => /\ network \/ \E c \in conf : ~c.network
                 /\ \A c \in conf : c.secrets \subseteq secrets
                 /\ sysd # {} /\ \A c \in sysd : c.units \subseteq units]_vars
  <2> SUFFICES ASSUME Configured, Succeeds("restore"), flags \cap {"restart", "dryrun"} = {}
               PROVE  NetworkBack /\ SecretsBack /\ UnitsBack
    BY DEF NetworkBack, SecretsBack, UnitsBack
  <2>1. Plain /\ pc = "return"
    BY Zenon DEF Succeeds, Return, Plain
  <2>2. QED
    BY <2>1 DEF Configured
<1>4. QED
  BY <1>1, <1>2, <1>3, PhasesInvariant, PTL DEF Spec, RestoredConfig

===============================================================================
