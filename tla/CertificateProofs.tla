-------------------------- MODULE CertificateProofs --------------------------
(***************************************************************************)
(* Proofs about CertificateRotation, for any clients and names and any     *)
(* number of CAs, certificates and commands.                               *)
(***************************************************************************)
EXTENDS CertificateRotation, TLAPS

\* The part of a TLS secret, and what the secrets of an owner hold.
Part == {"cert", "key", "ca"}
Stored == [cert : Maybe(Pair), key : Maybe(Pair), ca : Seq(CA)]

(* TypeOK in seven parts. *)

SecretsOK == sec \in [Owner -> Stored]

RunOK == DOMAIN run = Owner /\ \A o \in Owner : \A m \in run[o] : m \in Mounts

DiskOK ==
  /\ build \in Maybe(CA) /\ staged \in Maybe(CA)
  /\ made \in 0 .. MaxCA /\ issued \in 0 .. MaxIssue

WorldOK == files \in Maybe(Pair) /\ trusts \in [Client -> SUBSET CA]

PlaceOK == name \in Host /\ hostca \in Seq(CA)

CallOK ==
  /\ cmd \in Command /\ pc \in Step /\ flags \subseteq Flag
  /\ fqdn \in Host /\ begun \in 0 .. MaxCommands
  /\ outcome \in {"none", "ok", "failed"}

WritingOK ==
  /\ pair \in Maybe(Pair) /\ bundle \in [Owner -> Seq(CA)]
  /\ todo \in Seq(Owner \X Part) /\ next \in Step

RestOK ==
  /\ ready \subseteq Owner /\ err \in BOOLEAN
  /\ links \in [Link -> Link \cup {"none"}] /\ at \in Link \cup {"none"}
  /\ checked \in Maybe(CA) /\ answered \subseteq Client /\ botched \in BOOLEAN

LEMMA TypeParts ==
  TypeOK <=> /\ SecretsOK /\ RunOK /\ DiskOK /\ WorldOK /\ PlaceOK
             /\ CallOK /\ WritingOK /\ RestOK
BY Zenon DEF TypeOK, SecretsOK, Stored, Part, RunOK, DiskOK, WorldOK, PlaceOK, CallOK,
             WritingOK, RestOK

(* The steps each command takes, and what must be there for it to take them. *)

Preparing == {"setup", "rename"}

AddSteps == {"generate", "append", "put", "restartdb", "restart", "trust"}

RotateSteps ==
  {"fingerprint", "check", "switch", "promote", "generate", "chain", "walk", "dbchain",
   "dbwalk", "provided", "put", "restartdb", "restart", "trust"}

PrepareSteps ==
  {"chain", "walk", "dbchain", "dbwalk", "provided", "reuse", "reusedb", "decide",
   "issue", "put", "stop", "alter", "restartdb", "restart", "trust"}

BeforeIssue ==
  {"chain", "walk", "dbchain", "dbwalk", "provided", "reuse", "reusedb", "decide", "issue"}

\* The step a command takes next, but for the secrets it has yet to write.
Ahead == IF pc = "put" THEN next ELSE pc

Phases ==
  /\ pc = "idle" <=> cmd = "none"
  /\ cmd = "addca" => pc \in AddSteps /\ Ahead \in AddSteps \ {"put"}
  /\ cmd = "rotate" => pc \in RotateSteps /\ Ahead \in RotateSteps \ {"put"}
  /\ cmd \in Preparing => pc \in PrepareSteps /\ Ahead \in PrepareSteps \ {"put"}

\* Where commands go on when the secrets are written.
Resumes ==
  pc = "put" => next \in {"dbchain", "provided", "reusedb", "decide", "stop", "restartdb"}

\* What is still to be generated, issued or added can be.
Possible ==
  /\ pc = "generate" => made < MaxCA
  /\ pc \in {"generate", "promote"} => "provided" \notin flags
  /\ pc = "append" /\ "provided" \notin flags => staged # {}
  /\ cmd \in Preparing /\ Ahead \in BeforeIssue => CanIssue
  /\ cmd = "rotate" /\ "provided" \notin flags
       /\ pc \in {"fingerprint", "check", "switch", "generate", "promote"}
       => issued < MaxIssue

-----------------------------------------------------------------------------
(* Types *)

LEMMA CAsTyped ==
  /\ 0 \in CA /\ Provided \in CA /\ \A c \in 1 .. MaxCA : c \in CA
  /\ \A c \in CA, h \in Host, n \in 0 .. MaxIssue : Issued(c, h, n) \in Pair
  /\ fqdn \in Host => \A o \in Owner : Given(o) \in Pair
  /\ \A c \in CA : <<c>> \in Seq(CA)
  /\ \A p \in Pair : p.ca \in CA
BY BoundAssumption DEF CA, Provided, Pair, Issued, Given

LEMMA NamesTyped == NoName \in Host
BY HostAssumption DEF NoName

LEMMA OptionTyped ==
  ASSUME NEW S
  PROVE  /\ {} \in Maybe(S)
         /\ \A x \in S : {x} \in Maybe(S)
         /\ \A m \in Maybe(S) : \A x \in m : x \in S /\ m = {x}
BY DEF Maybe

LEMMA InitTyped == Init => TypeOK
<1> SUFFICES ASSUME Init PROVE TypeOK
  OBVIOUS
<1> DEFINE first == Issued(0, name, 0)
<1> DEFINE secrets(cas) == [cert |-> {first}, key |-> {first}, ca |-> cas]
<1> DEFINE mounts(cas) == [cert |-> first, key |-> first, ca |-> cas, dbca |-> cas]
<1>1. first \in Pair /\ {first} \in Maybe(Pair) /\ name \in Host /\ {} \in Maybe(Pair)
  <2>1. name \in Host
    BY NamesTyped DEF Init
  <2>2. 0 \in 0 .. MaxIssue
    BY BoundAssumption
  <2>3. QED
    BY <2>1, <2>2, CAsTyped, OptionTyped
<1>2. /\ {} \in Maybe(CA) /\ {0} \in Maybe(CA) /\ {1} \in Maybe(CA)
      /\ <<>> \in Seq(CA) /\ <<0>> \in Seq(CA) /\ <<0, 1>> \in Seq(CA)
  <2>1. 1 \in CA /\ 0 \in CA
    BY CAsTyped, BoundAssumption, CommandAssumption
  <2>2. QED
    BY <2>1, OptionTyped
<1>3. \/ /\ sec = [o \in Owner |-> NoSecrets] /\ run = [o \in Owner |-> {}]
         /\ \/ build = {} /\ files = {}
            \/ build = {0} /\ files = {first}
         /\ staged = {} /\ made = 0 /\ hostca = <<>>
      \/ \E cas \in {<<0>>, <<0, 1>>} :
           /\ sec = [o \in Owner |-> secrets(cas)]
           /\ run = [o \in Owner |-> {mounts(cas)}]
           /\ build = {0} /\ files = {} /\ hostca = cas
           /\ made = Last(cas) /\ staged = IF made = 0 THEN {} ELSE {1}
  BY Zenon DEF Init
<1>4. SecretsOK /\ RunOK
  <2>1. NoSecrets \in Stored
    BY <1>1, <1>2 DEF NoSecrets, Stored
  <2>2. \A cas \in {<<0>>, <<0, 1>>} : secrets(cas) \in Stored /\ mounts(cas) \in Mounts
    BY <1>1, <1>2 DEF Stored, Mounts
  <2> HIDE DEF secrets, mounts
  <2>3. QED
    BY <1>3, <2>1, <2>2 DEF SecretsOK, RunOK
<1>5. DiskOK /\ hostca \in Seq(CA) /\ files \in Maybe(Pair)
  <2>1. issued \in 0 .. MaxIssue
    BY BoundAssumption DEF Init
  <2>2. 0 \in 0 .. MaxCA /\ 1 \in 0 .. MaxCA
    BY BoundAssumption, CommandAssumption
  <2>3. CASE /\ build = {} \/ build = {0}
             /\ files = {} \/ files = {first}
             /\ staged = {} /\ made = 0 /\ hostca = <<>>
    BY <2>1, <2>2, <2>3, <1>1, <1>2, Zenon DEF DiskOK
  <2>4. CASE \E cas \in {<<0>>, <<0, 1>>} :
               /\ build = {0} /\ files = {} /\ hostca = cas
               /\ made = Last(cas) /\ staged = IF made = 0 THEN {} ELSE {1}
    <3>1. PICK cas \in {<<0>>, <<0, 1>>} :
            /\ build = {0} /\ files = {} /\ hostca = cas
            /\ made = Last(cas) /\ staged = IF made = 0 THEN {} ELSE {1}
      BY <2>4
    <3>2. Last(<<0>>) = 0 /\ Last(<<0, 1>>) = 1
      BY DEF Last
    <3>3. made \in 0 .. MaxCA /\ (staged = {} \/ staged = {1})
      BY <3>1, <3>2, <2>2
    <3>4. QED
      BY <3>1, <3>3, <2>1, <1>1, <1>2, Zenon DEF DiskOK
  <2>5. QED
    BY <1>3, <2>3, <2>4, Zenon
<1>6. trusts \in [Client -> SUBSET CA]
  <2>1. trusts = [c \in Client |-> build] /\ build \in SUBSET CA
    BY <1>5 DEF Init, DiskOK, Maybe
  <2>2. QED
    BY <2>1
<1>7. CallOK
  <2>1. /\ cmd = "none" /\ pc = "idle" /\ flags = {} /\ fqdn = NoName /\ begun = 0
        /\ outcome = "none"
    BY Zenon DEF Init
  <2>2. QED
    BY <2>1, NamesTyped, BoundAssumption DEF CallOK, Command, Step
<1>8. WritingOK
  <2>1. pair = {} /\ bundle = NoBundle /\ todo = <<>> /\ next = "idle"
    BY Zenon DEF Init
  <2>2. QED
    BY <2>1, <1>1 DEF WritingOK, NoBundle, Step
<1>9. RestOK
  <2>1. err \in BOOLEAN /\ botched \in BOOLEAN
    BY Zenon DEF Init
  <2>2. ready = {} /\ links = NoLinks /\ at = "none" /\ checked = {} /\ answered = {}
    BY Zenon DEF Init
  <2>3. QED
    BY <2>1, <2>2, <1>2 DEF RestOK, NoLinks
<1>10. QED
  BY <1>1, <1>4, <1>5, <1>6, <1>7, <1>8, <1>9, TypeParts DEF WorldOK, PlaceOK

-----------------------------------------------------------------------------
(* How a command goes on *)

\* A command that ends leaves nothing of its own behind.
LEMMA EndTyped ==
  ASSUME TypeOK, Abort \/ Succeed
  PROVE  CallOK' /\ WritingOK' /\ RestOK' /\ WorldOK' /\ Phases' /\ Possible'
<1>0. CallOK /\ RestOK /\ WorldOK
  BY TypeParts
<1>1. \E r \in {"ok", "failed"}, s \in BOOLEAN : Finish(r, s)
  <2>1. CASE Abort
    BY <2>1 DEF Abort
  <2>2. CASE Succeed
    <3>1. (IF cmd = "rotate" /\ ~Set("checkonly") THEN FALSE
            ELSE botched \/ (cmd = "addca" /\ Set("provided"))) \in BOOLEAN
      BY <1>0 DEF RestOK
    <3>2. QED
      BY <2>2, <3>1, Zenon DEF Succeed
  <2>3. QED
    BY <2>1, <2>2
<1>2. PICK r \in {"ok", "failed"}, s \in BOOLEAN : Finish(r, s)
  BY <1>1
<1>3. /\ cmd' = "none" /\ pc' = "idle" /\ flags' = {} /\ fqdn' = NoName
      /\ pair' = {} /\ bundle' = NoBundle /\ todo' = <<>> /\ next' = "idle"
      /\ ready' = {} /\ links' = NoLinks /\ at' = "none"
      /\ checked' = {} /\ answered' = {} /\ outcome' = r
      /\ files' = files /\ trusts' = trusts /\ begun' = begun
  BY <1>2, Zenon DEF Finish, world
<1>4. err' \in BOOLEAN /\ botched' \in BOOLEAN
  BY <1>2, Zenon DEF Finish
<1>5. CallOK' /\ Phases' /\ Possible'
  BY <1>0, <1>3, NamesTyped DEF CallOK, Phases, Possible, Command, Step, Preparing
<1>6. WritingOK' /\ WorldOK'
  BY <1>0, <1>3 DEF WritingOK, WorldOK, NoBundle, Step, Maybe
<1>7. RestOK'
  BY <1>3, <1>4 DEF RestOK, NoLinks, Maybe
<1>8. QED
  BY <1>5, <1>6, <1>7

\* What a step may change.
LEMMA Changes ==
  ASSUME Next
  PROVE  /\ sec' = sec \/ Put \/ Interrupt
         /\ run' = run \/ BeginSetup \/ StopServer \/ RestartDB \/ RestartServer \/ Reboot
         /\ UNCHANGED disk \/ Generate \/ Issue \/ Promote
         /\ files' = files
         /\ trusts' = trusts \/ \E c \in Client : Distribute(c)
         /\ name' = name \/ AlterName
         /\ hostca' = hostca \/ UpdateTrust
<1> USE DEF world, Stay, Goto, Begin, Abort, Succeed, Finish
<1>1. CASE ThirdParty
  BY <1>1, Zenon DEF ThirdParty, ReadChain, SortNext, SortMissing, SortDone, ProvidedDone,
                     Invalid, PutAll
<1>2. CASE Prepare
  BY <1>2, Zenon DEF Prepare, BeginSetup, BeginRename, Reuse, Decide, Issue, StopServer,
                     AlterName, PutAll
<1>3. CASE BeginAdd \/ Generate \/ AppendCA \/ BeginRotate \/ Fingerprint
  BY <1>3, Zenon DEF BeginAdd, Generate, AppendCA, BeginRotate, Fingerprint, PutAll
<1>4. CASE CheckClients \/ Switch \/ Promote \/ Put
  BY <1>4, Zenon DEF CheckClients, Switch, Promote, Put, PutAll
<1>5. CASE RestartDB \/ RestartServer \/ UpdateTrust
  BY <1>5, Zenon DEF RestartDB, RestartServer, UpdateTrust
<1>6. CASE Interrupt \/ Reboot \/ \E c \in Client : Distribute(c)
  BY <1>6, Zenon DEF Interrupt, Reboot, Distribute
<1>7. QED
  BY <1>1, <1>2, <1>3, <1>4, <1>5, <1>6, Zenon DEF Next, Work, Rotate


\* A step of a command goes on to another one of the same command, or ends it.
LEMMA GotoPhases ==
  ASSUME TypeOK, NEW step, Goto(step), step \in Step,
         cmd = "addca" => step \in AddSteps /\ Ahead' \in AddSteps \ {"put"},
         cmd = "rotate" => step \in RotateSteps /\ Ahead' \in RotateSteps \ {"put"},
         cmd \in Preparing => step \in PrepareSteps /\ Ahead' \in PrepareSteps \ {"put"},
         cmd # "none", step # "idle"
  PROVE  CallOK' /\ Phases'
<1>1. /\ pc' = step /\ cmd' = cmd /\ flags' = flags /\ fqdn' = fqdn /\ begun' = begun
      /\ outcome' = outcome
  BY Zenon DEF Goto, args
<1>2. CallOK
  BY TypeParts
<1>3. CallOK'
  BY <1>1, <1>2 DEF CallOK
<1>4. Phases'
  BY <1>1, Zenon DEF Phases
<1>5. QED
  BY <1>3, <1>4

\* The steps of the certificates of a third party.
LEMMA ThirdPartyPhases ==
  ASSUME TypeOK, Phases, ThirdParty
  PROVE  CallOK' /\ Phases'
<1>0. CallOK
  BY TypeParts
<1>1. /\ pc \in {"chain", "dbchain", "walk", "dbwalk", "provided"}
      /\ cmd \in {"rotate", "setup", "rename"}
  <2>1. pc \in {"chain", "dbchain", "walk", "dbwalk", "provided"}
    BY Zenon DEF ThirdParty, ReadChain, SortNext, SortMissing, SortDone, ProvidedDone
  <2>2. QED
    BY <1>0, <2>1 DEF Phases, AddSteps, CallOK, Command
<1>2. \/ Abort
      \/ Goto("dbchain") \/ Goto("walk") \/ Goto("dbwalk")
      \/ cmd = "rotate" /\ Goto("restartdb")
      \/ cmd # "rotate" /\ Goto("reuse")
      \/ Goto("put") /\ next' \in {"dbchain", "provided"}
  <2>1. Invalid => Goto("dbchain") \/ Abort
    BY Zenon DEF Invalid
  <2>2. CASE ReadChain
    BY <2>1, <2>2, Zenon DEF ReadChain, WalkOf
  <2>3. CASE SortNext
    BY <2>3, Zenon DEF SortNext
  <2>4. CASE SortMissing
    BY <2>1, <2>4, Zenon DEF SortMissing
  <2>5. CASE SortDone
    <3>1. CASE Invalid
      BY <2>1, <3>1
    <3>2. CASE ~Invalid
      <4>1. PutAll(TLSSecrets(OwnerOf(pc)), IF pc = "walk" THEN "dbchain" ELSE "provided")
        BY <2>5, <3>2, Zenon DEF SortDone
      <4>2. Goto("put") /\ next' = IF pc = "walk" THEN "dbchain" ELSE "provided"
        BY <4>1, Zenon DEF PutAll
      <4>3. QED
        BY <4>2
    <3>3. QED
      BY <3>1, <3>2
  <2>6. CASE ProvidedDone
    BY <2>6 DEF ProvidedDone
  <2>7. QED
    BY <2>2, <2>3, <2>4, <2>5, <2>6, Zenon DEF ThirdParty
<1>3. ASSUME NEW step \in {"dbchain", "walk", "dbwalk", "restartdb", "reuse", "put"},
             Goto(step), step = "restartdb" => cmd = "rotate",
             step = "reuse" => cmd # "rotate",
             step = "put" => next' \in {"dbchain", "provided"}
      PROVE  CallOK' /\ Phases'
  <2>1. pc' = step
    BY <1>3, Zenon DEF Goto
  <2>2. Ahead' \in {"dbchain", "walk", "dbwalk", "provided"}
          \cup {s \in {"restartdb"} : cmd = "rotate"} \cup {s \in {"reuse"} : cmd # "rotate"}
    BY <1>3, <2>1 DEF Ahead
  <2>3. step \in Step /\ step # "idle"
    BY DEF Step
  <2>4. /\ cmd = "addca" => step \in AddSteps /\ Ahead' \in AddSteps \ {"put"}
        /\ cmd = "rotate" => step \in RotateSteps /\ Ahead' \in RotateSteps \ {"put"}
        /\ cmd \in Preparing => step \in PrepareSteps /\ Ahead' \in PrepareSteps \ {"put"}
    BY <1>1, <1>3, <2>2 DEF AddSteps, RotateSteps, PrepareSteps, Preparing
  <2>5. QED
    BY <1>1, <1>3, <2>3, <2>4, GotoPhases
<1>4. QED
  BY <1>2, <1>3, EndTyped


\* A command begins with a step of its own.
LEMMA BeginPhases ==
  ASSUME TypeOK, NEW c \in Command, NEW f \in SUBSET Flag, NEW h \in Host, NEW step \in Step,
         c = "addca" => step \in AddSteps \ {"put"},
         c = "rotate" => step \in RotateSteps \ {"put"},
         c \in Preparing => step \in PrepareSteps \ {"put"},
         c # "none", begun < MaxCommands,
         cmd' = c, flags' = f, fqdn' = h, pc' = step, outcome' = "none", begun' = begun + 1
  PROVE  CallOK' /\ Phases'
<1>1. CallOK
  BY TypeParts
<1>2. begun + 1 \in 0 .. MaxCommands
  BY <1>1, BoundAssumption DEF CallOK
<1>3. CallOK'
  BY <1>2 DEF CallOK
<1>4. step # "idle"
  BY DEF AddSteps, RotateSteps, PrepareSteps, Preparing, Command
<1>5. step # "put"
  BY DEF Preparing, Command
<1>6. QED
  BY <1>3, <1>4, <1>5 DEF Phases, Ahead

LEMMA BeginningPhases ==
  ASSUME TypeOK, BeginSetup \/ BeginRename \/ BeginAdd \/ BeginRotate
  PROVE  CallOK' /\ Phases'
<1>0. CallOK /\ PlaceOK
  BY TypeParts
<1>1. ASSUME NEW f \in PrepareFlags
      PROVE  f \in SUBSET Flag /\ FirstStep(f) \in (PrepareSteps \cap Step) \ {"put"}
  BY <1>1 DEF PrepareFlags, Flag, FirstStep, PrepareSteps, Step
<1>2. CASE BeginSetup
  <2>1. PICK f \in PrepareFlags : cmd' = "setup" /\ flags' = f /\ pc' = FirstStep(f)
    BY <1>2, Zenon DEF BeginSetup
  <2>2. /\ fqdn' = name /\ outcome' = "none" /\ begun' = begun + 1 /\ begun < MaxCommands
    BY <1>2, Zenon DEF BeginSetup
  <2>3. "setup" \in Command /\ name \in Host
    BY <1>0 DEF Command, PlaceOK
  <2>4. QED
    BY <1>1, <2>1, <2>2, <2>3, BeginPhases DEF Preparing
<1>3. CASE BeginRename
  <2>1. PICK f \in PrepareFlags, h \in Host : Begin("rename", f, h, FirstStep(f))
    BY <1>3, Zenon DEF BeginRename
  <2>2. /\ cmd' = "rename" /\ flags' = f /\ pc' = FirstStep(f) /\ fqdn' = h
        /\ outcome' = "none" /\ begun' = begun + 1 /\ begun < MaxCommands
    BY <2>1, Zenon DEF Begin
  <2>3. "rename" \in Command
    BY DEF Command
  <2>4. QED
    BY <1>1, <2>2, <2>3, BeginPhases DEF Preparing
<1>4. CASE BeginAdd
  <2>1. PICK f \in {{}, {"provided"}}, step \in {"generate", "append"} :
          Begin("addca", f, name, step)
    BY <1>4 DEF BeginAdd
  <2>2. /\ cmd' = "addca" /\ flags' = f /\ pc' = step /\ fqdn' = name
        /\ outcome' = "none" /\ begun' = begun + 1 /\ begun < MaxCommands
    BY <2>1, Zenon DEF Begin
  <2>3. /\ "addca" \in Command /\ name \in Host /\ step \in (AddSteps \cap Step) \ {"put"}
        /\ f \in SUBSET Flag
    BY <1>0 DEF Command, PlaceOK, AddSteps, Step, Flag
  <2>4. QED
    BY <2>2, <2>3, BeginPhases DEF Preparing
<1>5. CASE BeginRotate
  <2>1. PICK f \in RotateFlags, step \in {"chain", "generate", "fingerprint"} :
          Begin("rotate", f, name, step)
    BY <1>5, Zenon DEF BeginRotate
  <2>2. /\ cmd' = "rotate" /\ flags' = f /\ pc' = step /\ fqdn' = name
        /\ outcome' = "none" /\ begun' = begun + 1 /\ begun < MaxCommands
    BY <2>1, Zenon DEF Begin
  <2>3. /\ "rotate" \in Command /\ name \in Host /\ step \in (RotateSteps \cap Step) \ {"put"}
        /\ f \in SUBSET Flag
    BY <1>0 DEF Command, PlaceOK, RotateSteps, RotateFlags, Step, Flag
  <2>4. QED
    BY <2>2, <2>3, BeginPhases DEF Preparing
<1>6. QED
  BY <1>2, <1>3, <1>4, <1>5

\* The steps at which each command can be are those its next steps allow.
LEMMA WorkPhases ==
  ASSUME TypeOK, Phases,
         \/ Reuse \/ Decide \/ Issue \/ StopServer \/ AlterName
         \/ Generate \/ AppendCA \/ Fingerprint \/ CheckClients \/ Switch \/ Promote
         \/ Put \/ RestartDB \/ RestartServer \/ UpdateTrust
  PROVE  CallOK' /\ Phases'
<1>0. CallOK
  BY TypeParts
<1> DEFINE to(step) == Goto(step) /\ step # "put" /\ step \in Step
<1> DEFINE writes(then) == Goto("put") /\ next' = then
<1>1. \/ Abort \/ Succeed
      \/ pc \in {"reuse", "reusedb"} /\ (to(AfterReuse) \/ writes(AfterReuse))
      \/ pc = "decide" /\ cmd = "rename" /\ to("stop")
      \/ pc = "decide" /\ cmd # "rename" /\ to("restartdb")
      \/ pc = "decide" /\ to("issue")
      \/ pc = "issue" /\ cmd = "rename" /\ writes("stop")
      \/ pc = "issue" /\ cmd # "rename" /\ writes("restartdb")
      \/ pc = "stop" /\ to("alter")
      \/ pc = "alter" /\ to("restart")
      \/ pc = "generate" /\ cmd = "addca" /\ to("append")
      \/ pc = "generate" /\ cmd # "addca" /\ to("promote")
      \/ pc = "append" /\ (to("restartdb") \/ writes("restartdb"))
      \/ pc = "fingerprint" /\ to("check")
      \/ pc = "check" /\ to("switch")
      \/ pc = "switch" /\ (to("chain") \/ to("promote"))
      \/ pc = "promote" /\ writes("restartdb")
      \/ pc = "put" /\ Goto(next)
      \/ pc = "put" /\ Goto("put") /\ next' = next
      \/ pc = "restartdb" /\ to("restart")
      \/ pc = "restart" /\ to("trust")
  <2>0. /\ \A step \in Step \ {"put"} : Goto(step) => to(step)
        /\ {"stop", "restartdb", "issue", "alter", "restart", "append", "promote", "check",
            "switch", "chain", "trust"} \subseteq Step \ {"put"}
        /\ AfterReuse \in Step \ {"put"}
    BY DEF Step, AfterReuse
  <2>1. ASSUME NEW secrets, NEW then, PutAll(secrets, then) PROVE writes(then)
    BY <2>1, Zenon DEF PutAll
  <2> HIDE DEF to, writes
  <2>2. CASE Reuse
    BY <2>0, <2>1, <2>2, Zenon DEF Reuse
  <2>3. CASE Decide
    BY <2>0, <2>3 DEF Decide
  <2>4. CASE Issue
    BY <2>1, <2>4 DEF Issue
  <2>5. CASE StopServer \/ AlterName
    BY <2>0, <2>5, Zenon DEF StopServer, AlterName
  <2>6. CASE Generate
    BY <2>0, <2>6 DEF Generate, AfterGenerate
  <2>7. CASE AppendCA
    BY <2>0, <2>1, <2>7, Zenon DEF AppendCA
  <2>8. CASE Fingerprint \/ CheckClients
    BY <2>0, <2>8, Zenon DEF Fingerprint, CheckClients
  <2>9. CASE Switch \/ Promote
    BY <2>0, <2>1, <2>9 DEF Switch, Promote
  <2>10. CASE Put
    BY <2>10 DEF Put
  <2>11. CASE RestartDB \/ RestartServer \/ UpdateTrust
    BY <2>0, <2>11 DEF RestartDB, RestartServer, UpdateTrust
  <2>12. QED
    BY <2>2, <2>3, <2>4, <2>5, <2>6, <2>7, <2>8, <2>9, <2>10, <2>11
<1>2. ASSUME NEW step, Goto(step), cmd # "none", step # "idle", step \in Step,
             cmd = "addca" => step \in AddSteps /\ Ahead' \in AddSteps \ {"put"},
             cmd = "rotate" => step \in RotateSteps /\ Ahead' \in RotateSteps \ {"put"},
             cmd \in Preparing => step \in PrepareSteps /\ Ahead' \in PrepareSteps \ {"put"}
      PROVE  CallOK' /\ Phases'
  BY <1>2, GotoPhases
<1>3. cmd \in {"none", "addca", "rotate", "setup", "rename"}
  BY <1>0 DEF CallOK, Command
<1>4. ASSUME NEW step, NEW then, Goto(step), step \in Step,
             (step # "put" /\ then = step) \/ (step = "put" /\ next' = then),
             cmd # "none", then # "put", then # "idle",
             cmd = "addca" => then \in AddSteps,
             cmd = "rotate" => then \in RotateSteps,
             cmd \in Preparing => then \in PrepareSteps
      PROVE  CallOK' /\ Phases'
  <2>1. pc' = step
    BY <1>4, Zenon DEF Goto
  <2>2. Ahead' = then
    BY <1>4, <2>1 DEF Ahead
  <2>3. step # "idle"
    BY <1>4
  <2>4. "put" \in AddSteps /\ "put" \in RotateSteps /\ "put" \in PrepareSteps
    BY DEF AddSteps, RotateSteps, PrepareSteps
  <2>5. QED
    BY <1>2, <1>4, <2>2, <2>3, <2>4
<1>5. ASSUME NEW then \in Step, to(then) \/ writes(then), pc # "idle", then # "put", then # "idle",
             cmd = "addca" => then \in AddSteps,
             cmd = "rotate" => then \in RotateSteps,
             cmd \in Preparing => then \in PrepareSteps
      PROVE  CallOK' /\ Phases'
  <2>1. cmd # "none"
    BY <1>5 DEF Phases
  <2>2. "put" \in Step
    BY DEF Step
  <2>3. CASE to(then)
    <3>1. Goto(then) /\ then # "put" /\ then \in Step
      BY <2>3
    <3> HIDE DEF to, writes
    <3>2. QED
      BY <1>4, <1>5, <2>1, <3>1
  <2>4. CASE writes(then)
    <3>1. Goto("put") /\ next' = then
      BY <2>4
    <3> HIDE DEF to, writes
    <3>2. QED
      BY <1>4, <1>5, <2>1, <2>2, <3>1
  <2>5. QED
    BY <1>5, <2>3, <2>4
<1> HIDE DEF to, writes
<1>6. CASE pc \in {"reuse", "reusedb"} /\ (to(AfterReuse) \/ writes(AfterReuse))
  <2>1. cmd \in Preparing
    BY <1>3, <1>6 DEF Phases, AddSteps, RotateSteps, Preparing
  <2>2. AfterReuse \in PrepareSteps /\ AfterReuse \in Step \ {"put", "idle"}
    BY DEF AfterReuse, PrepareSteps, Step
  <2>3. QED
    BY <1>5, <1>6, <2>1, <2>2 DEF Preparing
<1>7. CASE pc \in {"decide", "issue"} /\ \E then \in {"stop", "restartdb", "issue"} :
                                            to(then) \/ writes(then)
  <2>1. cmd \in Preparing
    BY <1>3, <1>7 DEF Phases, AddSteps, RotateSteps, Preparing
  <2>2. \A then \in {"stop", "restartdb", "issue"} :
           then \in PrepareSteps /\ then \in Step \ {"put", "idle"}
    BY DEF PrepareSteps, Step
  <2>3. QED
    BY <1>5, <1>7, <2>1, <2>2 DEF Preparing
<1>8. CASE \/ pc = "stop" /\ to("alter")
           \/ pc = "alter" /\ to("restart")
  <2>1. cmd \in Preparing
    BY <1>3, <1>8 DEF Phases, AddSteps, RotateSteps, Preparing
  <2>2. {"alter", "restart"} \subseteq PrepareSteps \cap (Step \ {"put", "idle"})
    BY DEF PrepareSteps, Step
  <2>3. QED
    BY <1>5, <1>8, <2>1, <2>2 DEF Preparing
<1>9. CASE \/ pc = "generate" /\ cmd = "addca" /\ to("append")
           \/ pc = "append" /\ (to("restartdb") \/ writes("restartdb"))
  <2>1. cmd = "addca"
    BY <1>3, <1>9 DEF Phases, PrepareSteps, RotateSteps, Preparing
  <2>2. {"append", "restartdb"} \subseteq AddSteps \cap (Step \ {"put", "idle"})
    BY DEF AddSteps, Step
  <2>3. QED
    BY <1>5, <1>9, <2>1, <2>2 DEF Preparing
<1>10. CASE \/ pc = "generate" /\ cmd # "addca" /\ to("promote")
            \/ pc = "fingerprint" /\ to("check")
            \/ pc = "check" /\ to("switch")
            \/ pc = "switch" /\ (to("chain") \/ to("promote"))
            \/ pc = "promote" /\ writes("restartdb")
  <2>1. cmd = "rotate"
    BY <1>3, <1>10 DEF Phases, PrepareSteps, AddSteps, Preparing
  <2>2. {"promote", "check", "switch", "chain", "restartdb"}
          \subseteq RotateSteps \cap (Step \ {"put", "idle"})
    BY DEF RotateSteps, Step
  <2>3. QED
    BY <1>5, <1>10, <2>1, <2>2 DEF Preparing
<1>11. CASE \/ pc = "put" /\ Goto(next)
            \/ pc = "put" /\ Goto("put") /\ next' = next
  <2>1. Ahead = next
    BY <1>11 DEF Ahead
  <2>2. next \in Step /\ "put" \in Step
    BY TypeParts DEF WritingOK, Step
  <2>3. /\ cmd # "none"
        /\ next # "put" /\ next # "idle"
        /\ cmd = "addca" => next \in AddSteps
        /\ cmd = "rotate" => next \in RotateSteps
        /\ cmd \in Preparing => next \in PrepareSteps
    BY <1>3, <1>11, <2>1 DEF Phases, AddSteps, RotateSteps, PrepareSteps, Preparing
  <2>4. CASE Goto(next)
    BY <1>4, <2>2, <2>3, <2>4
  <2>5. CASE Goto("put") /\ next' = next
    BY <1>4, <2>2, <2>3, <2>5
  <2>6. QED
    BY <1>11, <2>4, <2>5
<1>12. CASE \/ pc = "restartdb" /\ to("restart")
            \/ pc = "restart" /\ to("trust")
  <2>1. {"restart", "trust"} \subseteq
          AddSteps \cap RotateSteps \cap PrepareSteps \cap (Step \ {"put", "idle"})
    BY DEF AddSteps, RotateSteps, PrepareSteps, Step
  <2>2. QED
    BY <1>5, <1>12, <2>1
<1>13. CASE Abort \/ Succeed
  BY <1>13, EndTyped
<1>14. QED
  BY <1>1, <1>6, <1>7, <1>8, <1>9, <1>10, <1>11, <1>12, <1>13

LEMMA PhasesStep == TypeOK /\ Phases /\ [Next]_vars => CallOK' /\ Phases'
<1> SUFFICES ASSUME TypeOK, Phases, [Next]_vars PROVE CallOK' /\ Phases'
  OBVIOUS
<1>1. CASE UNCHANGED <<args, pc, outcome>> /\ (next' = next)
  <2>1. /\ pc' = pc /\ cmd' = cmd /\ flags' = flags /\ fqdn' = fqdn /\ begun' = begun
        /\ outcome' = outcome /\ next' = next
    BY <1>1, Zenon DEF args
  <2>2. CallOK
    BY TypeParts
  <2>3. QED
    BY <2>1, <2>2 DEF CallOK, Phases, Ahead
<1>2. CASE Reboot \/ (\E c \in Client : Distribute(c)) \/ UNCHANGED vars
  BY <1>1, <1>2, Zenon DEF Reboot, Distribute, Kept, vars, writing
<1>3. CASE Interrupt
  BY <1>3, EndTyped, Zenon DEF Interrupt
<1>4. CASE Work
  BY <1>4, ThirdPartyPhases, BeginningPhases, WorkPhases, Zenon DEF Work, Prepare, Rotate
<1>5. QED
  BY <1>2, <1>3, <1>4, Zenon DEF Next


-----------------------------------------------------------------------------
(* What the steps do to the secrets, the containers and the CAs *)

\* Replacing or losing a secret.
LEMMA SecretTyped ==
  ASSUME SecretsOK, WritingOK, NEW o \in Owner, NEW f \in Part
  PROVE  /\ [sec EXCEPT ![o][f] = New(o, f)] \in [Owner -> Stored]
         /\ [sec EXCEPT ![o][f] = Gone(f)] \in [Owner -> Stored]
<1>1. /\ sec[o] \in Stored /\ pair \in Maybe(Pair) /\ bundle[o] \in Seq(CA)
      /\ {} \in Maybe(Pair) /\ <<>> \in Seq(CA)
  BY OptionTyped DEF SecretsOK, WritingOK
<1>2. ASSUME NEW x, f = "ca" => x \in Seq(CA), f # "ca" => x \in Maybe(Pair)
      PROVE  [sec[o] EXCEPT ![f] = x] \in Stored
  <2>1. CASE f = "cert"
    BY <1>1, <1>2, <2>1 DEF Stored
  <2>2. CASE f = "key"
    BY <1>1, <1>2, <2>2 DEF Stored
  <2>3. CASE f = "ca"
    BY <1>1, <1>2, <2>3 DEF Stored
  <2>4. QED
    BY <2>1, <2>2, <2>3 DEF Part
<1>3. /\ [sec[o] EXCEPT ![f] = New(o, f)] \in Stored
      /\ [sec[o] EXCEPT ![f] = Gone(f)] \in Stored
  BY <1>1, <1>2 DEF New, Gone
<1>4. QED
  BY <1>3 DEF SecretsOK

\* The secret a command replaces next.
LEMMA HeadTyped ==
  ASSUME WritingOK, todo # <<>>
  PROVE  /\ Head(todo)[1] \in Owner /\ Head(todo)[2] \in Part
         /\ Head(todo) = <<Head(todo)[1], Head(todo)[2]>>
         /\ Tail(todo) \in Seq(Owner \X Part)
BY DEF WritingOK

\* A step writes at most the secret that is next.
LEMMA Writes ==
  ASSUME TypeOK, [Next]_vars, sec' # sec
  PROVE  /\ pc = "put" /\ todo # <<>> /\ (Put \/ Interrupt)
         /\ \E o \in Owner, f \in Part :
              /\ Head(todo) = <<o, f>>
              /\ \/ Put /\ sec' = [sec EXCEPT ![o][f] = New(o, f)]
                 \/ sec' = [sec EXCEPT ![o][f] = Gone(f)]
<1>0. SecretsOK /\ WritingOK
  BY TypeParts
<1>1. Put \/ Interrupt
  BY Changes, Zenon DEF vars
<1>2. pc = "put" /\ todo # <<>>
  BY <1>1, Zenon DEF Put, Interrupt
<1>3. PICK o \in Owner, f \in Part : o = Head(todo)[1] /\ f = Head(todo)[2] /\ Head(todo) = <<o, f>>
  BY <1>0, <1>2, HeadTyped
<1>4. CASE Put
  <2>1. \/ sec' = [sec EXCEPT ![o][f] = New(o, f)]
        \/ sec' \in {sec, [sec EXCEPT ![o][f] = Gone(f)]}
    BY <1>3, <1>4, Zenon DEF Put
  <2>2. QED
    BY <1>2, <1>3, <1>4, <2>1
<1>5. CASE Interrupt
  <2>1. sec' = [sec EXCEPT ![o][f] = Gone(f)]
    BY <1>3, <1>5, Zenon DEF Interrupt
  <2>2. QED
    BY <1>2, <1>3, <1>5, <2>1
<1>6. QED
  BY <1>1, <1>4, <1>5

LEMMA SecretsStep == TypeOK /\ [Next]_vars => SecretsOK'
<1> SUFFICES ASSUME TypeOK, [Next]_vars PROVE SecretsOK'
  OBVIOUS
<1>0. SecretsOK /\ WritingOK
  BY TypeParts
<1>1. CASE sec' = sec
  BY <1>0, <1>1 DEF SecretsOK
<1>2. CASE sec' # sec
  <2>1. PICK o \in Owner, f \in Part :
           sec' = [sec EXCEPT ![o][f] = New(o, f)] \/ sec' = [sec EXCEPT ![o][f] = Gone(f)]
    BY <1>2, Writes, Zenon
  <2>2. /\ [sec EXCEPT ![o][f] = New(o, f)] \in [Owner -> Stored]
        /\ [sec EXCEPT ![o][f] = Gone(f)] \in [Owner -> Stored]
    BY <1>0, SecretTyped
  <2>3. sec' \in [Owner -> Stored]
    BY <2>2, <2>1
  <2>4. QED
    BY <2>3 DEF SecretsOK
<1>3. QED
  BY <1>1, <1>2

\* A container holds what its secrets held when it started.
LEMMA StartedTyped ==
  ASSUME SecretsOK, NEW o \in Owner
  PROVE  \A m \in Started(o) : m \in Mounts
<1>1. sec[o] \in Stored /\ sec["db"] \in Stored
  BY DEF SecretsOK, Owner
<1>2. /\ sec[o].ca \in Seq(CA) /\ sec["db"].ca \in Seq(CA)
      /\ \A c \in sec[o].cert : c \in Pair
      /\ \A k \in sec[o].key : k \in Pair
  BY <1>1, OptionTyped DEF Stored
<1>3. \A m \in Mounted(o, sec["db"].ca) : m \in Mounts
  BY <1>2 DEF Mounted, Mounts
<1>4. QED
  BY <1>3 DEF Started

LEMMA RunStep == TypeOK /\ [Next]_vars => RunOK'
<1> SUFFICES ASSUME TypeOK, [Next]_vars PROVE RunOK'
  OBVIOUS
<1>0. SecretsOK /\ RunOK
  BY TypeParts
<1>1. CASE run' = run
  BY <1>0, <1>1 DEF RunOK
<1>2. ASSUME NEW o \in Owner, run' = [run EXCEPT ![o] = {}] \/ run' = [run EXCEPT ![o] = Started(o)]
      PROVE  RunOK'
  BY <1>0, <1>2, StartedTyped DEF RunOK
<1>3. "server" \in Owner /\ "db" \in Owner
  BY DEF Owner
<1>4. CASE BeginSetup
  <2>1. run' = [o \in Owner |-> {}]
    BY <1>4, Zenon DEF BeginSetup
  <2>2. QED
    BY <2>1 DEF RunOK
<1>5. CASE StopServer
  BY <1>2, <1>3, <1>5, Zenon DEF StopServer
<1>6. CASE RestartDB
  <2>1. run' = [run EXCEPT !["db"] = Started("db")] \/ run' \in {run, [run EXCEPT !["db"] = {}]}
    BY <1>6, Zenon DEF RestartDB
  <2>2. QED
    BY <1>1, <1>2, <1>3, <2>1
<1>7. CASE RestartServer
  <2>1. \/ run' = [run EXCEPT !["server"] = Started("server")]
        \/ run' \in {run, [run EXCEPT !["server"] = {}]}
    BY <1>7, Zenon DEF RestartServer
  <2>2. QED
    BY <1>1, <1>2, <1>3, <2>1
<1>8. CASE Reboot
  <2>1. run' = [o \in Owner |-> Started(o)]
    BY <1>8, Zenon DEF Reboot
  <2>2. QED
    BY <1>0, <2>1, StartedTyped DEF RunOK
<1>9. QED
  BY <1>1, <1>4, <1>5, <1>6, <1>7, <1>8, Changes, Zenon DEF vars

\* What is generated and issued is within bounds.
LEMMA SetupTyped ==
  ASSUME DiskOK, CanIssue
  PROVE  /\ SetupCA \in CA /\ {SetupCA} \in Maybe(CA)
         /\ issued + 1 \in 0 .. MaxIssue
         /\ build = {} => made + 1 \in 0 .. MaxCA
<1>1. issued + 1 \in 0 .. MaxIssue
  BY BoundAssumption DEF DiskOK, CanIssue
<1>2. ASSUME build = {} PROVE made + 1 \in 0 .. MaxCA /\ made + 1 \in 1 .. MaxCA
  BY <1>2, BoundAssumption DEF DiskOK, CanIssue
<1>3. SetupCA \in CA
  <2>1. CASE build = {}
    BY <1>2, <2>1, CAsTyped DEF SetupCA
  <2>2. CASE build # {}
    BY <2>2, OptionTyped DEF SetupCA, DiskOK
  <2>3. QED
    BY <2>1, <2>2
<1>4. QED
  BY <1>1, <1>2, <1>3, OptionTyped

LEMMA DiskStep == TypeOK /\ Phases /\ Possible /\ [Next]_vars => DiskOK'
<1> SUFFICES ASSUME TypeOK, Phases, Possible, [Next]_vars PROVE DiskOK'
  OBVIOUS
<1>0. DiskOK /\ CallOK
  BY TypeParts
<1>1. CASE UNCHANGED disk
  <2>1. build' = build /\ staged' = staged /\ made' = made /\ issued' = issued
    BY <1>1, Zenon DEF disk
  <2>2. QED
    BY <1>0, <2>1 DEF DiskOK
<1>2. CASE Generate
  <2>1. made < MaxCA
    BY <1>2, Zenon DEF Generate, Possible
  <2>2. made + 1 \in 0 .. MaxCA /\ {made + 1} \in Maybe(CA)
    <3>1. made + 1 \in 0 .. MaxCA /\ made + 1 \in 1 .. MaxCA
      BY <1>0, <2>1, BoundAssumption DEF DiskOK
    <3>2. QED
      BY <3>1, CAsTyped, OptionTyped
  <2>3. /\ made' = made + 1 /\ build' = build /\ issued' = issued
        /\ staged' \in {staged, {}, {made + 1}}
    BY <1>2 DEF Generate
  <2>4. QED
    BY <1>0, <2>2, <2>3 DEF DiskOK, Maybe
<1>3. CASE Issue
  <2>1. CanIssue
    <3>1. pc = "issue"
      BY <1>3, Zenon DEF Issue
    <3>2. cmd \in Preparing /\ Ahead \in BeforeIssue
      BY <1>0, <3>1 DEF Phases, CallOK, Command, Preparing, AddSteps, RotateSteps, Ahead,
                        BeforeIssue
    <3>3. QED
      BY <3>2, Zenon DEF Possible
  <2>2. /\ SetupCA \in CA /\ {SetupCA} \in Maybe(CA)
        /\ issued + 1 \in 0 .. MaxIssue
        /\ build = {} => made + 1 \in 0 .. MaxCA
    BY <1>0, <2>1, SetupTyped
  <2>3. staged' = staged
    BY <1>3, Zenon DEF Issue
  <2>4. /\ build' \in {build, {SetupCA}}
        /\ made' = made \/ (build = {} /\ made' = made + 1)
        /\ issued' \in {issued, issued + 1}
    <3>1. \/ /\ build' = {SetupCA} /\ made' = IF build = {} THEN made + 1 ELSE made
             /\ issued' = issued + 1
          \/ /\ build' \in {build, {SetupCA}}
             /\ made' = IF build = build' THEN made ELSE made + 1
             /\ issued' = issued
      BY <1>3, Zenon DEF Issue
    <3>2. build # {} => build = {SetupCA}
      BY <1>0, OptionTyped DEF SetupCA, DiskOK
    <3>3. QED
      BY <3>1, <3>2
  <2>5. QED
    BY <1>0, <2>2, <2>3, <2>4 DEF DiskOK
<1>4. CASE Promote
  <2>1. made' = made
    BY <1>4, Zenon DEF Promote
  <2>3. \/ \E c \in staged : build' = {c} /\ staged' = {} /\ issued' = issued + 1
        \/ /\ issued' = issued
           /\ \/ build' = build /\ staged' = staged
              \/ build' = {} /\ staged' = staged
              \/ build' = staged /\ staged' = {}
    BY <1>4, Zenon DEF Promote
  <2>4. {} \in Maybe(CA) /\ \A c \in staged : {c} \in Maybe(CA)
    BY <1>0, OptionTyped DEF DiskOK
  <2>5. issued' \in 0 .. MaxIssue
    <3>1. CASE issued' = issued
      BY <1>0, <3>1 DEF DiskOK
    <3>2. CASE issued' = issued + 1
      <4>1. issued < MaxIssue
        <5>1. pc = "promote" /\ cmd = "rotate"
          BY <1>0, <1>4 DEF Promote, Phases, CallOK, Command, Preparing, AddSteps, PrepareSteps
        <5>2. QED
          BY <5>1, Zenon DEF Possible
      <4>2. QED
        BY <1>0, <3>2, <4>1, BoundAssumption DEF DiskOK
    <3>3. QED
      BY <2>3, <3>1, <3>2
  <2>6. QED
    BY <1>0, <2>1, <2>3, <2>4, <2>5 DEF DiskOK
<1>5. QED
  BY <1>1, <1>2, <1>3, <1>4, Changes, Zenon DEF vars


LEMMA WorldStep == TypeOK /\ [Next]_vars => WorldOK' /\ PlaceOK'
<1> SUFFICES ASSUME TypeOK, [Next]_vars PROVE WorldOK' /\ PlaceOK'
  OBVIOUS
<1>0. RunOK /\ WorldOK /\ PlaceOK /\ CallOK
  BY TypeParts
<1>1. ASSUME NEW o \in Owner, NEW m \in run[o] PROVE m.ca \in Seq(CA) /\ Elems(m.ca) \in SUBSET CA
  <2>1. m.ca \in Seq(CA)
    BY <1>0, <1>1 DEF RunOK, Mounts
  <2>2. QED
    BY <2>1 DEF Elems
<1>2. "server" \in Owner
  BY DEF Owner
<1>3. WorldOK'
  <2>1. files' = files
    BY Changes, Zenon DEF vars, world
  <2>2. CASE trusts' = trusts
    BY <1>0, <2>1, <2>2 DEF WorldOK
  <2>3. ASSUME NEW c \in Client, Distribute(c) PROVE trusts' \in [Client -> SUBSET CA]
    <3>1. PICK m \in run["server"] : trusts' = [trusts EXCEPT ![c] = Elems(m.ca)]
      BY <2>3, Zenon DEF Distribute
    <3>2. Elems(m.ca) \in SUBSET CA
      BY <1>1, <1>2, <3>1
    <3>3. QED
      BY <1>0, <3>1, <3>2 DEF WorldOK
  <2>4. QED
    BY <1>0, <2>1, <2>2, <2>3, Changes, Zenon DEF vars, world, WorldOK
<1>4. name' \in Host
  <2>1. AlterName => name' \in {name, fqdn}
    BY DEF AlterName
  <2>2. QED
    BY <1>0, <2>1, Changes DEF vars, PlaceOK, CallOK
<1>5. hostca' \in Seq(CA)
  <2>1. CASE UpdateTrust
    <3>1. hostca' = hostca \/ \E m \in run["server"] : hostca' = m.ca
      BY <2>1, Zenon DEF UpdateTrust
    <3>2. QED
      BY <1>0, <1>1, <1>2, <3>1 DEF PlaceOK
  <2>2. QED
    BY <1>0, <2>1, Changes DEF vars, PlaceOK
<1>6. QED
  BY <1>3, <1>4, <1>5 DEF PlaceOK

-----------------------------------------------------------------------------
(* What a command holds *)

\* The secrets of an owner, in the order in which they are written.
LEMMA SecretsTyped ==
  /\ \A o \in Owner : TLSSecrets(o) \in Seq(Owner \X Part)
  /\ TLSSecrets("server") \o TLSSecrets("db") \in Seq(Owner \X Part)
  /\ <<>> \in Seq(Owner \X Part)
  /\ {<< <<"server", "ca">>, <<"db", "ca">> >>, << <<"server", "ca">> >>, << <<"db", "ca">> >>}
       \subseteq Seq(Owner \X Part)
<1>1. \A o \in Owner : \A f \in Part : <<o, f>> \in Owner \X Part
  OBVIOUS
<1>2. ASSUME NEW o \in Owner PROVE TLSSecrets(o) \in Seq(Owner \X Part)
  <2>1. "cert" \in Part /\ "key" \in Part /\ "ca" \in Part
    BY DEF Part
  <2>2. <<o, "cert">> \in Owner \X Part /\ <<o, "key">> \in Owner \X Part
        /\ <<o, "ca">> \in Owner \X Part
    BY <1>1, <2>1
  <2>3. QED
    BY <2>2 DEF TLSSecrets
<1>3. "server" \in Owner /\ "db" \in Owner /\ "ca" \in Part
  BY DEF Owner, Part
<1>4. QED
  BY <1>1, <1>2, <1>3

\* What a command is about to write, and where.
LEMMA PutAllTyped ==
  ASSUME NEW S \in Seq(Owner \X Part), NEW then \in Step, PutAll(S, then),
         pair' \in Maybe(Pair), bundle' \in [Owner -> Seq(CA)]
  PROVE  WritingOK'
BY DEF PutAll, WritingOK

LEMMA WritingStep ==
  TypeOK /\ Phases /\ Possible /\ [Next]_vars => WritingOK'
<1> SUFFICES ASSUME TypeOK, Phases, Possible, [Next]_vars PROVE WritingOK'
  OBVIOUS
<1>0. WritingOK /\ CallOK /\ SecretsOK /\ DiskOK /\ WorldOK
  BY TypeParts
<1>1. CASE UNCHANGED writing
  BY <1>0, <1>1 DEF writing, WritingOK
<1>2. CASE Abort \/ Succeed
  BY <1>2, EndTyped
<1>3. CASE Written
  BY <1>3, OptionTyped, SecretsTyped DEF Written, WritingOK, NoBundle, Step
<1>4. /\ Provided \in CA /\ fqdn \in Host /\ 0 \in 0 .. MaxIssue
      /\ {"dbchain", "provided", "reusedb", "decide", "stop", "restartdb"} \subseteq Step
      /\ "server" \in Owner /\ "db" \in Owner
      /\ NoBundle \in [Owner -> Seq(CA)]
  BY <1>0, CAsTyped, BoundAssumption DEF CallOK, Step, Owner, NoBundle
<1>5. CASE SortDone /\ ~Invalid
  <2>1. /\ pair' = {Given(OwnerOf(pc))}
        /\ bundle' = [NoBundle EXCEPT ![OwnerOf(pc)] = <<Provided>>]
        /\ PutAll(TLSSecrets(OwnerOf(pc)), IF pc = "walk" THEN "dbchain" ELSE "provided")
    BY <1>5, Zenon DEF SortDone
  <2>2. pair' \in Maybe(Pair)
    <3>1. Given(OwnerOf(pc)) \in Pair
      BY <1>4, CAsTyped DEF OwnerOf
    <3>2. QED
      BY <2>1, <3>1, OptionTyped
  <2>3. bundle' \in [Owner -> Seq(CA)]
    BY <1>4, <2>1, CAsTyped
  <2>4. OwnerOf(pc) \in Owner
    BY DEF OwnerOf, Owner
  <2>5. (IF pc = "walk" THEN "dbchain" ELSE "provided") \in Step
    BY <1>4
  <2>6. QED
    BY <2>1, <2>2, <2>3, <2>4, <2>5, PutAllTyped, SecretsTyped
<1>6. CASE ThirdParty
  <2>1. Invalid => UNCHANGED writing \/ Abort
    BY Zenon DEF Invalid, writing
  <2>2. QED
    BY <1>1, <1>2, <1>5, <1>6, <2>1, Zenon
       DEF ThirdParty, ReadChain, SortNext, SortMissing, SortDone, ProvidedDone, Kept
<1>7. CASE Reuse
  <2>1. CASE \E p \in files : /\ pair' = {p} /\ bundle' = [NoBundle EXCEPT ![Reused] = <<p.ca>>]
                              /\ PutAll(TLSSecrets(Reused), AfterReuse)
    <3>1. PICK p \in files : /\ pair' = {p} /\ bundle' = [NoBundle EXCEPT ![Reused] = <<p.ca>>]
                             /\ PutAll(TLSSecrets(Reused), AfterReuse)
      BY <2>1
    <3>2. p \in Pair /\ p.ca \in CA
      BY <1>0, OptionTyped, CAsTyped DEF WorldOK
    <3>3. Reused \in Owner /\ AfterReuse \in Step
      BY <1>4 DEF Reused, AfterReuse
    <3>4. pair' \in Maybe(Pair) /\ bundle' \in [Owner -> Seq(CA)]
      BY <1>4, <3>1, <3>2, OptionTyped, CAsTyped
    <3>5. QED
      BY <3>1, <3>3, <3>4, PutAllTyped, SecretsTyped
  <2>2. QED
    BY <1>1, <1>7, <2>1, Zenon DEF Reuse, Kept
<1>8. CASE Issue
  <2>1. CASE /\ pair' = {Issued(SetupCA, fqdn, issued + 1)}
             /\ bundle' = [o \in Owner |-> <<SetupCA>>]
             /\ PutAll(TLSSecrets("server") \o TLSSecrets("db"),
                       IF cmd = "rename" THEN "stop" ELSE "restartdb")
    <3>1. CanIssue
      <4>1. pc = "issue"
        BY <1>8, Zenon DEF Issue
      <4>2. cmd \in Preparing /\ Ahead \in BeforeIssue
        BY <1>0, <4>1 DEF Phases, CallOK, Command, Preparing, AddSteps, RotateSteps, Ahead,
                          BeforeIssue
      <4>3. QED
        BY <4>2, Zenon DEF Possible
    <3>2. SetupCA \in CA /\ issued + 1 \in 0 .. MaxIssue
      BY <1>0, <3>1, SetupTyped
    <3>3. pair' \in Maybe(Pair)
      <4>1. Issued(SetupCA, fqdn, issued + 1) \in Pair
        BY <1>4, <3>2, CAsTyped
      <4>2. QED
        BY <2>1, <4>1, OptionTyped
    <3>4. bundle' \in [Owner -> Seq(CA)]
      BY <2>1, <3>2, CAsTyped
    <3>5. (IF cmd = "rename" THEN "stop" ELSE "restartdb") \in Step
      BY <1>4
    <3>6. QED
      BY <2>1, <3>3, <3>4, <3>5, PutAllTyped, SecretsTyped
  <2>2. QED
    BY <1>2, <1>8, <2>1, Zenon DEF Issue
<1>9. CASE BeginSetup \/ BeginRename \/ BeginAdd \/ BeginRotate
  BY <1>1, <1>9, Zenon DEF BeginSetup, BeginRename, BeginAdd, BeginRotate, Begin, Kept
<1>10. CASE Decide \/ StopServer \/ AlterName
  BY <1>1, <1>2, <1>10, Zenon DEF Decide, StopServer, AlterName, Kept
<1>11. CASE AppendCA
  <2>1. CASE /\ bundle' = [o \in Owner |-> Append(sec[o].ca, NewCA)]
             /\ PutAll((IF Lacks("server") THEN << <<"server", "ca">> >> ELSE <<>>)
                         \o (IF Lacks("db") THEN << <<"db", "ca">> >> ELSE <<>>), "restartdb")
             /\ pair' = pair
    <3>1. NewCA \in CA
      <4>1. CASE "provided" \in flags
        BY <1>4, <4>1 DEF NewCA, Set
      <4>2. CASE "provided" \notin flags
        <5>1. staged # {}
          BY <1>11, <4>2, Zenon DEF AppendCA, Possible
        <5>2. QED
          BY <1>0, <4>2, <5>1, OptionTyped DEF NewCA, Set, DiskOK
      <4>3. QED
        BY <4>1, <4>2
    <3>2. \A o \in Owner : sec[o].ca \in Seq(CA)
      BY <1>0 DEF SecretsOK, Stored
    <3>3. bundle' \in [Owner -> Seq(CA)] /\ pair' \in Maybe(Pair)
      BY <1>0, <2>1, <3>1, <3>2 DEF WritingOK
    <3>4. (IF Lacks("server") THEN << <<"server", "ca">> >> ELSE <<>>)
             \o (IF Lacks("db") THEN << <<"db", "ca">> >> ELSE <<>>) \in Seq(Owner \X Part)
      <4>1. << <<"server", "ca">> >> \in Seq(Owner \X Part)
            /\ << <<"db", "ca">> >> \in Seq(Owner \X Part)
            /\ <<>> \in Seq(Owner \X Part)
        BY SecretsTyped
      <4>2. \A S, T \in Seq(Owner \X Part) : S \o T \in Seq(Owner \X Part)
        OBVIOUS
      <4>3. QED
        BY <4>1, <4>2, Zenon
    <3>5. QED
      BY <1>4, <2>1, <3>3, <3>4, PutAllTyped
  <2>2. QED
    BY <1>1, <1>2, <1>11, <2>1, Zenon DEF AppendCA, Kept
<1>12. CASE Generate \/ Fingerprint \/ CheckClients \/ Switch
  BY <1>1, <1>2, <1>12, Zenon DEF Generate, Fingerprint, CheckClients, Switch, Kept
<1>13. CASE Promote
  <2>1. CASE /\ \E c \in staged : /\ pair' = {Issued(c, fqdn, issued + 1)}
                                  /\ bundle' = [o \in Owner |-> <<c>>]
                                  /\ issued' = issued + 1
             /\ PutAll(TLSSecrets("server") \o TLSSecrets("db"), "restartdb")
    <3>1. PICK c \in staged : /\ pair' = {Issued(c, fqdn, issued + 1)}
                              /\ bundle' = [o \in Owner |-> <<c>>]
                              /\ issued' = issued + 1
      BY <2>1
    <3>2. c \in CA
      BY <1>0, OptionTyped DEF DiskOK
    <3>3. issued + 1 \in 0 .. MaxIssue
      BY <3>1, DiskStep DEF DiskOK
    <3>4. pair' \in Maybe(Pair) /\ bundle' \in [Owner -> Seq(CA)]
      <4>1. Issued(c, fqdn, issued + 1) \in Pair
        BY <1>4, <3>2, <3>3, CAsTyped
      <4>2. pair' \in Maybe(Pair)
        BY <3>1, <4>1, OptionTyped
      <4>3. bundle' \in [Owner -> Seq(CA)]
        BY <3>1, <3>2, CAsTyped
      <4>4. QED
        BY <4>2, <4>3
    <3>5. QED
      BY <1>4, <2>1, <3>4, PutAllTyped, SecretsTyped
  <2>2. QED
    BY <1>2, <1>13, <2>1, Zenon DEF Promote
<1>14. CASE Put
  <2>1. todo # <<>>
    BY <1>14, Zenon DEF Put
  <2>2. \/ Written \/ Abort
        \/ todo' = Tail(todo) /\ pair' = pair /\ bundle' = bundle /\ next' = next
    BY <1>14, Zenon DEF Put
  <2>3. QED
    BY <1>0, <1>2, <1>3, <2>1, <2>2, HeadTyped DEF WritingOK
<1>15. CASE RestartDB \/ RestartServer \/ UpdateTrust \/ Interrupt
  BY <1>1, <1>2, <1>15, Zenon DEF RestartDB, RestartServer, UpdateTrust, Interrupt, Kept
<1>16. CASE Reboot \/ (\E c \in Client : Distribute(c)) \/ UNCHANGED vars
  BY <1>1, <1>16, Zenon DEF Reboot, Distribute, Kept, vars
<1>17. QED
  BY <1>6, <1>7, <1>8, <1>9, <1>10, <1>11, <1>12, <1>13, <1>14, <1>15, <1>16, Zenon
     DEF Next, Work, Prepare, Rotate


\* Of each step: it ends the command, or keeps these values but for those it lists.
LEMMA RestStep == TypeOK /\ [Next]_vars => RestOK'
<1> SUFFICES ASSUME TypeOK, [Next]_vars PROVE RestOK'
  OBVIOUS
<1>0. RestOK /\ SecretsOK
  BY TypeParts
<1>1. CASE UNCHANGED <<ready, err, chain, told, botched>>
  <2>1. /\ ready' = ready /\ links' = links /\ at' = at
        /\ checked' = checked /\ answered' = answered
    BY <1>1, Zenon DEF chain, told
  <2>2. err' \in BOOLEAN /\ botched' \in BOOLEAN
    BY <1>0, <1>1, Zenon DEF RestOK
  <2>3. QED
    BY <1>0, <2>1, <2>2, Zenon DEF RestOK
<1>2. CASE Abort \/ Succeed
  BY <1>2, EndTyped
<1>3. ASSUME ready' \in {ready, ready \cup {"server"}, ready \cup {"db"}},
             err' \in {err, TRUE}, links' \in [Link -> Link \cup {"none"}],
             at' \in Link \cup {"none"}, UNCHANGED <<told, botched>>
      PROVE  RestOK'
  <2>1. ready' \subseteq Owner
    BY <1>0, <1>3 DEF RestOK, Owner
  <2>2. checked' = checked /\ answered' = answered
    BY <1>3, Zenon DEF told
  <2>3. err' \in BOOLEAN /\ botched' \in BOOLEAN
    <3>1. err' = err \/ err' = TRUE
      BY <1>3
    <3>2. botched' = botched
      BY <1>3, Zenon
    <3>3. QED
      BY <1>0, <3>1, <3>2, Zenon DEF RestOK
  <2>4. QED
    BY <1>0, <1>3, <2>1, <2>2, <2>3, Zenon DEF RestOK
<1>4. NoLinks \in [Link -> Link \cup {"none"}]
  BY DEF NoLinks
<1>5. links \in [Link -> Link \cup {"none"}] /\ at \in Link \cup {"none"}
  BY <1>0, Zenon DEF RestOK
<1>6. ready \in {ready, ready \cup {"server"}, ready \cup {"db"}} /\ err \in {err, TRUE}
      /\ TRUE \in {err, TRUE} /\ "none" \in Link \cup {"none"}
  BY Zenon
<1>7. CASE ThirdParty
  <2>1. CASE Invalid
    <3>1. CASE Abort
      BY <1>2, <3>1
    <3>2. CASE ~Abort
      <4>1. /\ err' = TRUE /\ links' = NoLinks /\ at' = "none" /\ ready' = ready
            /\ UNCHANGED told /\ Goto("dbchain")
        BY <2>1, <3>2, Zenon DEF Invalid
      <4>2. QED
        BY <1>3, <1>4, <1>6, <4>1, Zenon DEF Goto
    <3>3. QED
      BY <3>1, <3>2
  <2>2. CASE ReadChain /\ ~Invalid
    <3>1. PICK l \in [Link -> Link \cup {"none"}] :
            /\ l["cert"] \in {"sub", "root"}
            /\ links' = l /\ at' = l["cert"] /\ Goto(WalkOf(pc))
            /\ UNCHANGED <<ready, err, told>>
      BY <2>2, Zenon DEF ReadChain
    <3>2. at' \in Link \cup {"none"}
      BY <3>1 DEF Link
    <3>3. QED
      BY <1>3, <1>6, <3>1, <3>2, Zenon DEF Goto
  <2>3. CASE SortNext
    <3>1. at # "none" /\ at' = links[at] /\ links' = links
      BY <2>3, Zenon DEF SortNext
    <3>2. at' \in Link \cup {"none"}
      BY <1>5, <3>1
    <3>3. QED
      BY <1>3, <1>5, <1>6, <2>3, <3>1, <3>2, Zenon DEF SortNext, Goto
  <2>4. CASE SortDone /\ ~Invalid
    <3>1. /\ ready' = ready \cup {OwnerOf(pc)} /\ links' = NoLinks /\ at' = "none"
          /\ UNCHANGED <<err, told>>
      BY <2>4, Zenon DEF SortDone
    <3>2. ready' \in {ready, ready \cup {"server"}, ready \cup {"db"}}
      BY <3>1 DEF OwnerOf
    <3>3. UNCHANGED botched
      BY <2>4, Zenon DEF SortDone, PutAll, Goto
    <3>4. QED
      BY <1>3, <1>4, <1>6, <3>1, <3>2, <3>3, Zenon
  <2>5. CASE ProvidedDone
    BY <1>1, <1>2, <2>5, Zenon DEF ProvidedDone, Kept, Goto
  <2>6. QED
    BY <1>7, <2>1, <2>2, <2>3, <2>4, <2>5, Zenon DEF ThirdParty, ReadChain, SortMissing, SortDone
<1>8. CASE Reuse
  <2>1. CASE /\ ready' = ready \cup {Reused} /\ UNCHANGED <<err, chain, told>>
             /\ \/ Goto(AfterReuse)
                \/ PutAll(TLSSecrets(Reused), AfterReuse)
    <3>1. links' = links /\ at' = at /\ botched' = botched /\ UNCHANGED told
      BY <2>1, Zenon DEF chain, PutAll, Goto
    <3>2. ready' \in {ready, ready \cup {"server"}, ready \cup {"db"}}
      BY <2>1 DEF Reused
    <3>3. QED
      BY <1>3, <1>5, <1>6, <2>1, <3>1, <3>2, Zenon
  <2>2. CASE Goto(AfterReuse) /\ Kept
    BY <1>1, <2>2, Zenon DEF Goto, Kept
  <2>3. QED
    BY <1>8, <2>1, <2>2, Zenon DEF Reuse
<1>9. CASE BeginSetup \/ BeginRename \/ BeginAdd \/ BeginRotate
  BY <1>1, <1>9, Zenon DEF BeginSetup, BeginRename, BeginAdd, BeginRotate, Begin, Kept
<1>10. CASE Decide \/ StopServer \/ AlterName
  BY <1>1, <1>2, <1>10, Zenon DEF Decide, StopServer, AlterName, Kept, Goto
<1>11. CASE Issue \/ Generate \/ AppendCA
  BY <1>1, <1>2, <1>11, Zenon DEF Issue, Generate, AppendCA, Kept, Goto, PutAll
<1>12. CASE Fingerprint
  <2>1. CASE /\ Len(sec["server"].ca) > 1
             /\ checked' = {Last(sec["server"].ca)} /\ Goto("check")
             /\ UNCHANGED <<ready, err, chain, answered>>
    <3>1. sec["server"].ca \in Seq(CA)
      BY <1>0 DEF SecretsOK, Stored, Owner
    <3>2. checked' \in Maybe(CA)
      BY <2>1, <3>1, OptionTyped DEF Last
    <3>3. /\ ready' = ready /\ links' = links /\ at' = at /\ answered' = answered
      BY <2>1, Zenon DEF chain
    <3>4. err' \in BOOLEAN /\ botched' \in BOOLEAN
      BY <1>0, <2>1, Zenon DEF RestOK, Goto
    <3>5. QED
      BY <1>0, <3>2, <3>3, <3>4, Zenon DEF RestOK
  <2>2. QED
    BY <1>2, <1>12, <2>1, Zenon DEF Fingerprint
<1>13. CASE CheckClients
  <2>1. CASE /\ answered' \subseteq Client /\ Goto("switch")
             /\ UNCHANGED <<ready, err, chain, checked>>
    <3>1. /\ ready' = ready /\ links' = links /\ at' = at /\ checked' = checked
      BY <2>1, Zenon DEF chain
    <3>2. err' \in BOOLEAN /\ botched' \in BOOLEAN
      BY <1>0, <2>1, Zenon DEF RestOK, Goto
    <3>3. QED
      BY <1>0, <2>1, <3>1, <3>2, Zenon DEF RestOK
  <2>2. \/ Abort
        \/ Goto("switch") /\ Kept
        \/ \E a \in SUBSET Client : /\ answered' = a /\ Goto("switch")
                                    /\ UNCHANGED <<ready, err, chain, checked>>
    BY <1>13, Zenon DEF CheckClients
  <2>3. QED
    BY <1>1, <1>2, <2>1, <2>2, Zenon DEF Goto, Kept
<1>14. CASE Switch \/ Promote
  BY <1>1, <1>2, <1>14, Zenon DEF Switch, Promote, Kept, Goto, PutAll
<1>15. CASE Put
  <2>1. CASE err' = TRUE /\ Goto(next) /\ UNCHANGED <<ready, chain, told>>
    <3>1. links' = links /\ at' = at /\ botched' = botched /\ UNCHANGED told
      BY <2>1, Zenon DEF chain, Goto
    <3>2. QED
      BY <1>3, <1>5, <1>6, <2>1, <3>1, Zenon
  <2>2. \/ Abort
        \/ err' = TRUE /\ Goto(next) /\ UNCHANGED <<ready, chain, told>>
        \/ (Goto(next) \/ Goto("put")) /\ UNCHANGED <<ready, err, chain, told>>
    BY <1>15, Zenon DEF Put
  <2>3. QED
    BY <1>1, <1>2, <2>1, <2>2, Zenon DEF Goto
<1>16. CASE RestartDB \/ RestartServer \/ UpdateTrust \/ Interrupt
  BY <1>1, <1>2, <1>16, Zenon DEF RestartDB, RestartServer, UpdateTrust, Interrupt, Kept, Goto
<1>17. CASE Reboot \/ (\E c \in Client : Distribute(c)) \/ UNCHANGED vars
  BY <1>1, <1>17, Zenon DEF Reboot, Distribute, Kept, vars
<1>18. QED
  BY <1>7, <1>8, <1>9, <1>10, <1>11, <1>12, <1>13, <1>14, <1>15, <1>16, <1>17, Zenon
     DEF Next, Work, Prepare, Rotate


-----------------------------------------------------------------------------
(* What the steps of a command take for granted *)

\* A step that keeps the CAs and the counts, and goes to one of the steps that follow.
LEMMA GotoPossible ==
  ASSUME TypeOK, Phases, Possible, NEW step, Goto(step),
         UNCHANGED disk,
         step \notin {"generate", "append", "promote"},
         cmd \in Preparing /\ Ahead' \in BeforeIssue => Ahead \in BeforeIssue,
         step = "check" => pc = "fingerprint", step = "switch" => pc = "check",
         step # "fingerprint"
  PROVE  Possible'
<1>1. /\ pc' = step /\ cmd' = cmd /\ flags' = flags
      /\ build' = build /\ staged' = staged /\ made' = made /\ issued' = issued
  BY Zenon DEF Goto, args, disk
<1>2. CanIssue' <=> CanIssue
  BY <1>1 DEF CanIssue
<1>3. cmd' \in Preparing /\ Ahead' \in BeforeIssue => CanIssue'
  BY <1>1, <1>2, Zenon DEF Possible
<1>4. cmd' = "rotate" /\ "provided" \notin flags' /\ pc' \in {"check", "switch"}
        => issued' < MaxIssue
  BY <1>1 DEF Possible
<1>5. QED
  BY <1>1, <1>3, <1>4 DEF Possible

LEMMA BeginPossible ==
  ASSUME TypeOK, BeginSetup \/ BeginRename \/ BeginAdd \/ BeginRotate
  PROVE  Possible'
<1>1. /\ build' = build /\ staged' = staged /\ made' = made /\ issued' = issued
  BY Zenon DEF BeginSetup, BeginRename, BeginAdd, BeginRotate, Begin, disk
<1>2. ASSUME NEW f, FirstStep(f) \in {"generate", "append", "promote"} PROVE FALSE
  BY <1>2 DEF FirstStep
<1>3. CASE BeginSetup \/ BeginRename
  <2>1. CanIssue
    BY <1>3, Zenon DEF BeginSetup, BeginRename
  <2>2. CanIssue'
    BY <1>1, <2>1 DEF CanIssue
  <2>3. \E f : pc' = FirstStep(f)
    BY <1>3, Zenon DEF BeginSetup, BeginRename, Begin
  <2>4. cmd' = "setup" \/ cmd' = "rename"
    BY <1>3, Zenon DEF BeginSetup, BeginRename, Begin
  <2>5. pc' \notin {"generate", "append", "promote"}
    BY <1>2, <2>3
  <2>6. QED
    BY <2>2, <2>4, <2>5 DEF Possible
<1>4. CASE BeginAdd
  <2>1. \/ made < MaxCA /\ pc' = "generate" /\ flags' = {} /\ cmd' = "addca"
        \/ pc' = "append" /\ flags' = {"provided"} /\ cmd' = "addca"
    BY <1>4, Zenon DEF BeginAdd, Begin
  <2>2. QED
    BY <1>1, <2>1 DEF Possible, Preparing
<1>5. CASE BeginRotate
  <2>1. PICK f \in RotateFlags :
          /\ "provided" \in f \/ issued < MaxIssue
          /\ f = {"emergency"} => made < MaxCA
          /\ Begin("rotate", f, name,
               IF "emergency" \in f THEN (IF "provided" \in f THEN "chain" ELSE "generate")
               ELSE "fingerprint")
    BY <1>5, Zenon DEF BeginRotate
  <2>2. /\ cmd' = "rotate" /\ flags' = f
        /\ pc' = IF "emergency" \in f THEN (IF "provided" \in f THEN "chain" ELSE "generate")
                 ELSE "fingerprint"
    BY <2>1, Zenon DEF Begin
  <2>3. "emergency" \in f /\ "provided" \notin f => f = {"emergency"}
    BY DEF RotateFlags
  <2>4. QED
    BY <1>1, <2>1, <2>2, <2>3 DEF Possible, Preparing
<1>6. QED
  BY <1>3, <1>4, <1>5

LEMMA ResumesStep == Resumes /\ [Next]_vars => Resumes'
<1> SUFFICES ASSUME Resumes, [Next]_vars PROVE Resumes'
  OBVIOUS
<1>1. ASSUME pc' # "put" PROVE Resumes'
  BY <1>1 DEF Resumes
<1>2. ASSUME NEW step, Goto(step), step # "put" PROVE Resumes'
  BY <1>1, <1>2, Zenon DEF Goto
<1>3. CASE Abort \/ Succeed
  BY <1>1, <1>3, Zenon DEF Abort, Succeed, Finish
<1>4. CASE UNCHANGED <<pc, next>>
  BY <1>4, Zenon DEF Resumes
<1>5. CASE ThirdParty
  <2>1. Invalid => Abort \/ Goto("dbchain")
    BY Zenon DEF Invalid
  <2>2. CASE ReadChain
    BY <1>2, <1>3, <2>1, <2>2 DEF ReadChain, WalkOf
  <2>3. CASE SortNext
    BY <1>2, <2>3 DEF SortNext
  <2>4. CASE SortMissing
    BY <1>2, <1>3, <2>1, <2>4 DEF SortMissing
  <2>5. CASE SortDone
    <3>1. CASE Invalid
      BY <1>2, <1>3, <2>1, <3>1
    <3>2. CASE ~Invalid
      <4>1. next' = IF pc = "walk" THEN "dbchain" ELSE "provided"
        BY <2>5, <3>2, Zenon DEF SortDone, PutAll
      <4>2. QED
        BY <4>1 DEF Resumes
    <3>3. QED
      BY <3>1, <3>2
  <2>6. CASE ProvidedDone
    BY <1>2, <1>3, <2>6 DEF ProvidedDone
  <2>7. QED
    BY <1>5, <2>2, <2>3, <2>4, <2>5, <2>6, Zenon DEF ThirdParty
<1>6. CASE Reuse
  <2>1. Goto(AfterReuse) \/ next' = AfterReuse
    BY <1>6, Zenon DEF Reuse, PutAll
  <2>2. QED
    BY <1>2, <2>1 DEF AfterReuse, Resumes
<1>7. CASE Decide
  BY <1>2, <1>3, <1>7 DEF Decide
<1>8. CASE Issue
  <2>1. Abort \/ next' = IF cmd = "rename" THEN "stop" ELSE "restartdb"
    BY <1>8, Zenon DEF Issue, PutAll
  <2>2. QED
    BY <1>3, <2>1 DEF Resumes
<1>9. CASE StopServer \/ AlterName
  BY <1>2, <1>3, <1>9 DEF StopServer, AlterName
<1>10. CASE BeginSetup \/ BeginRename
  <2>1. \E f : pc' = FirstStep(f)
    BY <1>10, Zenon DEF BeginSetup, BeginRename, Begin
  <2>2. QED
    BY <1>1, <2>1 DEF FirstStep
<1>11. CASE BeginAdd \/ BeginRotate
  <2>1. \E step \in {"generate", "append", "chain", "fingerprint"} : pc' = step
    BY <1>11, Zenon DEF BeginAdd, BeginRotate, Begin
  <2>2. QED
    BY <1>1, <2>1
<1>12. CASE Generate
  BY <1>2, <1>3, <1>12 DEF Generate, AfterGenerate
<1>13. CASE AppendCA \/ Promote
  <2>1. Abort \/ Goto("restartdb") \/ next' = "restartdb"
    BY <1>13, Zenon DEF AppendCA, Promote, PutAll
  <2>2. QED
    BY <1>2, <1>3, <2>1 DEF Resumes
<1>14. CASE Fingerprint \/ CheckClients \/ Switch
  BY <1>2, <1>3, <1>14 DEF Fingerprint, CheckClients, Switch
<1>15. CASE Put
  <2>1. pc = "put" /\ (Abort \/ Goto(next) \/ next' = next)
    BY <1>15, Zenon DEF Put
  <2>2. QED
    BY <1>2, <1>3, <2>1 DEF Resumes
<1>16. CASE RestartDB \/ RestartServer \/ UpdateTrust \/ Interrupt
  BY <1>2, <1>3, <1>16 DEF RestartDB, RestartServer, UpdateTrust, Interrupt
<1>17. CASE Reboot \/ (\E c \in Client : Distribute(c)) \/ UNCHANGED vars
  BY <1>4, <1>17, Zenon DEF Reboot, Distribute, Kept, writing, vars
<1>18. QED
  BY <1>5, <1>6, <1>7, <1>8, <1>9, <1>10, <1>11, <1>12, <1>13, <1>14, <1>15, <1>16, <1>17,
     Zenon DEF Next, Work, Prepare, Rotate

LEMMA PossibleStep == TypeOK /\ Phases /\ Resumes /\ Possible /\ [Next]_vars => Possible'
<1> SUFFICES ASSUME TypeOK, Phases, Resumes, Possible, [Next]_vars PROVE Possible'
  OBVIOUS
<1>0. DiskOK /\ CallOK
  BY TypeParts
<1>1. CASE Abort \/ Succeed
  BY <1>1, EndTyped
<1>2. CASE UNCHANGED <<disk, args, pc, next>>
  <2>1. /\ pc' = pc /\ cmd' = cmd /\ flags' = flags /\ next' = next
        /\ build' = build /\ staged' = staged /\ made' = made /\ issued' = issued
    BY <1>2, Zenon DEF args, disk
  <2>2. QED
    BY <2>1, Zenon DEF Possible, CanIssue, Ahead
<1>3. CASE Generate
  <2>1. CASE Abort
    BY <1>1, <2>1
  <2>2. CASE ~Abort
    <3>1. /\ staged' = {made + 1} /\ Goto(AfterGenerate) /\ pc = "generate"
          /\ issued' = issued
      BY <1>3, <2>2, Zenon DEF Generate
    <3>2. /\ pc' = AfterGenerate /\ cmd' = cmd /\ flags' = flags
      BY <3>1, Zenon DEF Goto, args
    <3>3. /\ cmd = "addca" \/ cmd = "rotate"
          /\ "provided" \notin flags
      BY <1>0, <3>1 DEF Possible, Phases, CallOK, Command, PrepareSteps, Preparing
    <3>4. cmd = "rotate" => issued < MaxIssue
      BY <3>1, <3>3 DEF Possible
    <3>5. QED
      BY <3>1, <3>2, <3>3, <3>4 DEF Possible, AfterGenerate, Preparing
  <2>3. QED
    BY <2>1, <2>2
<1>4. CASE BeginSetup \/ BeginRename \/ BeginAdd \/ BeginRotate
  BY <1>4, BeginPossible
<1> DEFINE Then(step) == Goto(step) /\ UNCHANGED disk
<1> DEFINE Follows(step) ==
      /\ Then(step)
      /\ step \notin {"generate", "append", "promote", "check", "switch", "fingerprint"}
      /\ cmd \in Preparing /\ Ahead' \in BeforeIssue => Ahead \in BeforeIssue
<1>5. ASSUME NEW step, Follows(step) PROVE Possible'
  BY <1>5, GotoPossible
<1>6. CASE ThirdParty
  <2>1. \/ Abort
        \/ \E step \in {"dbchain", "walk", "dbwalk", "restartdb", "reuse", "put"} : Then(step)
    <3>1. Invalid => Abort \/ Then("dbchain")
      BY Zenon DEF Invalid, Stay
    <3>2. CASE ReadChain
      BY <1>6, <3>1, <3>2 DEF ReadChain, WalkOf, Stay
    <3>3. CASE SortNext
      BY <3>3 DEF SortNext, Stay
    <3>4. CASE SortMissing
      BY <3>1, <3>4 DEF SortMissing
    <3>5. CASE SortDone
      BY <3>1, <3>5, Zenon DEF SortDone, Stay, PutAll
    <3>6. CASE ProvidedDone
      BY <3>6 DEF ProvidedDone, Stay
    <3>7. QED
      BY <1>6, <3>2, <3>3, <3>4, <3>5, <3>6, Zenon DEF ThirdParty
  <2>2. Ahead \in BeforeIssue
    <3>1. pc \in {"chain", "dbchain", "walk", "dbwalk", "provided"}
      BY <1>6, Zenon DEF ThirdParty, ReadChain, SortNext, SortMissing, SortDone, ProvidedDone
    <3>2. QED
      BY <3>1 DEF Ahead, BeforeIssue
  <2>3. QED
    BY <1>1, <1>5, <2>1, <2>2
<1>7. CASE Reuse
  <2>1. PICK step \in {"reusedb", "decide", "put"} : Then(step)
    <3>1. Goto(AfterReuse) \/ Goto("put")
      BY <1>7, Zenon DEF Reuse, PutAll
    <3>2. UNCHANGED disk
      BY <1>7, Zenon DEF Reuse, Stay
    <3>3. QED
      BY <3>1, <3>2 DEF AfterReuse
  <2>2. Ahead \in BeforeIssue
    <3>1. pc \in {"reuse", "reusedb"}
      BY <1>7, Zenon DEF Reuse
    <3>2. QED
      BY <3>1 DEF Ahead, BeforeIssue
  <2>3. QED
    BY <1>5, <2>1, <2>2
<1>8. CASE Decide
  <2>1. CASE Abort
    BY <1>1, <2>1
  <2>2. CASE ~Abort
    <3>1. pc = "decide" /\ UNCHANGED disk
      BY <1>8, Zenon DEF Decide, Stay
    <3>2. \E step \in {"issue", "stop", "restartdb"} : Goto(step)
      BY <1>8, <2>2 DEF Decide
    <3>3. PICK step \in {"issue", "stop", "restartdb"} : Then(step)
      BY <3>1, <3>2
    <3>4. Ahead \in BeforeIssue
      BY <3>1 DEF Ahead, BeforeIssue
    <3>5. QED
      BY <1>5, <3>3, <3>4
  <2>3. QED
    BY <2>1, <2>2
<1>9. CASE Issue
  <2>1. CASE Abort
    BY <1>1, <2>1
  <2>2. CASE ~Abort
    <3>1. PutAll(TLSSecrets("server") \o TLSSecrets("db"),
                 IF cmd = "rename" THEN "stop" ELSE "restartdb")
      BY <1>9, <2>2, Zenon DEF Issue
    <3>2. Goto("put") /\ next' = IF cmd = "rename" THEN "stop" ELSE "restartdb"
      BY <3>1, Zenon DEF PutAll
    <3>3. pc' = "put"
      BY <3>2, Zenon DEF Goto
    <3>4. Ahead' \notin BeforeIssue
      BY <3>2, <3>3 DEF Ahead, BeforeIssue
    <3>5. QED
      BY <3>3, <3>4 DEF Possible
  <2>3. QED
    BY <2>1, <2>2
<1>10. CASE StopServer \/ AlterName
  <2>1. CASE Abort
    BY <1>1, <2>1
  <2>2. CASE ~Abort
    <3>1. PICK step \in {"alter", "restart"} : Goto(step)
      BY <1>10, <2>2, Zenon DEF StopServer, AlterName
    <3>2. Then(step)
      BY <1>10, <3>1, Zenon DEF StopServer, AlterName
    <3>3. pc' = step
      BY <3>1, Zenon DEF Goto
    <3>4. Ahead' \notin BeforeIssue
      BY <3>3 DEF Ahead, BeforeIssue
    <3>5. QED
      BY <1>5, <3>1, <3>2, <3>4
  <2>3. QED
    BY <2>1, <2>2
<1>11. CASE AppendCA
  <2>1. CASE Abort
    BY <1>1, <2>1
  <2>2. CASE ~Abort
    <3>1. pc = "append" /\ UNCHANGED disk
      BY <1>11, Zenon DEF AppendCA, Stay
    <3>2. PICK step \in {"put", "restartdb"} : Then(step)
      BY <1>11, <2>2, <3>1, Zenon DEF AppendCA, PutAll
    <3>3. cmd \notin Preparing
      BY <3>1 DEF Phases, PrepareSteps
    <3>4. QED
      BY <1>5, <3>2, <3>3
  <2>3. QED
    BY <2>1, <2>2
<1>12. CASE Fingerprint \/ CheckClients \/ Switch \/ Promote
  <2>1. CASE Abort \/ Succeed
    BY <1>1, <2>1
  <2>2. CASE ~(Abort \/ Succeed)
    <3>1. cmd = "rotate"
      <4>1. pc \in {"fingerprint", "check", "switch", "promote"}
        BY <1>12, Zenon DEF Fingerprint, CheckClients, Switch, Promote
      <4>2. QED
        BY <1>0, <4>1 DEF Phases, CallOK, Command, Preparing, AddSteps, PrepareSteps
    <3>2. cmd \notin Preparing
      BY <3>1 DEF Preparing
    <3>3. CASE Fingerprint
      <4>1. pc = "fingerprint" /\ Goto("check") /\ UNCHANGED disk
        BY <2>2, <3>3, Zenon DEF Fingerprint, Stay
      <4>2. QED
        BY <3>2, <4>1, GotoPossible
    <3>4. CASE CheckClients
      <4>1. pc = "check" /\ Goto("switch") /\ UNCHANGED disk
        BY <2>2, <3>4, Zenon DEF CheckClients, Stay
      <4>2. QED
        BY <3>2, <4>1, GotoPossible
    <3>5. CASE Switch
      <4>1. /\ pc = "switch" /\ UNCHANGED disk
            /\ Goto(IF Set("provided") THEN "chain" ELSE "promote")
        BY <2>2, <3>5, Zenon DEF Switch, Stay
      <4>2. CASE Set("provided")
        BY <1>5, <3>2, <4>1, <4>2
      <4>3. CASE ~Set("provided")
        <5>1. pc' = "promote" /\ cmd' = cmd /\ flags' = flags /\ issued' = issued
          BY <4>1, <4>3, Zenon DEF Goto, args, disk
        <5>2. issued < MaxIssue /\ "provided" \notin flags
          BY <3>1, <4>1, <4>3 DEF Possible, Set
        <5>3. QED
          BY <3>2, <5>1, <5>2 DEF Possible
      <4>4. QED
        BY <4>2, <4>3
    <3>6. CASE Promote
      <4>1. Goto("put")
        BY <2>2, <3>6, Zenon DEF Promote, PutAll
      <4>2. pc' = "put" /\ cmd' = cmd
        BY <4>1, Zenon DEF Goto, args
      <4>3. QED
        BY <3>2, <4>2 DEF Possible
    <3>7. QED
      BY <1>12, <3>3, <3>4, <3>5, <3>6
  <2>3. QED
    BY <2>1, <2>2
<1>13. CASE Put
  <2>1. CASE Abort
    BY <1>1, <2>1
  <2>2. CASE ~Abort
    <3>1. pc = "put" /\ UNCHANGED disk
      BY <1>13, Zenon DEF Put
    <3>2. Goto(next) \/ (Goto("put") /\ next' = next)
      BY <1>13, <2>2, Zenon DEF Put
    <3>3. Ahead = next
      BY <3>1 DEF Ahead
    <3>4. /\ cmd = "addca" => next \in AddSteps
          /\ cmd = "rotate" => next \in RotateSteps
          /\ cmd \in Preparing => next \in PrepareSteps
          /\ next # "put" /\ next # "idle" /\ cmd # "none"
      BY <1>0, <3>1, <3>3 DEF Phases, CallOK, Command, Preparing, AddSteps, RotateSteps, PrepareSteps
    <3>5. next \notin {"generate", "append", "promote", "check", "switch", "fingerprint"}
      BY <3>1 DEF Resumes
    <3>6. CASE Goto(next)
      <4>1. pc' = next
        BY <3>6, Zenon DEF Goto
      <4>2. Ahead' = Ahead
        BY <3>3, <3>4, <4>1 DEF Ahead
      <4>3. QED
        BY <1>5, <3>1, <3>5, <3>6, <4>2
    <3>7. CASE Goto("put") /\ next' = next
      <4>1. pc' = "put"
        BY <3>7, Zenon DEF Goto
      <4>2. Ahead' = Ahead
        BY <3>3, <3>7, <4>1 DEF Ahead
      <4>3. QED
        BY <1>5, <3>1, <3>7, <4>2
    <3>8. QED
      BY <3>2, <3>6, <3>7
  <2>3. QED
    BY <2>1, <2>2
<1>14. CASE RestartDB \/ RestartServer \/ UpdateTrust
  <2>1. CASE Abort \/ Succeed
    BY <1>1, <2>1
  <2>2. CASE ~(Abort \/ Succeed)
    <3>1. PICK step \in {"restart", "trust"} : Goto(step)
      BY <1>14, <2>2 DEF RestartDB, RestartServer, UpdateTrust
    <3>2. Then(step)
      BY <1>14, <3>1, Zenon DEF RestartDB, RestartServer, UpdateTrust
    <3>3. pc' = step
      BY <3>1, Zenon DEF Goto
    <3>4. Ahead' \notin BeforeIssue
      BY <3>3 DEF Ahead, BeforeIssue
    <3>5. QED
      BY <1>5, <3>1, <3>2, <3>4
  <2>3. QED
    BY <2>1, <2>2
<1>15. CASE Interrupt
  BY <1>1, <1>15, Zenon DEF Interrupt
<1>16. CASE Reboot \/ (\E c \in Client : Distribute(c)) \/ UNCHANGED vars
  BY <1>2, <1>16, Zenon DEF Reboot, Distribute, Kept, writing, vars
<1>17. QED
  BY <1>3, <1>4, <1>6, <1>7, <1>8, <1>9, <1>10, <1>11, <1>12, <1>13, <1>14, <1>15, <1>16, Zenon
     DEF Next, Work, Prepare, Rotate


\* The inductive invariant of the types.
Typed == TypeOK /\ Phases /\ Resumes /\ Possible

LEMMA TypedInit == Init => Typed
<1> SUFFICES ASSUME Init PROVE Typed
  OBVIOUS
<1>1. pc = "idle" /\ cmd = "none"
  BY Zenon DEF Init
<1>2. QED
  BY <1>1, InitTyped DEF Typed, Phases, Resumes, Possible, Preparing

LEMMA TypedStep == Typed /\ [Next]_vars => Typed'
<1> SUFFICES ASSUME Typed, [Next]_vars PROVE Typed'
  OBVIOUS
<1>1. TypeOK /\ Phases /\ Resumes /\ Possible
  BY DEF Typed
<1>2. SecretsOK' /\ RunOK' /\ DiskOK' /\ WorldOK' /\ PlaceOK'
  BY <1>1, SecretsStep, RunStep, DiskStep, WorldStep
<1>3. CallOK' /\ Phases' /\ WritingOK' /\ RestOK'
  BY <1>1, PhasesStep, WritingStep, RestStep
<1>4. TypeOK'
  BY <1>2, <1>3, TypeParts DEF SecretsOK, RunOK, DiskOK, WorldOK, PlaceOK, CallOK, WritingOK,
     RestOK, Stored, Part, TypeOK
<1>5. Resumes' /\ Possible'
  BY <1>1, ResumesStep, PossibleStep
<1>6. QED
  BY <1>1, <1>3, <1>4, <1>5 DEF Typed

\* Type correctness, for any number of CAs, certificates, clients and commands.
THEOREM TypesKept == Spec => []TypeOK
<1>1. Typed => TypeOK
  BY DEF Typed
<1>2. QED
  BY TypedInit, TypedStep, <1>1, PTL DEF Spec

=============================================================================
