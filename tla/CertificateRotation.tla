------------------------- MODULE CertificateRotation -------------------------
(***************************************************************************)
(* The certificates of a server and of its database: how installation,     *)
(* upgrade and rename make or reuse them, mgradm ssl addca adds a CA to    *)
(* those that are trusted and mgradm ssl rotate switches to it, over the   *)
(* podman secrets that hold them, the directories of the CAs, the          *)
(* containers that read the secrets when they start, and the clients.      *)
(*                                                                         *)
(* A certificate and a key are the pair they were issued or given as.  The *)
(* key a third party gives need not be the one of its certificate: nothing *)
(* compares them.  A CA is a number: 0 is the one of the installation,     *)
(* Provided that of a third party.  What may be absent is a set with at    *)
(* most one element.                                                       *)
(***************************************************************************)
EXTENDS Naturals, Sequences

CONSTANTS
  Client,   \* the minions
  Host,     \* the names the server may have
  Unfit,    \* the services and names for which a third party gives a certificate
            \* with the key of another
  MaxCA,    \* named bound: the CAs that are generated
  MaxIssue, \* named bound: the pairs that are issued
  MaxCommands  \* named bound: the commands that are run

Owner == {"server", "db"}

ASSUME UnfitAssumption == Unfit \subseteq Owner \X Host
ASSUME BoundAssumption == MaxCA \in Nat /\ MaxIssue \in Nat /\ MaxCommands \in Nat
ASSUME CommandAssumption == MaxCA > 0
ASSUME HostAssumption == Host # {}

Provided == MaxCA + 1
CA == 0 .. Provided
Pair == {p \in [ca : CA, host : Host, n : 0 .. MaxIssue, fits : BOOLEAN] :
           p.fits \/ p.ca = Provided}
Issued(ca, host, n) == [ca |-> ca, host |-> host, n |-> n, fits |-> TRUE]
Maybe(S) == {{}} \cup {{x} : x \in S}
Elems(s) == {s[i] : i \in DOMAIN s}
Last(s) == s[Len(s)]
Link == {"cert", "sub", "root"}

VARIABLES
  sec,     \* the secrets of each owner: certificate, key and bundle of CAs
  build,   \* the CA in /root/ssl-build
  staged,  \* the one in /root/ssl-build-rotation
  files,   \* the certificate of an old server, in its volumes
  name,    \* UYUNI_HOSTNAME in the configuration of the server
  made,    \* how many CAs were generated
  issued,  \* how many pairs were issued
  begun,   \* how many commands were run
  run,     \* what the containers read when they started
  hostca,  \* the CAs the host trusts under the name of the server
  trusts,  \* those each client trusts
  cmd,     \* the running command, "none" between two
  pc,      \* its next step
  flags,   \* its flags
  fqdn,    \* the name it was given
  pair,    \* the certificate and the key in its temporary directory
  bundle,  \* the CAs there, for each owner
  todo,    \* the secrets it has yet to replace
  next,    \* the step after that
  ready,   \* the owners whose certificates it need not generate
  err,     \* an error it reports later
  links,   \* the issuer of each certificate it was given
  at,      \* the one the sorting has reached
  outcome,   \* history: how the last command ended
  checked,   \* history: the CA it has checked the clients for
  answered,  \* history: the clients that have answered
  botched    \* history: since the last rotation a command has failed or was
             \* cut, or the CA of a third party was added

disk == <<build, staged, made, issued>>
world == <<files, trusts>>
args == <<cmd, flags, fqdn, begun>>
writing == <<pair, bundle, todo, next>>
chain == <<links, at>>
told == <<checked, answered>>
vars == <<sec, disk, world, name, run, hostca, args, pc, writing, ready, err, chain,
          outcome, told, botched>>

Command == {"none", "addca", "rotate", "rename", "setup"}
Flag == {"provided", "provideddb", "force", "emergency", "checkonly"}
Step == {"idle", "generate", "append", "put", "fingerprint", "check", "switch",
         "promote", "chain", "dbchain", "walk", "dbwalk", "provided", "reuse",
         "reusedb", "decide", "issue", "stop", "alter", "restartdb", "restart", "trust"}
Mounts == [cert : Pair, key : Pair, ca : Seq(CA), dbca : Seq(CA)]

TypeOK ==
  /\ sec \in [Owner -> [cert : Maybe(Pair), key : Maybe(Pair), ca : Seq(CA)]]
  /\ build \in Maybe(CA) /\ staged \in Maybe(CA) /\ files \in Maybe(Pair)
  /\ name \in Host /\ fqdn \in Host /\ begun \in 0 .. MaxCommands
  /\ made \in 0 .. MaxCA /\ issued \in 0 .. MaxIssue
  /\ \A o \in Owner : \A m \in run[o] : m \in Mounts
  /\ DOMAIN run = Owner
  /\ hostca \in Seq(CA) /\ trusts \in [Client -> SUBSET CA]
  /\ cmd \in Command /\ pc \in Step /\ flags \subseteq Flag
  /\ pair \in Maybe(Pair) /\ bundle \in [Owner -> Seq(CA)]
  /\ todo \in Seq(Owner \X {"cert", "key", "ca"}) /\ next \in Step
  /\ ready \subseteq Owner /\ err \in BOOLEAN
  /\ links \in [Link -> Link \cup {"none"}] /\ at \in Link \cup {"none"}
  /\ outcome \in {"none", "ok", "failed"}
  /\ checked \in Maybe(CA) /\ answered \subseteq Client /\ botched \in BOOLEAN

NoSecrets == [cert |-> {}, key |-> {}, ca |-> <<>>]
NoLinks == [l \in Link |-> "none"]
NoBundle == [o \in Owner |-> <<>>]
NoName == CHOOSE h \in Host : TRUE

\* A host on which nothing is installed, an old server whose certificates are in
\* its volumes, or a server that was installed with its own CA, to which another one
\* has been added or not.
Init ==
  /\ name = NoName
  /\ LET first == Issued(0, name, 0)
         secrets(cas) == [cert |-> {first}, key |-> {first}, ca |-> cas]
         mounts(cas) == [cert |-> first, key |-> first, ca |-> cas, dbca |-> cas]
     IN  \/ /\ sec = [o \in Owner |-> NoSecrets] /\ run = [o \in Owner |-> {}]
            /\ \/ build = {} /\ files = {}
               \/ build = {0} /\ files = {first}
            /\ staged = {} /\ made = 0 /\ hostca = <<>>
         \/ \E cas \in {<<0>>, <<0, 1>>} :
              /\ sec = [o \in Owner |-> secrets(cas)]
              /\ run = [o \in Owner |-> {mounts(cas)}]
              /\ build = {0} /\ files = {} /\ hostca = cas
              /\ made = Last(cas) /\ staged = IF made = 0 THEN {} ELSE {1}
  /\ trusts = [c \in Client |-> build]
  /\ issued = 0 /\ begun = 0
  /\ cmd = "none" /\ pc = "idle" /\ flags = {} /\ fqdn = NoName
  /\ pair = {} /\ bundle = NoBundle /\ todo = <<>> /\ next = "idle"
  /\ ready = {} /\ err = FALSE
  /\ links = NoLinks /\ at = "none"
  /\ outcome = "none" /\ checked = {} /\ answered = {} /\ botched = FALSE

-----------------------------------------------------------------------------
(* How a command begins, goes on and ends *)

Set(f) == f \in flags

Begin(c, f, h, step) ==
  /\ pc = "idle" /\ begun < MaxCommands /\ begun' = begun + 1
  /\ cmd' = c /\ flags' = f /\ fqdn' = h /\ pc' = step /\ outcome' = "none"
  /\ UNCHANGED <<sec, disk, world, name, run, hostca, writing, ready, err, chain, told,
                 botched>>

\* The next step, nothing else but the listed variables having changed.
Goto(step) ==
  /\ pc' = step
  /\ UNCHANGED <<world, args, outcome, botched>>

Finish(result, spoilt) ==
  /\ cmd' = "none" /\ pc' = "idle" /\ flags' = {} /\ fqdn' = NoName
  /\ pair' = {} /\ bundle' = NoBundle /\ todo' = <<>> /\ next' = "idle"
  /\ ready' = {} /\ err' = FALSE
  /\ links' = NoLinks /\ at' = "none"
  /\ checked' = {} /\ answered' = {}
  /\ outcome' = result /\ botched' = spoilt
  /\ UNCHANGED <<world, begun>>

Abort == Finish("failed", TRUE)

\* A rotation that succeeds begins a new life; so does nothing else.
Succeed ==
  Finish("ok", IF cmd = "rotate" /\ ~Set("checkonly") THEN FALSE
               ELSE botched \/ (cmd = "addca" /\ Set("provided")))

\* Nothing but the step and the history changes.
Stay == UNCHANGED <<sec, disk, name, run, hostca>>
Kept == UNCHANGED <<writing, ready, err, chain, told>>

-----------------------------------------------------------------------------
(* Podman secrets *)

\* Mutant: the key is forgotten.
TLSSecretsButKey(o) == << <<o, "cert">>, <<o, "ca">> >>

\* CreateTLSSecrets: the certificate, the key and the CA, in this order.
TLSSecrets(o) == << <<o, "cert">>, <<o, "key">>, <<o, "ca">> >>

Written == pair' = {} /\ bundle' = NoBundle /\ todo' = <<>> /\ next' = "idle"

New(o, f) == IF f = "ca" THEN bundle[o] ELSE pair

Gone(f) == IF f = "ca" THEN <<>> ELSE {}

\* createSecretFromFile: remove the secret and create it.  A failure leaves the old
\* one or none; it aborts the command, except that the certificate of a third
\* party for the database is looked at all the same.
Put ==
  /\ pc = "put" /\ todo # <<>>
  /\ LET o == Head(todo)[1]
         f == Head(todo)[2]
     IN  \/ /\ sec' = [sec EXCEPT ![o][f] = New(o, f)]
            /\ IF Len(todo) = 1 THEN Goto(next) /\ Written
               ELSE todo' = Tail(todo) /\ Goto("put") /\ UNCHANGED <<pair, bundle, next>>
            /\ UNCHANGED <<ready, err, chain, told>>
         \/ /\ sec' \in {sec, [sec EXCEPT ![o][f] = Gone(f)]}
            /\ \/ next # "dbchain" /\ Abort
               \/ /\ next = "dbchain" /\ err' = TRUE /\ Goto(next) /\ Written
                  /\ UNCHANGED <<ready, chain, told>>
  /\ UNCHANGED <<disk, name, run, hostca>>

PutAll(secrets, then) ==
  /\ todo' = secrets /\ next' = then /\ Goto("put")

-----------------------------------------------------------------------------
(* The certificates of a third party *)

WalkOf(step) == IF step = "chain" THEN "walk" ELSE "dbwalk"

\* Mutant: the secrets of the database have another name.
OwnerMisnamed(step) == IF step \in {"chain", "walk"} THEN "server" ELSE "database"

OwnerOf(step) == IF step \in {"chain", "walk"} THEN "server" ELSE "db"

\* One of the certificates of a third party is no good: when it is the server's,
\* that of the database is looked at before the error is reported.
Invalid ==
  \/ /\ OwnerOf(pc) = "server" /\ Goto("dbchain") /\ err' = TRUE
     /\ links' = NoLinks /\ at' = "none"
     /\ Stay /\ UNCHANGED <<disk, writing, ready, told>>
  \/ OwnerOf(pc) = "db" /\ Abort /\ UNCHANGED <<sec, disk, name, run, hostca>>

\* OrderCas: read the certificates and find the issuer of the server's.  The chain is
\* complete, with or without a CA between, lacks an issuer, or is a cycle.
ReadChain ==
  /\ pc \in {"chain", "dbchain"}
  /\ \/ Invalid
     \/ \E l \in [Link -> Link \cup {"none"}] :
          /\ l["cert"] \in {"sub", "root"} /\ l["root"] \in {"sub", "root"}
          /\ l["sub"] = "root" \/ l = [cert |-> "sub", sub |-> "none", root |-> "root"]
          /\ links' = l /\ at' = l["cert"]
          /\ Goto(WalkOf(pc)) /\ Stay /\ UNCHANGED <<writing, ready, err, told>>

\* sortCertificates, one turn of the loop.  Nothing stops it on a cycle.
SortNext ==
  /\ pc \in {"walk", "dbwalk"} /\ at # "none" /\ links[at] # at
  /\ at' = links[at]
  /\ Goto(pc) /\ Stay /\ UNCHANGED <<writing, ready, err, links, told>>

\* Mutant: an issuer that was not given is searched for ever.
SortMissingNever ==
  /\ pc \in {"walk", "dbwalk"} /\ at = "none" /\ UNCHANGED vars

SortMissing ==
  /\ pc \in {"walk", "dbwalk"} /\ at = "none" /\ Invalid

Given(o) ==
  [ca |-> Provided, host |-> fqdn, n |-> 0, fits |-> <<o, fqdn>> \notin Unfit]

\* The root is found: check that the key can be read and that the certificate is
\* for the name, and write the secrets.  Whether the key fits is not looked at.
SortDone ==
  /\ pc \in {"walk", "dbwalk"} /\ at # "none" /\ links[at] = at
  /\ \/ Invalid
     \/ /\ pair' = {Given(OwnerOf(pc))}
        /\ bundle' = [NoBundle EXCEPT ![OwnerOf(pc)] = <<Provided>>]
        /\ PutAll(TLSSecrets(OwnerOf(pc)), IF pc = "walk" THEN "dbchain" ELSE "provided")
        /\ ready' = ready \cup {OwnerOf(pc)}
        /\ links' = NoLinks /\ at' = "none"
        /\ Stay /\ UNCHANGED <<err, told>>

\* SetThirdPartyCertificates and PrepareSSLCertificates report the errors of both.
ProvidedDone ==
  /\ pc = "provided"
  /\ \/ err /\ Abort /\ Stay
     \/ ~err /\ Goto(IF cmd = "rotate" THEN "restartdb" ELSE "reuse") /\ Stay /\ Kept

ThirdParty == ReadChain \/ SortNext \/ SortMissing \/ SortDone \/ ProvidedDone

-----------------------------------------------------------------------------
(* PrepareSSLCertificates: install, upgrade and rename *)

CanIssue == issued < MaxIssue /\ (made < MaxCA \/ build # {})

PrepareFlags == {{}, {"provided"}, {"provideddb"}}
FirstStep(f) == IF "provided" \in f THEN "chain"
                ELSE IF "provideddb" \in f THEN "dbchain" ELSE "reuse"

\* mgradm install or upgrade, which have stopped what runs.
BeginSetup ==
  /\ CanIssue /\ pc = "idle" /\ begun < MaxCommands /\ begun' = begun + 1
  /\ \E f \in PrepareFlags : cmd' = "setup" /\ flags' = f /\ pc' = FirstStep(f)
  /\ fqdn' = name /\ run' = [o \in Owner |-> {}] /\ outcome' = "none"
  /\ UNCHANGED <<sec, disk, world, name, hostca, botched>> /\ Kept

\* mgradm server rename
BeginRename ==
  /\ CanIssue /\ run["server"] # {}
  /\ \E f \in PrepareFlags, h \in Host : Begin("rename", f, h, FirstStep(f))

Matches(p, cas) == p.ca \in Elems(cas) /\ p.host = fqdn

AfterReuse == IF pc = "reuse" THEN "reusedb" ELSE "decide"
Reused == IF pc = "reuse" THEN "server" ELSE "db"

\* reuseExistingCertificates: the secrets of the CA and of the certificate, whose key
\* nobody looks at, or else the files of an old server.  What cannot be read is as
\* good as not there.
Reuse ==
  /\ pc \in {"reuse", "reusedb"}
  /\ LET o == Reused
         stored == sec[o].ca # <<>> /\ sec[o].cert # {}
         match == \E p \in sec[o].cert : Matches(p, sec[o].ca)
     IN  \/ /\ o \in ready \/ (stored /\ match)
            /\ ready' = ready \cup {o} /\ Goto(AfterReuse)
            /\ UNCHANGED <<writing, err, chain, told>>
         \/ o \notin ready /\ Goto(AfterReuse) /\ Kept
         \/ /\ o \notin ready /\ ~stored
            /\ \E p \in files :
                 /\ p.host = fqdn /\ pair' = {p}
                 /\ bundle' = [NoBundle EXCEPT ![o] = <<p.ca>>]
            /\ PutAll(TLSSecrets(o), AfterReuse)
            /\ ready' = ready \cup {o} /\ UNCHANGED <<err, chain, told>>
  /\ Stay

\* sslValidateCA: when the server has a certificate already, the key of its CA is needed.
ValidCA == "server" \in ready => build # {}

\* Both are generated when one is missing, unless the password of the CA is wrong.
Decide ==
  /\ pc = "decide"
  /\ \/ ready = Owner /\ Kept
        /\ Goto(IF cmd = "rename" THEN "stop" ELSE "restartdb")
     \/ /\ ready # Owner
        /\ \/ ValidCA /\ Goto("issue") /\ Kept
           \/ Abort
  /\ Stay

\* sslSetupServerScript generates a CA if there is none.
SetupCA == IF build = {} THEN made + 1 ELSE CHOOSE c \in build : TRUE

\* issueServerCertificate
Issue ==
  /\ pc = "issue"
  /\ LET new == made + 1
         ca == SetupCA
     IN  \/ /\ build' = {ca} /\ made' = IF build = {} THEN new ELSE made
            /\ issued' = issued + 1
            /\ pair' = {Issued(ca, fqdn, issued + 1)}
            /\ bundle' = [o \in Owner |-> <<ca>>]
            /\ PutAll(TLSSecrets("server") \o TLSSecrets("db"),
                      IF cmd = "rename" THEN "stop" ELSE "restartdb")
            /\ UNCHANGED <<ready, err, chain, told>>
         \/ /\ build' \in {build, {ca}} /\ made' = IF build = build' THEN made ELSE new
            /\ UNCHANGED issued /\ Abort
  /\ UNCHANGED <<sec, staged, name, run, hostca>>

\* renameForPodman
StopServer ==
  /\ pc = "stop"
  /\ run' = [run EXCEPT !["server"] = {}]
  /\ Goto("alter") /\ Kept /\ UNCHANGED <<sec, disk, name, hostca>>

\* alterHostnameConfig, and a failure of it or of the stop.
AlterName ==
  /\ pc = "alter"
  /\ \/ name' = fqdn /\ Goto("restart") /\ Kept
     \/ name' \in {name, fqdn} /\ Abort
  /\ UNCHANGED <<sec, disk, run, hostca>>

Prepare ==
  \/ BeginSetup \/ BeginRename \/ Reuse \/ Decide \/ Issue \/ StopServer \/ AlterName

-----------------------------------------------------------------------------
(* mgradm ssl addca *)

\* Without a CA of a third party a new one is generated and staged.
BeginAdd ==
  \/ made < MaxCA /\ Begin("addca", {}, name, "generate")
  \/ Begin("addca", {"provided"}, name, "append")

\* What comes after a new CA: adding it, or RegenerateCAAndCertificate's promotion.
AfterGenerate == IF cmd = "addca" THEN "append" ELSE "promote"

\* sslGenCAScript: what was staged is removed first.
Generate ==
  /\ pc = "generate"
  /\ made' = made + 1
  /\ \/ staged' = {made + 1} /\ Kept
        /\ Goto(AfterGenerate)
     \/ staged' \in {staged, {}, {made + 1}} /\ Abort
  /\ UNCHANGED <<sec, build, issued, name, run, hostca>>

NewCA == IF Set("provided") THEN Provided ELSE CHOOSE c \in staged : TRUE
Lacks(o) == NewCA \notin Elems(sec[o].ca)

\* Mutant: the new CA replaces the ones that are trusted.
AppendOver ==
  /\ pc = "append"
  /\ bundle' = [o \in Owner |-> <<NewCA>>]
  /\ PutAll(<< <<"server", "ca">>, <<"db", "ca">> >>, "restartdb")
  /\ Stay /\ UNCHANGED <<pair, ready, err, chain, told>>

\* AddCA: append it to the bundles that do not have it.  Assumption: podman tells
\* whether a secret exists; one it fails to tell of is taken for absent.
AppendCA ==
  /\ pc = "append"
  /\ \/ /\ \E o \in Owner : Lacks(o)
        /\ bundle' = [o \in Owner |-> Append(sec[o].ca, NewCA)]
        /\ PutAll((IF Lacks("server") THEN << <<"server", "ca">> >> ELSE <<>>)
                    \o (IF Lacks("db") THEN << <<"db", "ca">> >> ELSE <<>>), "restartdb")
        /\ UNCHANGED <<pair, ready, err, chain, told>>
     \/ ~(\E o \in Owner : Lacks(o)) /\ Goto("restartdb") /\ Kept
     \/ Abort
  /\ Stay

-----------------------------------------------------------------------------
(* mgradm ssl rotate *)

RotateFlags ==
  {{"checkonly"}} \cup
  {f \in SUBSET {"provided", "force", "emergency"} : ~({"force", "emergency"} \subseteq f)}

BeginRotate ==
  /\ \E f \in RotateFlags :
       /\ "provided" \in f \/ issued < MaxIssue
       /\ f = {"emergency"} => made < MaxCA
       /\ Begin("rotate", f, name,
             IF "emergency" \in f THEN (IF "provided" \in f THEN "chain" ELSE "generate")
             ELSE "fingerprint")

\* Mutant: the first CA of the bundle is taken for the new one.
FingerprintOfFirst ==
  /\ pc = "fingerprint" /\ Len(sec["server"].ca) > 1
  /\ checked' = {Head(sec["server"].ca)} /\ Goto("check") /\ Stay
  /\ UNCHANGED <<writing, ready, err, chain, answered>>

\* NewCAFingerprint: the last CA of the bundle, if there is more than one.
Fingerprint ==
  /\ pc = "fingerprint"
  /\ \/ /\ Len(sec["server"].ca) > 1
        /\ checked' = {Last(sec["server"].ca)} /\ Goto("check")
        /\ UNCHANGED <<writing, ready, err, chain, answered>>
     \/ Abort
  /\ Stay

\* checkClientReadiness: no client is down, and all those that answer trust it.  One
\* that does not answer in time is not counted.
CheckClients ==
  /\ pc = "check"
  /\ \/ Set("force") /\ Goto("switch") /\ Kept
     \/ /\ ~Set("force") /\ Goto("switch")
        /\ \E a \in SUBSET Client :
             (\A c \in a : checked \subseteq trusts[c]) /\ answered' = a
        /\ UNCHANGED <<writing, ready, err, chain, checked>>
     \/ ~Set("force") /\ Abort
  /\ Stay

\* plannedRotate, switchServerCertificate
Switch ==
  /\ pc = "switch"
  /\ \/ Set("checkonly") /\ Succeed
     \/ ~Set("checkonly") /\ Goto(IF Set("provided") THEN "chain" ELSE "promote") /\ Kept
     \/ ~Set("checkonly") /\ Abort
  /\ Stay

\* sslRotateServerScript: the staged CA takes the place of the active one, and signs a
\* new certificate.  A failure after that leaves nothing staged.
Promote ==
  /\ pc = "promote"
  /\ \/ /\ \E c \in staged :
             /\ build' = {c} /\ staged' = {} /\ issued' = issued + 1
             /\ pair' = {Issued(c, fqdn, issued + 1)}
             /\ bundle' = [o \in Owner |-> <<c>>]
        /\ PutAll(TLSSecrets("server") \o TLSSecrets("db"), "restartdb")
        /\ UNCHANGED <<ready, err, chain, told>>
     \/ /\ UNCHANGED <<build, staged>> \/ (staged # {} /\ build' = {} /\ UNCHANGED staged)
           \/ (staged # {} /\ build' = staged /\ staged' = {})
        /\ UNCHANGED issued /\ Abort
  /\ UNCHANGED <<sec, made, name, run, hostca>>

-----------------------------------------------------------------------------
(* ApplyNewCertificates, and the start of the containers *)

\* podman starts a container if all the secrets it mounts exist.
Mounted(o, cas) ==
  {[cert |-> c, key |-> k, ca |-> sec[o].ca, dbca |-> cas] :
     c \in sec[o].cert, k \in sec[o].key}
Started(o) ==
  IF sec[o].ca = <<>> \/ sec["db"].ca = <<>> THEN {} ELSE Mounted(o, sec["db"].ca)

\* Mutant: the database is not restarted.
RestartDBNever ==
  /\ pc = "restartdb" /\ Goto("restart") /\ Stay /\ Kept

RestartDB ==
  /\ pc = "restartdb"
  /\ \/ Started("db") # {} /\ run' = [run EXCEPT !["db"] = Started("db")]
        /\ Goto("restart") /\ Kept
     \/ run' \in {run, [run EXCEPT !["db"] = {}]} /\ Abort
  /\ UNCHANGED <<sec, disk, name, hostca>>

\* Renaming a server only restarts this one, and ends here.
RestartServer ==
  /\ pc = "restart"
  /\ \/ /\ Started("server") # {} /\ run' = [run EXCEPT !["server"] = Started("server")]
        /\ IF cmd = "rename" THEN Succeed ELSE Goto("trust") /\ Kept
     \/ run' \in {run, [run EXCEPT !["server"] = {}]} /\ Abort
  /\ UNCHANGED <<sec, disk, name, hostca>>

\* updateServerCATrust and CopyCaCertificate: the host trusts what the server does.
UpdateTrust ==
  /\ pc = "trust"
  /\ \/ \E m \in run["server"] : hostca' = m.ca /\ Succeed
     \/ UNCHANGED hostca /\ Abort
  /\ UNCHANGED <<sec, disk, name, run>>

Rotate ==
  \/ BeginAdd \/ Generate \/ AppendCA \/ BeginRotate \/ Fingerprint \/ CheckClients
  \/ Switch \/ Promote \/ Put \/ RestartDB \/ RestartServer \/ UpdateTrust

-----------------------------------------------------------------------------
(* The world *)

\* mgradm is killed, perhaps between the removal and the creation of a secret.
Interrupt ==
  /\ pc # "idle" /\ Abort
  /\ \/ UNCHANGED sec
     \/ /\ pc = "put" /\ todo # <<>>
        /\ LET o == Head(todo)[1]
               f == Head(todo)[2]
           IN  sec' = [sec EXCEPT ![o][f] = Gone(f)]
  /\ UNCHANGED <<disk, name, run, hostca>>

\* Everything starts again.
Reboot ==
  /\ pc = "idle" /\ \E o \in Owner : run[o] # {}
  /\ run' = [o \in Owner |-> Started(o)] /\ run' # run
  /\ UNCHANGED <<sec, disk, world, name, hostca, args, pc, outcome, botched>> /\ Kept

\* A client is given the CAs that the server has, over Salt.
Distribute(c) ==
  /\ \E m \in run["server"] : trusts' = [trusts EXCEPT ![c] = Elems(m.ca)]
  /\ trusts' # trusts
  /\ UNCHANGED <<sec, disk, files, name, run, hostca, args, pc, outcome, botched>> /\ Kept

Work == ThirdParty \/ Prepare \/ Rotate

Next == Work \/ Interrupt \/ Reboot \/ \E c \in Client : Distribute(c)

\* The steps of a command follow one another.
Spec == Init /\ [][Next]_vars /\ WF_vars(Work /\ pc # "idle")

-----------------------------------------------------------------------------
(* Properties *)

Covered(p, cas) == p.ca \in Elems(cas)

\* A certificate whose key is of no use: the third party that gave both, which
\* has no other check than that the key can be read, gave the key of another.
Misfit(p) == p.ca = Provided /\ ~p.fits

\* The server and the database serve a certificate that goes with its key, but for
\* a misfit, and with the CAs next to it, and the server accepts that of the
\* database.
Serving ==
  /\ \A o \in Owner : run[o] # {}
  /\ \A o \in Owner : \A m \in run[o] :
       /\ m.cert = m.key /\ (m.cert.fits \/ Misfit(m.cert))
       /\ Covered(m.cert, m.ca)
  /\ \A s \in run["server"], d \in run["db"] : Covered(d.cert, s.dbca)

\* A rotation that succeeds leaves both services on matching certificates and the
\* host trusting them, whatever earlier commands have left behind, unless the key
\* that was given for one of them is that of another certificate.
RotationServes ==
  [][(cmd = "rotate" /\ ~Set("checkonly") /\ outcome' = "ok" /\ pc' = "idle")
       => /\ Serving'
          /\ \A m \in run'["server"] : Covered(m.cert, hostca')]_vars

\* A rotation that is planned, not forced and to a CA of one's own takes no client
\* that has answered away from the server, as long as no command has failed since
\* the last rotation and no CA of a third party was added.
NoClientCutOff ==
  [][(cmd = "rotate" /\ ~botched /\ flags = {} /\ sec'["server"].cert # sec["server"].cert)
       => \A c \in answered : \A p \in sec'["server"].cert : p.ca \in trusts[c]]_vars

\* While a CA is added the server goes on with its certificate: what clients and the
\* database trusted they still trust, unless a secret is lost on the way.
AddKeepsTrust ==
  [][(cmd = "addca")
       => \A o \in Owner :
            /\ sec'[o].cert = sec[o].cert /\ sec'[o].key = sec[o].key
            /\ sec'[o].ca # <<>> => Elems(sec[o].ca) \subseteq Elems(sec'[o].ca)]_vars

\* As long as no command has failed, what the secrets hold between two commands
\* belongs together: the certificate and the key were issued or given as one pair,
\* of which the key is the certificate's but for a misfit, and the CA is there.
Coherent ==
  (pc = "idle" /\ ~botched)
    => \A o \in Owner :
         /\ sec[o].key = sec[o].cert
         /\ \A p \in sec[o].cert :
              (p.fits \/ Misfit(p)) /\ Covered(p, sec[o].ca)

\* The two CAs of a chain that were signed by one another.
Cyclic == pc \in {"walk", "dbwalk"} /\ links["sub"] = "root" /\ links["root"] = "sub"

\* Every command ends, but on a chain with a cycle.
CommandsEnd == [](pc # "idle" => <>(pc = "idle" \/ Cyclic))
=============================================================================
