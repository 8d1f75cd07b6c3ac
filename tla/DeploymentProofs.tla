--------------------------- MODULE DeploymentProofs ---------------------------
(***************************************************************************)
(* Proofs about Deployment, for any units, secrets, satellites, services,  *)
(* faults and number of commands.                                          *)
(*                                                                         *)
(* The steps of a command come in stages: a secret is made before the unit *)
(* that mounts it and removed after it, a certificate is extracted before  *)
(* its file is saved.  So a step that is left tells that the stages before *)
(* it are due, and what was given up on the way is in unmade.              *)
(***************************************************************************)
EXTENDS Deployment, WellFoundedInduction, TLAPS

Left == Range(todo)

-----------------------------------------------------------------------------
(* The steps there are, and the order they come in *)

SetupSteps ==
  ({"images", "network", "env", "trust", "split", "cleanconf"} \X {"server"})
    \cup ({"write", "enable", "wait", "stop", "start", "defer"} \X Core)
    \cup ({"put"} \X ServerSecret) \cup ({"complete"} \X DBCredential)
    \cup ({"inspected"} \X Halves({"db"})) \cup ({"satellite", "launch"} \X Satellite)

RemovalSteps ==
  ({"uninstall", "template", "kill", "volume", "purge"} \X ServerUnit)
    \cup {<<"dropnetwork", "server">>} \cup ({"drop"} \X (ServerSecret \ Halves({"scc"})))

ProxySetupSteps ==
  ({"validate", "forget", "systemid", "network", "startpod", "stoppod"} \X {Pod})
    \cup ({"unpack", "save"} \X File) \cup ({"extract"} \X Certificate)
    \cup ({"fetch"} \X Service) \cup ({"generate"} \X ProxyUnit)

ProxyRemovalSteps ==
  ({"volumes", "folder", "dropnetwork"} \X {Pod}) \cup ({"uninstall"} \X ProxyUnit)
    \cup ({"kill", "purge"} \X Service) \cup ({"drop"} \X ProxySecret)

\* The stage of a command that a step belongs to, 0 if it is of no interest: the secrets
\* of the database come before the database, the other ones before the server, what the
\* running server knows before the satellites.  Units are removed before secrets, and
\* the keys of a file are extracted before it is saved.
Stage(x) ==
  CASE x[1] = "put" -> (IF x[2] \in Halves({"admin", "scc"}) THEN 3 ELSE 1)
    [] x[1] = "complete" -> 1
    [] x[1] \in {"write", "enable", "start"} -> (IF x[2] = "db" THEN 2 ELSE 4)
    [] x[1] = "inspected" -> 5
    [] x[1] \in {"satellite", "launch"} -> 6
    [] x[1] = "defer" -> 7
    [] x[1] \in {"uninstall", "template"} -> 1
    [] x[1] = "drop" -> 2
    [] x[1] = "unpack" -> 1
    [] x[1] = "extract" -> (IF x[2] = <<"proxy", "ca">> THEN 2 ELSE 4)
    [] x[1] = "save" -> (IF x[2] = "config" THEN 3 ELSE 5)
    [] OTHER -> 0

Staged(s) ==
  \A i, j \in DOMAIN s :
    i < j /\ Stage(s[i]) # 0 /\ Stage(s[j]) # 0 => Stage(s[i]) <= Stage(s[j])

-----------------------------------------------------------------------------
(* The inductive invariant *)

\* The secrets that are there, or were lost on the way, or are still to be made.
Made == Present \cup unmade
Due == Made \cup {m \in Secret : <<"put", m>> \in Left}

\* Steps that write what names the certificates and the login, or rely on them.
Uses == ({"write"} \X Core) \cup ({"satellite"} \X Satellite) \cup {<<"split", "server">>}

\* The certificates and the credentials of the database are made before they are named.
Supplied ==
  Left \cap Uses # {} =>
    /\ TLS \subseteq Due
    /\ \A c \in DBCredential : <<"complete", c>> \in Left \/ Halves({c}) \subseteq Due

\* Where there is one half of a pair the other one is there or due.
Paired(c) == (\E h \in Half : <<c, h>> \in Present) => Halves({c}) \subseteq Due

Pairs == {<<"write", "server">>} \cup ({"complete"} \X DBCredential)

AllPaired ==
  /\ Paired("scc")
  /\ "server" \in unit \/ Left \cap Pairs # {} => \A c \in Credentials : Paired(c)

\* The halves of a pair are made by the same command.
PutInPairs ==
  \A c \in Credentials, h \in Half : <<"put", <<c, h>>>> \in Left => Halves({c}) \subseteq Due

Certified == "server" \in unit /\ "localhost" \notin legacy => TLS \subseteq Due

\* What generated.conf knows of the server there is a unit file for.
Known ==
  /\ image["server"] # "none" => "server" \in unit
  /\ <<"write", "server">> \in Left => "install" \in flags \/ "server" \in unit

\* A removal removes the units before the secrets.
Removed ==
  "force" \in flags /\ Left \cap ({"drop"} \X Secret) # {} =>
    \A u \in unit \ stuck : <<"uninstall", u>> \in Left \/ <<"template", u>> \in Left

\* When the credentials that were read from the server are written, the database has
\* been started with both halves.
Inspects ==
  /\ "db" \in unit => mounts["db"] = DBMounts
  /\ Left \cap ({"inspected"} \X Halves({"db"})) # {} =>
       conf # 0 /\ (<<"enable", "db">> \notin Left => Halves({"db"}) \subseteq Present)

\* What is left of the installation that the secrets belong to has the login that is in them.
Login1 ==
  ~kept /\ (data # 0 \/ conf # 0) =>
    /\ data # 0 /\ conf # 0 => data = conf
    /\ HasSecret(Login) => store[Login] \in {data, conf}
    /\ \E h \in Half : HasSecret(<<"db", h>>)
    /\ Left \cap ({"put"} \X Halves({"db"})) = {}

ServerTodo == (todo \in Seq(SetupSteps) \/ todo \in Seq(RemovalSteps)) /\ Staged(todo)

ServerInv ==
  /\ ServerTodo /\ unit \subseteq ServerUnit
  /\ "force" \in flags => kept
  /\ Supplied /\ AllPaired /\ PutInPairs /\ Certified /\ Known /\ Inspects /\ Login1

\* The keys are extracted before their file is saved, and after it was unpacked.
Extracted ==
  /\ \A f \in File : <<"save", f>> \in Left =>
       \A c \in In(f) : <<"extract", c>> \in Left \/ yaml[c] \in {0, store[c]}
  /\ Left \cap ({"unpack"} \X File) # {} => {"extract"} \X Certificate \subseteq Left

ProxyTodo == (todo \in Seq(ProxySetupSteps) \/ todo \in Seq(ProxyRemovalSteps)) /\ Staged(todo)

ProxyInv ==
  /\ ProxyTodo /\ unit \subseteq ProxyUnit /\ flags \cap Core = {}
  /\ Extracted /\ ConfigurationKept

\* What both have.
HostInv == UnitsUsable /\ Removed /\ (~Idle => gen # 0)

Inv ==
  /\ TypeOK /\ HostInv
  /\ role = "server" => ServerInv /\ NoProxy
  /\ role = "proxy" => ProxyInv /\ NoServer

-----------------------------------------------------------------------------
(* Sequences *)

\* Induction up to N over a set of numbers.
LEMMA UpTo ==
  ASSUME NEW N \in Nat, NEW G, 0 \in G, \A n \in 1 .. N : n - 1 \in G => n \in G
  PROVE  0 .. N \subseteq G
<1> DEFINE Bad == {n \in Nat : n \in 0 .. N /\ n \notin G}
<1>1. CASE Bad # {}
  <2>1. PICK n \in Bad : \A k \in Bad : ~ (<<k, n>> \in OpToRel(<, Nat))
    BY <1>1, NatLessThanWellFounded, WFMin
  <2>2. \A k \in Bad : ~ (k < n)
    BY <2>1 DEF OpToRel
  <2>3. n \in 1 .. N /\ n \notin G
    <3>1. n \in 0 .. N /\ n \notin G
      BY <2>1
    <3>2. n # 0
      BY <3>1
    <3>3. QED BY <3>1, <3>2
  <2>4. n - 1 \notin Bad /\ n - 1 \in 0 .. N /\ n - 1 \in Nat
    BY <2>2, <2>3
  <2>5. n - 1 \in G
    BY <2>4
  <2>6. QED BY <2>3, <2>5
<1>2. CASE Bad = {}
  BY <1>2
<1>3. QED BY <1>1, <1>2

LEMMA Concat ==
  ASSUME NEW S, NEW s \in Seq(S), NEW t \in Seq(S)
  PROVE  s \o t \in Seq(S) /\ Range(s \o t) = Range(s) \cup Range(t)
<1>1. /\ DOMAIN s = 1 .. Len(s) /\ DOMAIN t = 1 .. Len(t)
      /\ Len(s) \in Nat /\ Len(t) \in Nat
      /\ DOMAIN (s \o t) = 1 .. Len(s) + Len(t)
      /\ \A i \in 1 .. Len(s) + Len(t) :
           (s \o t)[i] = IF i <= Len(s) THEN s[i] ELSE t[i - Len(s)]
      /\ s \o t \in Seq(S)
  OBVIOUS
<1>2. ASSUME NEW x \in Range(s \o t) PROVE x \in Range(s) \cup Range(t)
  <2>1. PICK i \in 1 .. Len(s) + Len(t) : x = (s \o t)[i]
    BY <1>1, <1>2 DEF Range
  <2>2. CASE i <= Len(s)
    <3>1. i \in DOMAIN s /\ s[i] = x BY <1>1, <2>1, <2>2
    <3>2. QED BY <3>1 DEF Range
  <2>3. CASE i > Len(s)
    <3>1. i - Len(s) \in DOMAIN t /\ t[i - Len(s)] = x BY <1>1, <2>1, <2>3
    <3>2. QED BY <3>1 DEF Range
  <2>4. QED BY <1>1, <2>2, <2>3
<1>3. ASSUME NEW x \in Range(s) PROVE x \in Range(s \o t)
  <2>1. PICK i \in 1 .. Len(s) : x = s[i]
    BY <1>1, <1>3 DEF Range
  <2>2. i \in DOMAIN (s \o t) /\ (s \o t)[i] = x
    BY <1>1, <2>1
  <2>3. QED BY <2>2 DEF Range
<1>4. ASSUME NEW x \in Range(t) PROVE x \in Range(s \o t)
  <2>1. PICK i \in 1 .. Len(t) : x = t[i]
    BY <1>1, <1>4 DEF Range
  <2>2. i + Len(s) \in DOMAIN (s \o t) /\ (s \o t)[i + Len(s)] = x
    BY <1>1, <2>1
  <2>3. QED BY <2>2 DEF Range
<1>5. QED BY <1>1, <1>2, <1>3, <1>4

LEMMA Few ==
  /\ \A S : <<>> \in Seq(S) /\ Range(<<>>) = {}
  /\ \A S : \A x \in S : <<x>> \in Seq(S) /\ Range(<<x>>) = {x}
<1>1. \A S : <<>> \in Seq(S) /\ Range(<<>>) = {}
  BY DEF Range
<1>2. ASSUME NEW S, NEW x \in S PROVE <<x>> \in Seq(S) /\ Range(<<x>>) = {x}
  <2>1. DOMAIN <<x>> = {1} /\ <<x>>[1] = x /\ <<x>> \in Seq(S)
    BY <1>2
  <2>2. QED BY <2>1 DEF Range
<1>3. QED BY <1>1, <1>2

\* What Chosen takes.
LEMMA ChosenDefined ==
  ASSUME NEW S, NEW s \in Seq(S), NEW T
  PROVE  \E c : /\ c[0] = <<>> /\ Chosen(s, T) = c[Len(s)]
                /\ \A n \in 1 .. Len(s) : c[n] = c[n - 1] \o Unless(s[n] \notin T, <<s[n]>>)
<1> DEFINE Own(n) == Unless(s[n] \notin T, <<s[n]>>)
           Fun(f, k) == [n \in 0 .. k |-> IF n = 0 THEN <<>> ELSE f[n - 1] \o Own(n)]
           G == {k \in 0 .. Len(s) : \E f : f = Fun(f, k)}
<1>1. Len(s) \in Nat
  OBVIOUS
<1>2. 0 \in G
  <2> DEFINE g == [n \in 0 .. 0 |-> <<>>]
  <2>1. g = Fun(g, 0)
    OBVIOUS
  <2>2. \E f : f = Fun(f, 0)
    BY <2>1, Zenon
  <2>3. 0 \in 0 .. Len(s)
    BY <1>1
  <2>4. QED BY <2>2, <2>3
<1>3. ASSUME NEW m \in 1 .. Len(s), m - 1 \in G PROVE m \in G
  <2>1. PICK f : f = Fun(f, m - 1)
    BY <1>3
  <2> DEFINE g == [n \in 0 .. m |-> IF n = m THEN f[m - 1] \o Own(m) ELSE f[n]]
  <2> HIDE DEF Own
  <2>2. ASSUME NEW n \in 0 .. m
        PROVE  g[n] = IF n = 0 THEN <<>> ELSE g[n - 1] \o Own(n)
    <3>1. CASE n = m
      <4>1. n # 0 /\ n - 1 \in 0 .. m /\ n - 1 # m
        BY <1>1, <3>1
      <4>2. g[n] = f[m - 1] \o Own(m) /\ g[n - 1] = f[n - 1]
        BY <3>1, <4>1
      <4>3. QED BY <3>1, <4>1, <4>2
    <3>2. CASE n # m
      <4>1. n \in 0 .. m - 1 /\ g[n] = f[n]
        BY <3>2
      <4>2. f[n] = IF n = 0 THEN <<>> ELSE f[n - 1] \o Own(n)
        BY <2>1, <4>1
      <4>3. n # 0 => g[n - 1] = f[n - 1]
        BY <3>2
      <4>4. QED BY <4>1, <4>2, <4>3
    <3>3. QED BY <3>1, <3>2
  <2>3. g = Fun(g, m)
    BY <2>2
  <2>4. m \in 0 .. Len(s)
    BY <1>1
  <2>5. QED BY <2>3, <2>4
<1> HIDE DEF G
<1>4. Len(s) \in G
  <2>1. 0 .. Len(s) \subseteq G
    BY <1>1, <1>2, <1>3, UpTo
  <2>2. QED BY <1>1, <2>1
<1> USE DEF G
<1>5. \E f : f = Fun(f, Len(s))
  BY <1>4
<1> DEFINE c == CHOOSE f : f = Fun(f, Len(s))
<1>6. c = Fun(c, Len(s))
  BY <1>5, Zenon
<1>7. Chosen(s, T) = c[Len(s)]
  BY DEF Chosen
<1> HIDE DEF c, G, Own
<1>8. c[0] = <<>> /\ \A n \in 1 .. Len(s) : c[n] = c[n - 1] \o Own(n)
  <2>1. 0 \in 0 .. Len(s)
    BY <1>1
  <2>2. c[0] = <<>>
    BY <1>6, <2>1
  <2>3. ASSUME NEW n \in 1 .. Len(s) PROVE c[n] = c[n - 1] \o Own(n)
    <3>1. n \in 0 .. Len(s) /\ n # 0
      BY <1>1
    <3>2. QED BY <1>6, <3>1
  <2>4. QED BY <2>2, <2>3
<1>9. QED BY <1>7, <1>8 DEF Own

LEMMA ChosenElems ==
  ASSUME NEW S, NEW s \in Seq(S), NEW T
  PROVE  Chosen(s, T) \in Seq(S) /\ Range(Chosen(s, T)) = Range(s) \cap T
<1> DEFINE Own(n) == Unless(s[n] \notin T, <<s[n]>>)
           Until(n) == {s[i] : i \in 1 .. n} \cap T
<1>1. /\ Len(s) \in Nat /\ DOMAIN s = 1 .. Len(s) /\ \A n \in 1 .. Len(s) : s[n] \in S
  OBVIOUS
<1>2. PICK c : /\ c[0] = <<>> /\ Chosen(s, T) = c[Len(s)]
               /\ \A n \in 1 .. Len(s) : c[n] = c[n - 1] \o Own(n)
  BY ChosenDefined
<1>3. ASSUME NEW n \in 1 .. Len(s)
      PROVE  Own(n) \in Seq(S) /\ Range(Own(n)) = {s[n]} \cap T
  BY <1>1, Few DEF Unless
<1> DEFINE G == {k \in 0 .. Len(s) : c[k] \in Seq(S) /\ Range(c[k]) = Until(k)}
<1>4. 0 \in G
  <2>1. {s[i] : i \in 1 .. 0} = {}
    OBVIOUS
  <2>2. c[0] \in Seq(S) /\ Range(c[0]) = {}
    BY <1>2, Few
  <2>3. QED BY <1>1, <2>1, <2>2
<1>5. ASSUME NEW m \in 1 .. Len(s), m - 1 \in G PROVE m \in G
  <2>1. c[m - 1] \in Seq(S) /\ Range(c[m - 1]) = Until(m - 1) /\ c[m] = c[m - 1] \o Own(m)
    BY <1>2, <1>5
  <2> HIDE DEF Own, Until
  <2>2. c[m] \in Seq(S) /\ Range(c[m]) = Until(m - 1) \cup ({s[m]} \cap T)
    BY <1>3, <2>1, Concat
  <2> USE DEF Until
  <2>3. {s[i] : i \in 1 .. m} = {s[i] : i \in 1 .. m - 1} \cup {s[m]}
    BY <1>1
  <2>4. Until(m) = Until(m - 1) \cup ({s[m]} \cap T)
    BY <2>3
  <2>5. m \in 0 .. Len(s)
    BY <1>1
  <2>6. QED BY <2>2, <2>4, <2>5
<1> HIDE DEF G
<1>6. Len(s) \in G
  <2>1. 0 .. Len(s) \subseteq G
    BY <1>1, <1>4, <1>5, UpTo
  <2>2. QED BY <1>1, <2>1
<1> USE DEF G
<1>7. Until(Len(s)) = Range(s) \cap T
  BY <1>1 DEF Range
<1>8. QED BY <1>2, <1>6, <1>7

-----------------------------------------------------------------------------
(* What the steps are *)

LEMMA PairOf ==
  ASSUME NEW D, NEW U, NEW x \in D \X U
  PROVE  x[1] \in D /\ x[2] \in U /\ x = <<x[1], x[2]>>
OBVIOUS

LEMMA SetupStepIs ==
  ASSUME NEW x \in SetupSteps
  PROVE  /\ x[1] \in {"images", "network", "env", "trust", "split", "cleanconf"} => x[2] = "server"
         /\ x[1] \in {"write", "enable", "wait", "stop", "start", "defer"} => x[2] \in Core
         /\ x[1] = "put" => x[2] \in ServerSecret
         /\ x[1] = "complete" => x[2] \in DBCredential
         /\ x[1] = "inspected" => x[2] \in Halves({"db"})
         /\ x[1] \in {"satellite", "launch"} => x[2] \in Satellite
         /\ x[1] \notin {"uninstall", "template", "kill", "volume", "purge", "dropnetwork", "drop"}
         /\ x = <<x[1], x[2]>>
<1>1. \/ x \in {"images", "network", "env", "trust", "split", "cleanconf"} \X {"server"}
      \/ x \in {"write", "enable", "wait", "stop", "start", "defer"} \X Core
      \/ x \in {"put"} \X ServerSecret \/ x \in {"complete"} \X DBCredential
      \/ x \in {"inspected"} \X Halves({"db"}) \/ x \in {"satellite", "launch"} \X Satellite
  BY Zenon DEF SetupSteps
<1>2. \/ x[1] \in {"images", "network", "env", "trust", "split", "cleanconf"} /\ x[2] = "server"
      \/ x[1] \in {"write", "enable", "wait", "stop", "start", "defer"} /\ x[2] \in Core
      \/ x[1] = "put" /\ x[2] \in ServerSecret
      \/ x[1] = "complete" /\ x[2] \in DBCredential
      \/ x[1] = "inspected" /\ x[2] \in Halves({"db"})
      \/ x[1] \in {"satellite", "launch"} /\ x[2] \in Satellite
  BY <1>1, PairOf
<1>3. x = <<x[1], x[2]>>
  BY <1>1, PairOf
<1>4. QED BY <1>2, <1>3

LEMMA RemovalStepIs ==
  ASSUME NEW x \in RemovalSteps
  PROVE  /\ x[1] \in {"uninstall", "template", "kill", "volume", "purge"} => x[2] \in ServerUnit
         /\ x[1] = "dropnetwork" => x[2] = "server"
         /\ x[1] = "drop" => x[2] \in ServerSecret \ Halves({"scc"})
         /\ x[1] \in {"uninstall", "template", "kill", "volume", "purge", "dropnetwork", "drop"}
         /\ x = <<x[1], x[2]>>
<1>1. \/ x \in {"uninstall", "template", "kill", "volume", "purge"} \X ServerUnit
      \/ x = <<"dropnetwork", "server">> \/ x \in {"drop"} \X (ServerSecret \ Halves({"scc"}))
  BY Zenon DEF RemovalSteps
<1>2. CASE x = <<"dropnetwork", "server">>
  BY <1>2
<1>3. CASE x # <<"dropnetwork", "server">>
  <2>1. \/ x[1] \in {"uninstall", "template", "kill", "volume", "purge"} /\ x[2] \in ServerUnit
        \/ x[1] = "drop" /\ x[2] \in ServerSecret \ Halves({"scc"})
    BY <1>1, <1>3, PairOf
  <2>2. x = <<x[1], x[2]>>
    BY <1>1, <1>3, PairOf
  <2>3. QED BY <2>1, <2>2
<1>4. QED BY <1>2, <1>3


LEMMA ProxySetupStepIs ==
  ASSUME NEW x \in ProxySetupSteps
  PROVE  /\ x[1] \in {"validate", "forget", "systemid", "network", "startpod", "stoppod"} => x[2] = Pod
         /\ x[1] \in {"unpack", "save"} => x[2] \in File
         /\ x[1] = "extract" => x[2] \in Certificate
         /\ x[1] = "fetch" => x[2] \in Service
         /\ x[1] = "generate" => x[2] \in ProxyUnit
         /\ x[1] \notin {"volumes", "folder", "dropnetwork", "uninstall", "kill", "purge", "drop", "template"}
         /\ x[1] \notin {"put", "complete", "inspected", "satellite", "defer"}
         /\ x = <<x[1], x[2]>>
<1>1. \/ x \in {"validate", "forget", "systemid", "network", "startpod", "stoppod"} \X {Pod}
      \/ x \in {"unpack", "save"} \X File \/ x \in {"extract"} \X Certificate
      \/ x \in {"fetch"} \X Service \/ x \in {"generate"} \X ProxyUnit
  BY Zenon DEF ProxySetupSteps
<1>2. \/ x[1] \in {"validate", "forget", "systemid", "network", "startpod", "stoppod"} /\ x[2] = Pod
      \/ x[1] \in {"unpack", "save"} /\ x[2] \in File
      \/ x[1] = "extract" /\ x[2] \in Certificate
      \/ x[1] = "fetch" /\ x[2] \in Service
      \/ x[1] = "generate" /\ x[2] \in ProxyUnit
  BY <1>1, PairOf
<1>3. x = <<x[1], x[2]>>
  BY <1>1, PairOf
<1>4. QED BY <1>2, <1>3

LEMMA ProxyRemovalStepIs ==
  ASSUME NEW x \in ProxyRemovalSteps
  PROVE  /\ x[1] \in {"volumes", "folder", "dropnetwork"} => x[2] = Pod
         /\ x[1] = "uninstall" => x[2] \in ProxyUnit
         /\ x[1] \in {"kill", "purge"} => x[2] \in Service
         /\ x[1] = "drop" => x[2] \in ProxySecret
         /\ x[1] \in {"volumes", "folder", "dropnetwork", "uninstall", "kill", "purge", "drop"}
         /\ x = <<x[1], x[2]>>
<1>1. \/ x \in {"volumes", "folder", "dropnetwork"} \X {Pod} \/ x \in {"uninstall"} \X ProxyUnit
      \/ x \in {"kill", "purge"} \X Service \/ x \in {"drop"} \X ProxySecret
  BY Zenon DEF ProxyRemovalSteps
<1>2. \/ x[1] \in {"volumes", "folder", "dropnetwork"} /\ x[2] = Pod
      \/ x[1] = "uninstall" /\ x[2] \in ProxyUnit
      \/ x[1] \in {"kill", "purge"} /\ x[2] \in Service
      \/ x[1] = "drop" /\ x[2] \in ProxySecret
  BY <1>1, PairOf
<1>3. x = <<x[1], x[2]>>
  BY <1>1, PairOf
<1>4. QED BY <1>2, <1>3

-----------------------------------------------------------------------------
(* Stages *)

LEMMA StageIsNumber == \A x : Stage(x) \in 0 .. 7
BY DEF Stage

\* What comes first.
Before(x, y) == Stage(x) # 0 /\ Stage(y) # 0 => Stage(x) <= Stage(y)

LEMMA HeadAndTail ==
  ASSUME NEW S, NEW s \in Seq(S), s # <<>>
  PROVE  /\ Head(s) \in S /\ Head(s) \in Range(s) /\ Tail(s) \in Seq(S)
         /\ Range(s) = Range(Tail(s)) \cup {Head(s)}
         /\ Staged(s) => Staged(Tail(s)) /\ \A x \in Range(Tail(s)) : Before(Head(s), x)
<1>1. /\ Len(s) \in Nat \ {0} /\ DOMAIN s = 1 .. Len(s) /\ \A i \in 1 .. Len(s) : s[i] \in S
      /\ Head(s) = s[1] /\ Tail(s) \in Seq(S) /\ DOMAIN Tail(s) = 1 .. Len(s) - 1
      /\ \A i \in 1 .. Len(s) - 1 : Tail(s)[i] = s[i + 1]
  OBVIOUS
<1>2. Head(s) \in Range(s) /\ Head(s) \in S
  BY <1>1 DEF Range
<1>3. ASSUME NEW x \in Range(Tail(s))
      PROVE  x \in Range(s) /\ (Staged(s) => Before(Head(s), x))
  <2>1. PICK i \in 1 .. Len(s) - 1 : x = s[i + 1]
    BY <1>1, <1>3 DEF Range
  <2>2. i + 1 \in DOMAIN s /\ 1 \in DOMAIN s /\ 1 < i + 1
    BY <1>1
  <2>3. Staged(s) => Before(s[1], s[i + 1])
    BY <2>2 DEF Staged, Before
  <2>4. QED BY <1>1, <2>1, <2>2, <2>3 DEF Range
<1>4. ASSUME NEW x \in Range(s), x # Head(s) PROVE x \in Range(Tail(s))
  <2>1. PICK i \in 1 .. Len(s) : x = s[i]
    BY <1>1, <1>4 DEF Range
  <2>2. i - 1 \in DOMAIN Tail(s) /\ Tail(s)[i - 1] = x
    BY <1>1, <1>4, <2>1
  <2>3. QED BY <2>2 DEF Range
<1>5. ASSUME Staged(s) PROVE Staged(Tail(s))
  <2>1. ASSUME NEW i \in DOMAIN Tail(s), NEW j \in DOMAIN Tail(s), i < j
        PROVE  Before(Tail(s)[i], Tail(s)[j])
    <3>1. /\ i + 1 \in DOMAIN s /\ j + 1 \in DOMAIN s /\ i + 1 < j + 1
          /\ Tail(s)[i] = s[i + 1] /\ Tail(s)[j] = s[j + 1]
      BY <1>1, <2>1
    <3>2. QED BY <1>5, <3>1 DEF Staged, Before
  <2>2. QED BY <2>1 DEF Staged, Before
<1>6. QED BY <1>1, <1>2, <1>3, <1>4, <1>5

LEMMA StagedConcat ==
  ASSUME NEW S, NEW s \in Seq(S), NEW t \in Seq(S), Staged(s), Staged(t),
         \A x \in Range(s), y \in Range(t) : Before(x, y)
  PROVE  Staged(s \o t)
<1>1. /\ DOMAIN s = 1 .. Len(s) /\ DOMAIN t = 1 .. Len(t)
      /\ Len(s) \in Nat /\ Len(t) \in Nat
      /\ DOMAIN (s \o t) = 1 .. Len(s) + Len(t)
      /\ \A i \in 1 .. Len(s) + Len(t) :
           (s \o t)[i] = IF i <= Len(s) THEN s[i] ELSE t[i - Len(s)]
  OBVIOUS
<1>2. ASSUME NEW i \in 1 .. Len(s) + Len(t), NEW j \in 1 .. Len(s) + Len(t), i < j
      PROVE  Before((s \o t)[i], (s \o t)[j])
  <2>1. CASE j <= Len(s)
    <3>1. i \in DOMAIN s /\ j \in DOMAIN s /\ (s \o t)[i] = s[i] /\ (s \o t)[j] = s[j]
      BY <1>1, <1>2, <2>1
    <3>2. QED BY <1>2, <3>1 DEF Staged, Before
  <2>2. CASE i > Len(s)
    <3>1. /\ i - Len(s) \in DOMAIN t /\ j - Len(s) \in DOMAIN t /\ i - Len(s) < j - Len(s)
          /\ (s \o t)[i] = t[i - Len(s)] /\ (s \o t)[j] = t[j - Len(s)]
      BY <1>1, <1>2, <2>2
    <3>2. QED BY <3>1 DEF Staged, Before
  <2>3. CASE i <= Len(s) /\ j > Len(s)
    <3>1. /\ i \in DOMAIN s /\ j - Len(s) \in DOMAIN t
          /\ (s \o t)[i] = s[i] /\ (s \o t)[j] = t[j - Len(s)]
      BY <1>1, <1>2, <2>3
    <3>2. s[i] \in Range(s) /\ t[j - Len(s)] \in Range(t)
      BY <3>1 DEF Range
    <3>3. QED BY <3>1, <3>2
  <2>4. QED BY <1>1, <2>1, <2>2, <2>3
<1>3. QED BY <1>1, <1>2 DEF Staged, Before

LEMMA StagedFew ==
  Staged(<<>>) /\ \A x : Staged(<<x>>)
<1>1. Staged(<<>>)
  BY DEF Staged
<1>2. ASSUME NEW x PROVE Staged(<<x>>)
  <2>1. DOMAIN <<x>> = {1}
    OBVIOUS
  <2>2. QED BY <2>1 DEF Staged
<1>3. QED BY <1>1, <1>2

LEMMA StagedChosen ==
  ASSUME NEW S, NEW s \in Seq(S), NEW T, Staged(s)
  PROVE  Staged(Chosen(s, T))
<1> DEFINE Own(n) == Unless(s[n] \notin T, <<s[n]>>)
           Until(n) == {s[i] : i \in 1 .. n}
<1>1. /\ Len(s) \in Nat /\ DOMAIN s = 1 .. Len(s) /\ \A n \in 1 .. Len(s) : s[n] \in S
  OBVIOUS
<1>2. PICK c : /\ c[0] = <<>> /\ Chosen(s, T) = c[Len(s)]
               /\ \A n \in 1 .. Len(s) : c[n] = c[n - 1] \o Own(n)
  BY ChosenDefined
<1>3. ASSUME NEW n \in 1 .. Len(s)
      PROVE  Own(n) \in Seq(S) /\ Range(Own(n)) \subseteq {s[n]} /\ Staged(Own(n))
  BY <1>1, Few, StagedFew DEF Unless
<1> DEFINE G == {k \in 0 .. Len(s) : c[k] \in Seq(S) /\ Range(c[k]) \subseteq Until(k) /\ Staged(c[k])}
<1>4. 0 \in G
  <2>1. c[0] \in Seq(S) /\ Range(c[0]) = {} /\ Staged(c[0])
    BY <1>2, Few, StagedFew
  <2>2. QED BY <1>1, <2>1
<1>5. ASSUME NEW m \in 1 .. Len(s), m - 1 \in G PROVE m \in G
  <2>1. c[m - 1] \in Seq(S) /\ Range(c[m - 1]) \subseteq Until(m - 1) /\ c[m] = c[m - 1] \o Own(m)
        /\ Staged(c[m - 1])
    BY <1>2, <1>5
  <2>2. ASSUME NEW x \in Until(m - 1) PROVE Before(x, s[m])
    <3>1. PICK i \in 1 .. m - 1 : x = s[i]
      BY <2>2
    <3>2. i \in DOMAIN s /\ m \in DOMAIN s /\ i < m
      BY <1>1
    <3>3. QED BY <3>1, <3>2 DEF Staged, Before
  <2>3. Until(m - 1) \subseteq Until(m) /\ s[m] \in Until(m)
    BY <1>1
  <2>4. m \in 0 .. Len(s)
    BY <1>1
  <2> HIDE DEF Own, Until
  <2>5. \A x \in Range(c[m - 1]), y \in Range(Own(m)) : Before(x, y)
    BY <1>3, <2>1, <2>2
  <2>6. Staged(c[m])
    BY <1>3, <2>1, <2>5, StagedConcat
  <2>7. c[m] \in Seq(S) /\ Range(c[m]) \subseteq Until(m)
    BY <1>3, <2>1, <2>3, Concat
  <2>8. QED BY <2>4, <2>6, <2>7
<1> HIDE DEF G
<1>6. Len(s) \in G
  <2>1. 0 .. Len(s) \subseteq G
    BY <1>1, <1>4, <1>5, UpTo
  <2>2. QED BY <1>1, <2>1
<1> USE DEF G
<1>7. QED BY <1>2, <1>6

-----------------------------------------------------------------------------
(* What becomes of what is left *)

Defers == {"defer"} \X Core

\* The rest is left: of the stages 1 to 4 only the first step is gone.
Advanced(S) ==
  /\ todo' \in Seq(S) /\ Staged(todo') /\ Left' \subseteq Left
  /\ \A x \in Left : x \in Left' \/ x = Head(todo) \/ Stage(x) \notin 1 .. 4

\* Nothing is left but what was deferred.
Ended ==
  /\ todo' \in Seq(Defers) /\ Staged(todo') /\ Left' \subseteq Defers
  /\ Left' \subseteq {<<"defer", u>> : u \in flags} /\ flags' = {} /\ unmade' = unmade \cup Pending

LEMMA DeferIs == \A x \in Defers : x[1] = "defer" /\ x[2] \in Core /\ Stage(x) = 7
<1>1. \A x \in Defers : x[1] = "defer" /\ x[2] \in Core
  BY PairOf DEF Defers
<1>2. QED BY <1>1 DEF Stage

LEMMA DeferredIs ==
  /\ Deferred \in Seq(Defers) /\ Staged(Deferred) /\ Range(Deferred) \subseteq Defers
  /\ Range(Deferred) \subseteq {<<"defer", u>> : u \in flags}
<1> DEFINE d == Unless(~Set("db"), Step("defer", "db"))
           s == Unless(~Set("server"), Step("defer", "server"))
<1>1. <<"defer", "db">> \in Defers /\ <<"defer", "server">> \in Defers
  BY DEF Defers, Core
<1>2. d \in Seq(Defers) /\ Staged(d) /\ Range(d) \subseteq {<<"defer", u>> : u \in flags}
  <2>1. CASE "db" \in flags
    <3>1. d = << <<"defer", "db">> >>
      BY <2>1 DEF Unless, Step, Set
    <3>2. Range(d) = {<<"defer", "db">>} /\ d \in Seq(Defers) /\ Staged(d)
      BY <3>1, <1>1, Few, StagedFew
    <3>3. QED BY <2>1, <3>2
  <2>2. CASE "db" \notin flags
    <3>1. d = <<>>
      BY <2>2 DEF Unless, Set
    <3>2. QED BY <3>1, Few, StagedFew
  <2>3. QED BY <2>1, <2>2
<1>3. s \in Seq(Defers) /\ Staged(s) /\ Range(s) \subseteq {<<"defer", u>> : u \in flags}
  <2>1. CASE "server" \in flags
    <3>1. s = << <<"defer", "server">> >>
      BY <2>1 DEF Unless, Step, Set
    <3>2. Range(s) = {<<"defer", "server">>} /\ s \in Seq(Defers) /\ Staged(s)
      BY <3>1, <1>1, Few, StagedFew
    <3>3. QED BY <2>1, <3>2
  <2>2. CASE "server" \notin flags
    <3>1. s = <<>>
      BY <2>2 DEF Unless, Set
    <3>2. QED BY <3>1, Few, StagedFew
  <2>3. QED BY <2>1, <2>2
<1>4. Deferred = d \o s
  BY DEF Deferred
<1> HIDE DEF d, s
<1>5. Range(d) \subseteq Defers /\ Range(s) \subseteq Defers
  BY <1>2, <1>3 DEF Range
<1>6. \A x \in Range(d), y \in Range(s) : Before(x, y)
  BY <1>5, DeferIs DEF Before
<1>7. d \o s \in Seq(Defers) /\ Range(d \o s) = Range(d) \cup Range(s)
  BY <1>2, <1>3, Concat
<1>8. Staged(d \o s)
  BY <1>2, <1>3, <1>6, StagedConcat
<1>9. QED BY <1>2, <1>3, <1>4, <1>5, <1>7, <1>8

LEMMA AbortEnds ==
  ASSUME Abort PROVE Ended
BY DeferredIs DEF Abort, Ended, Left

LEMMA InterruptEnds ==
  ASSUME NEW r, Interrupt(r) PROVE Ended
<1>1. /\ todo' = <<>> /\ flags' = {} /\ unmade' = unmade \cup Pending
  BY DEF Interrupt
<1>2. Left' = {}
  BY <1>1, Few DEF Left
<1>3. QED BY <1>1, <1>2, Few, StagedFew DEF Ended

LEMMA TailAdvances ==
  ASSUME NEW S, todo \in Seq(S), Staged(todo), ~Idle, todo' = Tail(todo)
  PROVE  Advanced(S)
<1>1. todo # <<>>
  BY DEF Idle
<1>2. /\ Tail(todo) \in Seq(S) /\ Range(todo) = Range(Tail(todo)) \cup {Head(todo)}
      /\ Staged(Tail(todo))
  BY <1>1, HeadAndTail
<1>3. QED BY <1>2 DEF Advanced, Left

LEMMA GoOnAdvances ==
  ASSUME NEW S, todo \in Seq(S), Staged(todo), ~Idle, NEW k, GoOn(Tail(todo), k)
  PROVE  Advanced(S) /\ flags' \subseteq flags /\ (todo' # <<>> => flags' = flags)
<1>1. todo' = Tail(todo) /\ flags' = IF todo' = <<>> THEN {} ELSE flags
  BY DEF GoOn
<1>2. QED BY <1>1, TailAdvances

LEMMA ContinueAdvances ==
  ASSUME NEW S, todo \in Seq(S), Staged(todo), ~Idle, Continue \/ Overlook(Tail(todo))
  PROVE  Advanced(S) /\ flags' \subseteq flags /\ (todo' # <<>> => flags' = flags)
<1>1. CASE Continue
  BY <1>1, GoOnAdvances DEF Continue
<1>2. CASE Overlook(Tail(todo))
  BY <1>2, GoOnAdvances DEF Overlook
<1>3. QED BY <1>1, <1>2

LEMMA WithoutAdvances ==
  ASSUME todo \in Seq(SetupSteps), Staged(todo), At("inspected") \/ At("satellite"),
         NEW u, Overlook(Without(u))
  PROVE  /\ Advanced(SetupSteps) /\ flags' \subseteq flags /\ (todo' # <<>> => flags' = flags)
         /\ \A x \in Left' : x[1] # "inspected"
<1> DEFINE T == {s \in Range(todo) : s[1] # "inspected" /\ s[2] # u}
<1>1. todo # <<>>
  BY DEF At, Idle
<1>2. todo' = Chosen(todo, T) /\ flags' = IF todo' = <<>> THEN {} ELSE flags
  BY DEF Overlook, GoOn, Without
<1>3. /\ Chosen(todo, T) \in Seq(SetupSteps) /\ Staged(Chosen(todo, T))
      /\ Range(Chosen(todo, T)) = Range(todo) \cap T
  BY ChosenElems, StagedChosen
<1>4. Stage(Head(todo)) \in {5, 6}
  BY DEF At, Stage
<1>5. ASSUME NEW x \in Left PROVE x = Head(todo) \/ Stage(x) \notin 1 .. 4
  <2>1. x = Head(todo) \/ Before(Head(todo), x)
    BY <1>1, <1>5, HeadAndTail DEF Left
  <2>2. Stage(x) \in 0 .. 7
    BY StageIsNumber
  <2>3. QED BY <1>4, <2>1, <2>2 DEF Before
<1>6. \A x \in Left' : x \in Left /\ x[1] # "inspected"
  BY <1>2, <1>3 DEF Left
<1>7. QED BY <1>2, <1>3, <1>5, <1>6 DEF Advanced

\* A step of a command whose steps are in S or in R, which may set the flags in U.
Goes(S, R, U) ==
  /\ ~Idle /\ gen' = gen
  /\ \/ /\ (todo \in Seq(S) /\ Advanced(S)) \/ (todo \in Seq(R) /\ Advanced(R))
        /\ flags' \subseteq flags \cup U /\ (todo' # <<>> => flags \subseteq flags')
     \/ Ended

LEMMA StepGoes ==
  ASSUME NEW S, NEW R, NEW U, todo \in Seq(S) \/ todo \in Seq(R), Staged(todo), ~Idle,
         Continue \/ Overlook(Tail(todo)) \/ Abort
  PROVE  Goes(S, R, U)
<1>1. gen' = gen
  BY DEF Continue, Overlook, Abort, GoOn
<1>2. CASE Abort
  BY <1>1, <1>2, AbortEnds DEF Goes
<1>3. CASE Continue \/ Overlook(Tail(todo))
  <2>1. todo \in Seq(S) => Advanced(S) /\ flags' \subseteq flags /\ (todo' # <<>> => flags' = flags)
    BY <1>3, ContinueAdvances
  <2>2. todo \in Seq(R) => Advanced(R) /\ flags' \subseteq flags /\ (todo' # <<>> => flags' = flags)
    BY <1>3, ContinueAdvances
  <2>3. QED BY <1>1, <2>1, <2>2 DEF Goes
<1>4. QED BY <1>2, <1>3

\* The steps of the host.
LEMMA HostStepIs ==
  ASSUME \/ PurgeImage \/ NetworkStep \/ DropNetwork \/ PutStep \/ DropSecret
         \/ UninstallInstantiated \/ DeleteContainer \/ \E b : UninstallService(b)
  PROVE  ~Idle /\ (Continue \/ Overlook(Tail(todo)) \/ Abort)
<1>1. CASE PurgeImage
  BY <1>1 DEF PurgeImage, At, Pretend
<1>2. CASE NetworkStep
  BY <1>2 DEF NetworkStep, SetupNetwork, At
<1>3. CASE DropNetwork
  BY <1>3 DEF DropNetwork, At, Pretend
<1>4. CASE PutStep
  BY <1>4 DEF PutStep, CreateSecret, At
<1>5. CASE DropSecret
  BY <1>5 DEF DropSecret, At, Pretend
<1>6. CASE UninstallInstantiated
  BY <1>6 DEF UninstallInstantiated, RemoveUnit, At
<1>7. CASE DeleteContainer
  BY <1>7 DEF DeleteContainer, At, Pretend
<1>8. ASSUME NEW b, UninstallService(b) PROVE ~Idle /\ (Continue \/ Overlook(Tail(todo)))
  BY <1>8 DEF UninstallService, RemoveUnit, At
<1>9. QED BY <1>1, <1>2, <1>3, <1>4, <1>5, <1>6, <1>7, <1>8

LEMMA ServerStepIs ==
  ASSUME \/ PrepareImages \/ WriteCore \/ EnableUnit \/ Wait \/ WriteEnv \/ Trust
         \/ StartCore \/ DeferredStart \/ SplitDatabase \/ CleanConf
         \/ LaunchSatellite \/ ScaleDownSatellite \/ PurgeVolume
  PROVE  ~Idle /\ (Continue \/ Overlook(Tail(todo)) \/ Abort)
<1>1. CASE PrepareImages
  BY <1>1 DEF PrepareImages, At
<1>2. CASE WriteCore
  BY <1>2 DEF WriteCore, At
<1>3. CASE EnableUnit \/ StartCore \/ DeferredStart
  BY <1>3 DEF EnableUnit, StartCore, DeferredStart, At
<1>4. CASE Wait \/ WriteEnv \/ Trust
  BY <1>4 DEF Wait, WriteEnv, Trust, At
<1>5. CASE SplitDatabase \/ CleanConf
  BY <1>5 DEF SplitDatabase, CleanConf, At
<1>6. CASE LaunchSatellite \/ ScaleDownSatellite
  BY <1>6 DEF LaunchSatellite, ScaleDownSatellite, At
<1>7. CASE PurgeVolume
  BY <1>7 DEF PurgeVolume, At, Pretend
<1>8. QED BY <1>1, <1>2, <1>3, <1>4, <1>5, <1>6, <1>7

\* The steps that only an installation or an upgrade has.
LEMMA AtSetup ==
  ASSUME todo \in Seq(SetupSteps) \/ todo \in Seq(RemovalSteps), ~Idle,
         Head(todo)[1] \notin {"uninstall", "template", "kill", "volume", "purge", "dropnetwork", "drop"}
  PROVE  /\ todo \in Seq(SetupSteps) /\ Head(todo) \in SetupSteps /\ Head(todo) \in Left
         /\ Head(todo) = <<Head(todo)[1], Arg>>
<1>1. todo # <<>>
  BY DEF Idle
<1>2. todo \in Seq(SetupSteps)
  <2>1. CASE todo \in Seq(RemovalSteps)
    <3>1. Head(todo) \in RemovalSteps
      BY <1>1, <2>1, HeadAndTail
    <3>2. QED BY <3>1, RemovalStepIs
  <2>2. QED BY <2>1
<1>3. Head(todo) \in SetupSteps /\ Head(todo) \in Left
  BY <1>1, <1>2, HeadAndTail DEF Left
<1>4. Head(todo) = <<Head(todo)[1], Arg>>
  BY <1>3, SetupStepIs DEF Arg
<1>5. QED BY <1>2, <1>3, <1>4

LEMMA AtRemoval ==
  ASSUME todo \in Seq(SetupSteps) \/ todo \in Seq(RemovalSteps), ~Idle,
         Head(todo)[1] \in {"uninstall", "template", "kill", "volume", "purge", "dropnetwork", "drop"}
  PROVE  /\ todo \in Seq(RemovalSteps) /\ Head(todo) \in RemovalSteps /\ Head(todo) \in Left
         /\ Head(todo) = <<Head(todo)[1], Arg>>
<1>1. todo # <<>>
  BY DEF Idle
<1>2. todo \in Seq(RemovalSteps)
  <2>1. CASE todo \in Seq(SetupSteps)
    <3>1. Head(todo) \in SetupSteps
      BY <1>1, <2>1, HeadAndTail
    <3>2. QED BY <3>1, SetupStepIs
  <2>2. QED BY <2>1
<1>3. Head(todo) \in RemovalSteps /\ Head(todo) \in Left
  BY <1>1, <1>2, HeadAndTail DEF Left
<1>4. Head(todo) = <<Head(todo)[1], Arg>>
  BY <1>3, RemovalStepIs DEF Arg
<1>5. QED BY <1>2, <1>3, <1>4

ServerGoes == Goes(SetupSteps, RemovalSteps, Core)
LEMMA ServerMoves ==
  ASSUME ServerTodo,
         \/ PurgeImage \/ NetworkStep \/ DropNetwork \/ PutStep \/ DropSecret
         \/ UninstallInstantiated \/ DeleteContainer \/ (\E b : UninstallService(b))
         \/ PrepareImages \/ WriteCore \/ EnableUnit \/ Wait \/ WriteEnv \/ Trust
         \/ StopCore \/ StartCore \/ DeferredStart \/ SplitDatabase \/ CleanConf \/ PutInspected
         \/ PrepareSatellite \/ LaunchSatellite \/ ScaleDownSatellite \/ PurgeVolume
         \/ \E r : Interrupt(r)
  PROVE  ServerGoes
<1> USE DEF ServerTodo
<1>1. CASE ~Idle /\ (Continue \/ Overlook(Tail(todo)) \/ Abort)
  BY <1>1, StepGoes DEF ServerGoes
<1>2. CASE StopCore
  <2>1. CASE Abort
    <3>1. ~Idle
      BY <1>2 DEF StopCore, At
    <3>2. QED BY <1>1, <2>1, <3>1
  <2>2. CASE ~Abort
    <3>1. /\ ~Idle /\ Head(todo)[1] = "stop" /\ todo' = Tail(todo) /\ flags' = flags \cup {Arg}
          /\ gen' = gen
      BY <1>2, <2>2 DEF StopCore, At
    <3>2. todo \in Seq(SetupSteps) /\ Head(todo) \in SetupSteps
      BY <3>1, AtSetup
    <3>3. Arg \in Core
      BY <3>1, <3>2, SetupStepIs DEF Arg
    <3>4. Advanced(SetupSteps)
      BY <3>1, <3>2, TailAdvances
    <3>5. QED BY <3>1, <3>2, <3>3, <3>4 DEF ServerGoes, Goes
  <2>3. QED BY <2>1, <2>2
<1>3. CASE PutInspected \/ PrepareSatellite
  <2>1. At("inspected") \/ At("satellite")
    BY <1>3 DEF PutInspected, PrepareSatellite
  <2>2. Continue \/ \E u : Overlook(Without(u))
    BY <1>3 DEF PutInspected, PrepareSatellite, WriteSatellite
  <2>3. CASE Continue
    BY <1>1, <2>1, <2>3 DEF At
  <2>4. ASSUME NEW u, Overlook(Without(u)) PROVE ServerGoes
    <3>1. ~Idle /\ Head(todo)[1] \in {"inspected", "satellite"} /\ gen' = gen
      BY <2>1, <2>4 DEF At, Overlook, GoOn
    <3>2. todo \in Seq(SetupSteps)
      BY <3>1, AtSetup
    <3>3. Advanced(SetupSteps) /\ flags' \subseteq flags /\ (todo' # <<>> => flags' = flags)
      BY <2>1, <2>4, <3>2, WithoutAdvances
    <3>4. QED BY <3>1, <3>2, <3>3 DEF ServerGoes, Goes
  <2>5. QED BY <2>2, <2>3, <2>4
<1>4. CASE \E r : Interrupt(r)
  <2>1. ~Idle /\ gen' = gen
    BY <1>4 DEF Interrupt
  <2>2. QED BY <1>4, <2>1, InterruptEnds DEF ServerGoes, Goes
<1>5. QED BY <1>1, <1>2, <1>3, <1>4, HostStepIs, ServerStepIs

-----------------------------------------------------------------------------
(* What a step keeps of what the steps that are left rely on *)

\* Nothing that is due is lost, nothing new is left to do.
Steady ==
  /\ Due \subseteq Due' /\ Left' \subseteq Left \cup Defers
  /\ \A c \in DBCredential :
       <<"complete", c>> \in Left => <<"complete", c>> \in Left' \/ Left' \subseteq Defers

LEMMA GoesIsSteady ==
  ASSUME ServerGoes, ~At("complete") \/ Ended, Made \subseteq Made', At("put") => Arg \in Made'
  PROVE  Steady
<1>1. CASE Ended
  <2>1. Left' \subseteq Defers /\ unmade' = unmade \cup Pending
    BY <1>1 DEF Ended
  <2>2. ASSUME NEW m \in Secret, <<"put", m>> \in Left PROVE m \in Made'
    <3>1. PICK i \in DOMAIN todo : todo[i] = <<"put", m>>
      BY <2>2 DEF Left, Range
    <3>2. m \in Pending
      BY <3>1 DEF Pending
    <3>3. QED BY <2>1, <3>2 DEF Made
  <2>3. Due \subseteq Due'
    BY <2>2 DEF Due
  <2>4. QED BY <2>1, <2>3 DEF Steady
<1>2. CASE ~Ended
  <2>1. /\ Left' \subseteq Left
        /\ \A x \in Left : x \in Left' \/ x = Head(todo) \/ Stage(x) \notin 1 .. 4
    BY <1>2 DEF Advanced, ServerGoes, Goes
  <2>2. ~Idle
    BY DEF ServerGoes, Goes
  <2>3. ASSUME NEW m \in Secret, <<"put", m>> \in Left
        PROVE  <<"put", m>> \in Left' \/ m \in Made'
    <3>1. Stage(<<"put", m>>) \in 1 .. 4
      BY DEF Stage
    <3>2. CASE <<"put", m>> = Head(todo)
      <4>1. Head(todo)[1] = "put" /\ Head(todo)[2] = m
        BY <3>2
      <4>2. QED BY <2>2, <4>1 DEF At, Arg
    <3>3. QED BY <2>1, <2>3, <3>1, <3>2
  <2>4. ASSUME NEW c \in DBCredential, <<"complete", c>> \in Left
        PROVE  <<"complete", c>> \in Left'
    <3>1. Stage(<<"complete", c>>) \in 1 .. 4
      BY DEF Stage
    <3>2. <<"complete", c>> # Head(todo)
      <4>1. Head(todo)[1] # "complete"
        BY <1>2, <2>2 DEF At
      <4>2. QED BY <4>1
    <3>3. QED BY <2>1, <2>4, <3>1, <3>2
  <2>5. Due \subseteq Due'
    BY <2>3 DEF Due
  <2>6. QED BY <2>1, <2>4, <2>5 DEF Steady
<1>3. QED BY <1>1, <1>2

LEMMA OfLeft ==
  /\ Defers \cap Uses = {} /\ \A m : <<"put", m>> \notin Defers
  /\ <<"write", "server">> \in Uses /\ <<"write", "db">> \in Uses /\ <<"split", "server">> \in Uses
  /\ \A u \in Satellite : <<"satellite", u>> \in Uses
  /\ Defers \cap Pairs = {} /\ <<"write", "server">> \in Pairs
<1>1. \A x \in Uses : x[1] \in {"write", "satellite", "split"}
  <2>1. ASSUME NEW x \in Uses PROVE x[1] \in {"write", "satellite", "split"}
    <3>1. \/ x \in {"write"} \X Core \/ x \in {"satellite"} \X Satellite \/ x = <<"split", "server">>
      BY <2>1, Zenon DEF Uses
    <3>2. QED BY <3>1, PairOf
  <2>2. QED BY <2>1
<1>2. Defers \cap Uses = {}
  BY <1>1, DeferIs
<1>3. \A m : <<"put", m>> \notin Defers
  BY DeferIs
<1>4. Defers \cap Pairs = {} /\ <<"write", "server">> \in Pairs
  <2>1. ASSUME NEW x \in Pairs, x # <<"write", "server">> PROVE x[1] = "complete"
    BY <2>1, PairOf DEF Pairs
  <2>2. \A x \in Pairs : x[1] # "defer"
    BY <2>1
  <2>3. QED BY <2>2, DeferIs DEF Pairs
<1>5. QED BY <1>2, <1>3, <1>4 DEF Uses, Core

LEMMA SuppliedKept ==
  ASSUME Supplied, Steady
  PROVE  Supplied'
<1>1. SUFFICES ASSUME Left' \cap Uses # {}
               PROVE  /\ TLS \subseteq Due'
                      /\ \A c \in DBCredential :
                           <<"complete", c>> \in Left' \/ Halves({c}) \subseteq Due'
  BY DEF Supplied, Uses, TLS, Halves
<1>2. Left \cap Uses # {} /\ ~(Left' \subseteq Defers)
  BY <1>1, OfLeft DEF Steady
<1>3. TLS \subseteq Due /\ \A c \in DBCredential : <<"complete", c>> \in Left \/ Halves({c}) \subseteq Due
  BY <1>2 DEF Supplied
<1>4. QED BY <1>2, <1>3 DEF Steady

LEMMA PutInPairsKept ==
  ASSUME PutInPairs, Steady
  PROVE  PutInPairs'
<1>1. SUFFICES ASSUME NEW c \in Credentials, NEW h \in Half, <<"put", <<c, h>>>> \in Left'
               PROVE  Halves({c}) \subseteq Due'
  BY DEF PutInPairs, Credentials, Half, Halves
<1>2. <<"put", <<c, h>>>> \in Left
  BY <1>1, OfLeft DEF Steady
<1>3. QED BY <1>2 DEF PutInPairs, Steady

LEMMA PairsKept ==
  ASSUME AllPaired, Due \subseteq Due',
         "server" \in unit' \/ Left' \cap Pairs # {} => "server" \in unit \/ Left \cap Pairs # {},
         \A c \in Credentials, h \in Half :
           <<c, h>> \in Present' => <<c, h>> \in Present \/ Halves({c}) \subseteq Due'
  PROVE  AllPaired'
<1>1. ASSUME NEW c \in Credentials, Paired(c) PROVE Paired(c)'
  <2>1. SUFFICES ASSUME NEW h \in Half, <<c, h>> \in Present'
                 PROVE  Halves({c}) \subseteq Due'
    BY DEF Paired, Half, Halves
  <2>2. QED BY <1>1, <2>1 DEF Paired
<1>2. "scc" \in Credentials
  BY DEF Credentials
<1>3. Paired("scc")'
  BY <1>1, <1>2 DEF AllPaired
<1>4. ASSUME "server" \in unit' \/ Left' \cap Pairs # {}, NEW c \in Credentials
      PROVE  Paired(c)'
  BY <1>1, <1>4 DEF AllPaired
<1>5. QED BY <1>3, <1>4 DEF AllPaired, Pairs, Credentials

LEMMA CertifiedKept ==
  ASSUME Certified, Supplied, Due \subseteq Due',
         "server" \in unit' /\ "localhost" \notin legacy' =>
           ("server" \in unit /\ "localhost" \notin legacy) \/ Left \cap Uses # {}
  PROVE  Certified'
<1>1. SUFFICES ASSUME "server" \in unit' /\ "localhost" \notin legacy'
               PROVE  TLS \subseteq Due'
  BY DEF Certified, TLS
<1>2. TLS \subseteq Due
  BY <1>1 DEF Certified, Supplied
<1>3. QED BY <1>2

LEMMA UsableKept ==
  ASSUME UnitsUsable, Made \subseteq Made',
         \A u \in unit' \ stuck' :
           (u \in unit \ stuck /\ mounts'[u] = mounts[u]) \/ mounts'[u] \subseteq Made'
  PROVE  UnitsUsable'
<1>1. ASSUME NEW u \in unit' \ stuck' PROVE mounts'[u] \subseteq Made'
  <2>1. CASE u \in unit \ stuck /\ mounts'[u] = mounts[u]
    <3>1. mounts[u] \subseteq Made
      BY <2>1 DEF UnitsUsable, Made
    <3>2. QED BY <2>1, <3>1
  <2>2. QED BY <1>1, <2>1
<1>2. QED BY <1>1 DEF UnitsUsable, Made

LEMMA RemovedKept ==
  ASSUME Removed, NEW S, NEW R, NEW U, Goes(S, R, U), "force" \notin U,
         \A x \in S : x[1] # "drop",
         todo \in Seq(R) /\ "force" \in flags' =>
           \A u \in unit' \ stuck' :
             u \in unit \ stuck /\ Head(todo) \notin {<<"uninstall", u>>, <<"template", u>>}
  PROVE  Removed'
<1>1. SUFFICES ASSUME "force" \in flags', Left' \cap ({"drop"} \X Secret) # {}, NEW u \in unit' \ stuck'
               PROVE  <<"uninstall", u>> \in Left' \/ <<"template", u>> \in Left'
  BY DEF Removed
<1>2. PICK y \in Left' : y \in {"drop"} \X Secret
  BY <1>1
<1>3. y[1] = "drop"
  BY <1>2, PairOf
<1>4. flags' # {}
  BY <1>1
<1>5. todo \in Seq(R) /\ Advanced(R) /\ "force" \in flags
  <2>1. ~Ended
    BY <1>4 DEF Ended
  <2>2. ~Advanced(S)
    <3>1. ASSUME Advanced(S) PROVE y \in S
      BY <1>2, <3>1 DEF Advanced, Left, Range
    <3>2. QED BY <1>3, <3>1
  <2>3. QED BY <1>1, <2>1, <2>2 DEF Goes
<1>6. /\ u \in unit \ stuck /\ Head(todo) \notin {<<"uninstall", u>>, <<"template", u>>}
      /\ y \in Left
  BY <1>1, <1>2, <1>5 DEF Advanced
<1>7. <<"uninstall", u>> \in Left \/ <<"template", u>> \in Left
  BY <1>2, <1>5, <1>6 DEF Removed
<1>8. Stage(<<"uninstall", u>>) \in 1 .. 4 /\ Stage(<<"template", u>>) \in 1 .. 4
  BY DEF Stage
<1>9. QED BY <1>5, <1>6, <1>7, <1>8 DEF Advanced

LEMMA KnownKept ==
  ASSUME Known, ServerGoes,
         image'["server"] # "none" => image["server"] # "none" \/ "server" \in unit',
         "server" \in unit =>
           "server" \in unit' \/ (image'["server"] = "none" /\ <<"write", "server">> \notin Left')
  PROVE  Known'
<1>1. image'["server"] # "none" => "server" \in unit'
  BY DEF Known
<1>2. ASSUME <<"write", "server">> \in Left' PROVE "install" \in flags' \/ "server" \in unit'
  <2>1. ~Ended
    BY <1>2, OfLeft DEF Ended
  <2>2. todo' # <<>>
    BY <1>2, Few DEF Left
  <2>3. <<"write", "server">> \in Left /\ flags \subseteq flags'
    BY <1>2, <2>1, <2>2 DEF ServerGoes, Goes, Advanced
  <2>4. QED BY <1>2, <2>3 DEF Known
<1>3. QED BY <1>1, <1>2 DEF Known

Inspections == {"inspected"} \X Halves({"db"})

LEMMA InspectsKept ==
  ASSUME Inspects, ServerGoes, "db" \in unit' => mounts'["db"] = DBMounts,
         Left' \cap Inspections # {} =>
           (conf # 0 => conf' # 0) /\ Present \cap Halves({"db"}) \subseteq Present',
         At("enable") /\ Arg = "db" /\ ~Ended => Halves({"db"}) \subseteq Present'
  PROVE  Inspects'
<1>1. SUFFICES ASSUME Left' \cap Inspections # {}
               PROVE  conf' # 0 /\ (<<"enable", "db">> \notin Left' => Halves({"db"}) \subseteq Present')
  BY DEF Inspects, Inspections, Halves, DBMounts
<1>2. PICK y \in Left' : y \in Inspections
  BY <1>1
<1>3. y[1] = "inspected"
  BY <1>2, PairOf DEF Inspections
<1>4. ~Ended
  BY <1>2, <1>3, DeferIs DEF Ended
<1>5. /\ ~Idle /\ y \in Left
      /\ \A x \in Left : x \in Left' \/ x = Head(todo) \/ Stage(x) \notin 1 .. 4
  BY <1>2, <1>4 DEF ServerGoes, Goes, Advanced
<1>6. conf # 0 /\ (<<"enable", "db">> \notin Left => Halves({"db"}) \subseteq Present)
  BY <1>2, <1>5 DEF Inspects, Inspections
<1>7. ASSUME <<"enable", "db">> \notin Left' PROVE Halves({"db"}) \subseteq Present'
  <2>1. CASE <<"enable", "db">> \notin Left
    BY <1>1, <1>6, <2>1
  <2>2. CASE <<"enable", "db">> \in Left
    <3>1. Stage(<<"enable", "db">>) \in 1 .. 4
      BY DEF Stage
    <3>2. Head(todo) = <<"enable", "db">>
      BY <1>5, <1>7, <2>2, <3>1
    <3>3. At("enable") /\ Arg = "db"
      BY <1>5, <3>2 DEF At, Arg
    <3>4. QED BY <1>4, <3>3
  <2>3. QED BY <2>1, <2>2
<1>8. QED BY <1>1, <1>6, <1>7

LEMMA LoginKept ==
  ASSUME Login1, kept => kept', ~kept' => data' = data /\ conf' = conf, Left' \subseteq Left \cup Defers,
         ~kept' /\ (data # 0 \/ conf # 0) =>
           \A h \in Half : store'[<<"db", h>>] = store[<<"db", h>>]
  PROVE  Login1'
<1>1. SUFFICES ASSUME ~kept', data' # 0 \/ conf' # 0
               PROVE  /\ data' # 0 /\ conf' # 0 => data' = conf'
                      /\ HasSecret(Login)' => store'[Login] \in {data', conf'}
                      /\ \E h \in Half : HasSecret(<<"db", h>>)'
                      /\ Left' \cap ({"put"} \X Halves({"db"})) = {}
  BY DEF Login1, Login, Half, Halves
<1>2. data' = data /\ conf' = conf
  BY <1>1
<1>3. \A h \in Half : store'[<<"db", h>>] = store[<<"db", h>>]
  BY <1>1, <1>2
<1>4. /\ data # 0 /\ conf # 0 => data = conf
      /\ HasSecret(Login) => store[Login] \in {data, conf}
      /\ \E h \in Half : HasSecret(<<"db", h>>)
      /\ Left \cap ({"put"} \X Halves({"db"})) = {}
  BY <1>1, <1>2 DEF Login1
<1>5. store'[Login] = store[Login]
  BY <1>3 DEF Login, Half
<1>6. HasSecret(Login)' => store'[Login] \in {data', conf'}
  BY <1>2, <1>4, <1>5 DEF HasSecret, Login
<1>7. \E h \in Half : HasSecret(<<"db", h>>)'
  BY <1>3, <1>4 DEF HasSecret
<1>8. Left' \cap ({"put"} \X Halves({"db"})) = {}
  <2>1. ASSUME NEW x \in Left', x \in {"put"} \X Halves({"db"}) PROVE FALSE
    <3>1. x \notin Defers
      BY <2>1, PairOf, DeferIs
    <3>2. QED BY <1>4, <2>1, <3>1
  <2>2. QED BY <2>1
<1>9. QED BY <1>2, <1>4, <1>6, <1>7, <1>8

-----------------------------------------------------------------------------
(* What a step of the server may do to the units, the secrets and the data *)

UnitsFine ==
  /\ unit' \subseteq ServerUnit
  /\ "server" \in unit' => "server" \in unit \/ <<"write", "server">> \in Left
  /\ image'["server"] # "none" => image["server"] # "none" \/ "server" \in unit'
  /\ "server" \in unit =>
       "server" \in unit' \/ (image'["server"] = "none" /\ <<"write", "server">> \notin Left')
  /\ "db" \in unit' => mounts'["db"] = DBMounts
  /\ \A u \in unit' \ stuck' :
       (u \in unit \ stuck /\ mounts'[u] = mounts[u]) \/ mounts'[u] \subseteq Made'
  /\ todo \in Seq(RemovalSteps) /\ "force" \in flags' =>
       \A u \in unit' \ stuck' :
         u \in unit \ stuck /\ Head(todo) \notin {<<"uninstall", u>>, <<"template", u>>}

SecretsFine ==
  /\ Made \subseteq Made'
  /\ \A c \in Credentials, h \in Half :
       <<c, h>> \in Present' => <<c, h>> \in Present \/ Halves({c}) \subseteq Due'
  /\ Left' \cap Inspections # {} => Present \cap Halves({"db"}) \subseteq Present'

\* What holds of the server's host.
ServerHost == HostInv /\ ServerInv

LEMMA UnitsSame ==
  ASSUME ServerInv, UNCHANGED <<unit, mounts, image, stuck>>,
         "force" \in flags' => ~At("uninstall") /\ ~At("template"), ~Idle
  PROVE  UnitsFine
<1>1. unit \subseteq ServerUnit /\ ("db" \in unit => mounts["db"] = DBMounts)
  BY DEF ServerInv, Inspects
<1>2. ASSUME "force" \in flags', NEW u PROVE Head(todo) \notin {<<"uninstall", u>>, <<"template", u>>}
  <2>1. Head(todo)[1] \notin {"uninstall", "template"}
    BY <1>2 DEF At
  <2>2. QED BY <2>1
<1>3. QED BY <1>1, <1>2 DEF UnitsFine

LEMMA StoreSame ==
  ASSUME store' = store, unmade \subseteq unmade'
  PROVE  SecretsFine
<1>1. Present' = Present
  BY DEF Present, HasSecret
<1>2. QED BY <1>1 DEF SecretsFine, Made

LEMMA ServerKept ==
  ASSUME ServerHost, ServerGoes, ~At("complete") \/ Ended, At("put") => Arg \in Made',
         At("enable") /\ Arg = "db" /\ ~Ended => Halves({"db"}) \subseteq Present',
         UnitsFine, SecretsFine, kept => kept', Login1',
         Left' \cap Inspections # {} => (conf # 0 => conf' # 0),
         "server" \in unit' /\ "localhost" \notin legacy' =>
           ("server" \in unit /\ "localhost" \notin legacy) \/ Left \cap Uses # {}
  PROVE  ServerHost'
<1>1. /\ ServerTodo /\ Supplied /\ AllPaired /\ PutInPairs /\ Certified /\ Known /\ Inspects
      /\ UnitsUsable /\ Removed /\ ("force" \in flags => kept) /\ (~Idle => gen # 0)
  BY DEF ServerHost, ServerInv, HostInv
<1>2. Made \subseteq Made'
  BY DEF SecretsFine
<1>3. Steady
  BY <1>2, GoesIsSteady
<1>4. Due \subseteq Due' /\ Left' \subseteq Left \cup Defers
  BY <1>3 DEF Steady
<1>5. ServerTodo'
  <2>1. CASE Ended
    <3>1. Defers \subseteq SetupSteps
      BY DEF Defers, SetupSteps
    <3>2. todo' \in Seq(SetupSteps) /\ Staged(todo')
      BY <2>1, <3>1 DEF Ended
    <3>3. QED BY <3>2 DEF ServerTodo, SetupSteps, RemovalSteps
  <2>2. CASE ~Ended
    <3>1. (todo' \in Seq(SetupSteps) \/ todo' \in Seq(RemovalSteps)) /\ Staged(todo')
      BY <2>2 DEF ServerGoes, Goes, Advanced
    <3>2. QED BY <3>1 DEF ServerTodo
  <2>3. QED BY <2>1, <2>2
<1>6. "force" \in flags' => kept'
  <2>1. "force" \in flags' => "force" \in flags
    BY DEF ServerGoes, Goes, Ended, Core
  <2>2. QED BY <1>1, <2>1
<1>7. Supplied' /\ PutInPairs'
  BY <1>1, <1>3, SuppliedKept, PutInPairsKept
<1>8. AllPaired'
  <2>1. "server" \in unit' \/ Left' \cap Pairs # {} => "server" \in unit \/ Left \cap Pairs # {}
    BY <1>4, OfLeft DEF UnitsFine
  <2>2. \A c \in Credentials, h \in Half :
          <<c, h>> \in Present' => <<c, h>> \in Present \/ Halves({c}) \subseteq Due'
    BY DEF SecretsFine
  <2>3. QED BY <1>1, <1>4, <2>1, <2>2, PairsKept
<1>9. Certified'
  BY <1>1, <1>4, CertifiedKept
<1>10. Known'
  BY <1>1, KnownKept DEF UnitsFine
<1>11. Inspects'
  <2>1. Left' \cap Inspections # {} =>
           (conf # 0 => conf' # 0) /\ Present \cap Halves({"db"}) \subseteq Present'
    BY DEF SecretsFine
  <2>2. "db" \in unit' => mounts'["db"] = DBMounts
    BY DEF UnitsFine
  <2>3. QED BY <1>1, <2>1, <2>2, InspectsKept
<1>12. UnitsUsable'
  BY <1>1, <1>2, UsableKept DEF UnitsFine
<1>13. Removed'
  <2>1. ASSUME NEW x \in SetupSteps PROVE x[1] # "drop"
    BY <2>1, SetupStepIs
  <2>2. "force" \notin Core
    BY DEF Core
  <2>3. todo \in Seq(RemovalSteps) /\ "force" \in flags' =>
           \A u \in unit' \ stuck' :
             u \in unit \ stuck /\ Head(todo) \notin {<<"uninstall", u>>, <<"template", u>>}
    BY DEF UnitsFine
  <2>4. Goes(SetupSteps, RemovalSteps, Core)
    BY DEF ServerGoes
  <2>5. QED BY <1>1, <2>1, <2>2, <2>3, <2>4, RemovedKept
<1>14. ~Idle' => gen' # 0
  BY <1>1 DEF ServerGoes, Goes
<1>15. unit' \subseteq ServerUnit
  BY DEF UnitsFine
<1>16. HostInv'
  BY <1>12, <1>13, <1>14 DEF HostInv
<1>17. ServerInv'
  BY <1>5, <1>6, <1>7, <1>8, <1>9, <1>10, <1>11, <1>15 DEF ServerInv, ServerUnit, Core
<1>18. QED BY <1>16, <1>17 DEF ServerHost

\* A step that only changes what is left to do, or what is up and running.
LEMMA QuietKept ==
  ASSUME ServerHost, ServerGoes, ~At("complete") \/ Ended, At("put") => Arg \in Made',
         ~At("enable") \/ Ended, "force" \in flags' => ~At("uninstall") /\ ~At("template"),
         UNCHANGED <<unit, mounts, image, stuck, store, data, conf, kept>>, unmade \subseteq unmade',
         "localhost" \in legacy => "localhost" \in legacy'
  PROVE  ServerHost'
<1>1. ServerInv /\ Login1 /\ ~Idle
  BY DEF ServerHost, ServerInv, ServerGoes, Goes
<1>2. UnitsFine
  BY <1>1, UnitsSame
<1>3. SecretsFine
  BY StoreSame
<1>4. Left' \subseteq Left \cup Defers
  <2>1. Made \subseteq Made'
    BY <1>3 DEF SecretsFine
  <2>2. QED BY <2>1, GoesIsSteady DEF Steady
<1>5. Login1'
  BY <1>1, <1>4, LoginKept
<1>6. QED BY <1>2, <1>3, <1>5, ServerKept

LEMMA QuietHost ==
  ASSUME ServerHost, PurgeImage \/ NetworkStep \/ DropNetwork \/ DeleteContainer, UNCHANGED serverVars
  PROVE  ServerHost'
<1>1. ServerGoes
  BY ServerMoves DEF ServerHost, ServerInv
<1>2. UNCHANGED <<unit, mounts, image, stuck, store, data, conf, kept, legacy>>
  BY DEF PurgeImage, NetworkStep, DropNetwork, DeleteContainer, services, files, resources, history,
         serverVars
<1>3. unmade \subseteq unmade'
  <2>1. CASE PurgeImage
    BY <2>1 DEF PurgeImage, Abort
  <2>2. CASE NetworkStep
    BY <2>2 DEF NetworkStep, SetupNetwork, Abort
  <2>3. CASE DropNetwork \/ DeleteContainer
    BY <2>3 DEF DropNetwork, DeleteContainer, history
  <2>4. QED BY <2>1, <2>2, <2>3
<1>4. /\ ~At("complete") /\ ~At("put") /\ ~At("enable") /\ ~At("uninstall") /\ ~At("template")
  BY DEF PurgeImage, NetworkStep, DropNetwork, DeleteContainer, At
<1>5. QED BY <1>1, <1>2, <1>3, <1>4, QuietKept

LEMMA QuietSetup ==
  ASSUME ServerHost,
         \/ PrepareImages \/ Wait \/ WriteEnv \/ Trust \/ StopCore \/ CleanConf
         \/ LaunchSatellite \/ ScaleDownSatellite
  PROVE  ServerHost'
<1>1. ServerGoes
  BY ServerMoves DEF ServerHost, ServerInv
<1>2. UNCHANGED <<unit, mounts, image, stuck, store, data, conf, kept>>
  BY DEF PrepareImages, Wait, WriteEnv, Trust, StopCore, CleanConf, LaunchSatellite, ScaleDownSatellite,
         services, files, resources, history, volumes, settings, serverVars
<1>3. unmade \subseteq unmade'
  <2>1. CASE PrepareImages
    BY <2>1 DEF PrepareImages, Abort
  <2>2. CASE Wait \/ WriteEnv \/ Trust \/ StopCore \/ CleanConf
    BY <2>2 DEF Wait, WriteEnv, Trust, StopCore, CleanConf, Abort
  <2>3. CASE LaunchSatellite \/ ScaleDownSatellite
    BY <2>3 DEF LaunchSatellite, ScaleDownSatellite, history
  <2>4. QED BY <2>1, <2>2, <2>3
<1>4. "localhost" \in legacy => "localhost" \in legacy'
  <2>1. CASE CleanConf
    BY <2>1 DEF CleanConf
  <2>2. CASE ~CleanConf
    BY <2>2 DEF PrepareImages, Wait, WriteEnv, Trust, StopCore, LaunchSatellite, ScaleDownSatellite,
                settings, serverVars
  <2>3. QED BY <2>1, <2>2
<1>5. /\ ~At("complete") /\ ~At("put") /\ ~At("enable") /\ ~At("uninstall") /\ ~At("template")
  BY DEF PrepareImages, Wait, WriteEnv, Trust, StopCore, CleanConf, LaunchSatellite,
         ScaleDownSatellite, At
<1>6. QED BY <1>1, <1>2, <1>3, <1>4, <1>5, QuietKept

\* Nothing that is left to do changes.
LEMMA StandingKept ==
  ASSUME ServerHost, UNCHANGED <<unit, mounts, image, stuck, store, unmade, todo, flags, gen, kept, legacy>>,
         Login1', conf # 0 => conf' # 0
  PROVE  ServerHost'
<1>1. /\ Left' = Left /\ Made' = Made /\ Due' = Due /\ Present' = Present /\ (Idle <=> Idle')
  BY DEF Left, Made, Due, Present, HasSecret, Idle
<1>2. HostInv'
  BY <1>1 DEF ServerHost, HostInv, UnitsUsable, Removed, Made
<1>3. ServerTodo' /\ unit' \subseteq ServerUnit /\ ("force" \in flags' => kept')
  BY DEF ServerHost, ServerInv, ServerTodo
<1>4. Supplied' /\ PutInPairs' /\ AllPaired'
  BY <1>1 DEF ServerHost, ServerInv, Supplied, PutInPairs, AllPaired, Paired
<1>5. Certified' /\ Known' /\ Inspects'
  BY <1>1 DEF ServerHost, ServerInv, Certified, Known, Inspects
<1>6. QED BY <1>2, <1>3, <1>4, <1>5 DEF ServerHost, ServerInv

LEMMA QuietWorld ==
  ASSUME ServerHost, DiesWhileWaited \/ Disable
  PROVE  ServerHost'
<1>1. UNCHANGED <<unit, mounts, image, stuck, store, unmade, todo, flags, gen, kept, legacy, data, conf>>
  BY DEF DiesWhileWaited, Disable, files, resources, call, history, serverVars
<1>2. Login1 /\ Left' \subseteq Left \cup Defers
  BY <1>1 DEF ServerHost, ServerInv, Left
<1>3. Login1'
  BY <1>1, <1>2, LoginKept
<1>4. QED BY <1>1, <1>3, StandingKept

-----------------------------------------------------------------------------
(* Starting the database and the server *)

LEMMA DBNeeds ==
  ASSUME ServerInv, Startable("db")
  PROVE  Halves({"db"}) \subseteq Present /\ HasSecret(Login)
<1>1. mounts["db"] = DBMounts /\ mounts["db"] \subseteq Present
  BY DEF ServerInv, Inspects, Startable, CanStart
<1>2. Halves({"db"}) \subseteq DBMounts
  BY ServerAssumption DEF DBMounts, Halves
<1>3. Login \in Halves({"db"})
  BY DEF Login, Halves, Half
<1>4. QED BY <1>1, <1>2, <1>3 DEF Present

\* The database and the server take over the login that is in the secrets.
LEMMA LoginStarted ==
  ASSUME ServerInv, NEW us, "db" \in us => Startable("db"),
         data' = IF "db" \in us /\ data = 0 THEN store[Login] ELSE data,
         conf' = IF "server" \in us /\ conf = 0 THEN store[Login] ELSE conf,
         UNCHANGED <<store, kept>>, Left' \subseteq Left \cup Defers,
         Left \cap ({"put"} \X Halves({"db"})) = {}
  PROVE  Login1' /\ (conf # 0 => conf' # 0)
<1>1. Login1 /\ ("db" \in us => store[Login] # 0)
  BY DBNeeds DEF ServerInv, HasSecret
<1>2. SUFFICES ASSUME ~kept', data' # 0 \/ conf' # 0
               PROVE  /\ data' # 0 /\ conf' # 0 => data' = conf'
                      /\ HasSecret(Login)' => store'[Login] \in {data', conf'}
                      /\ \E h \in Half : HasSecret(<<"db", h>>)'
                      /\ Left' \cap ({"put"} \X Halves({"db"})) = {}
  BY DEF Login1, Login, Half, Halves
<1>3. Left' \cap ({"put"} \X Halves({"db"})) = {}
  <2>1. ASSUME NEW x \in Left', x \in {"put"} \X Halves({"db"}) PROVE FALSE
    <3>1. x \notin Defers
      BY <2>1, PairOf, DeferIs
    <3>2. QED BY <2>1, <3>1
  <2>2. QED BY <2>1
<1>4. CASE data = 0 /\ conf = 0
  <2>1. store[Login] # 0 /\ data' \in {0, store[Login]} /\ conf' \in {0, store[Login]}
    BY <1>2, <1>4
  <2>2. \E h \in Half : HasSecret(<<"db", h>>)'
    BY <2>1 DEF Half, HasSecret, Login
  <2>3. QED BY <1>2, <1>3, <2>1, <2>2
<1>5. CASE data # 0 \/ conf # 0
  <2>1. /\ data # 0 /\ conf # 0 => data = conf
        /\ store[Login] # 0 => store[Login] \in {data, conf}
        /\ \E h \in Half : HasSecret(<<"db", h>>)
    BY <1>1, <1>2, <1>5 DEF Login1, HasSecret, Login
  <2>2. \E h \in Half : HasSecret(<<"db", h>>)'
    BY <2>1 DEF HasSecret
  <2>3. data' # 0 /\ conf' # 0 => data' = conf'
    BY <1>1, <1>5, <2>1
  <2>4. HasSecret(Login)' => store'[Login] \in {data', conf'}
    BY <1>1, <1>5, <2>1 DEF HasSecret, Login
  <2>5. QED BY <1>3, <2>2, <2>3, <2>4
<1>6. QED BY <1>4, <1>5

LEMMA NoPutLeft ==
  ASSUME ServerTodo, ~Idle, Head(todo) \in Left, Stage(Head(todo)) \in 2 .. 7, Head(todo)[1] # "put"
  PROVE  /\ Left \cap ({"put"} \X Halves({"db"})) = {}
         /\ \A m \in Secret \ Halves({"admin", "scc"}) : <<"put", m>> \notin Left
         /\ \A c : <<"complete", c>> \in Left => Head(todo)[1] = "complete"
<1>1. \A x \in Left : x = Head(todo) \/ Before(Head(todo), x)
  BY HeadAndTail DEF ServerTodo, Idle, Left
<1>2. \A x \in Left : Stage(x) = 1 => x = Head(todo)
  BY <1>1 DEF Before
<1>3. ASSUME NEW m, m \notin Halves({"admin", "scc"}), <<"put", m>> \in Left PROVE FALSE
  <2>1. Stage(<<"put", m>>) = 1
    BY <1>3 DEF Stage
  <2>2. <<"put", m>> = Head(todo)
    BY <1>2, <1>3, <2>1
  <2>3. QED BY <2>2
<1>4. ASSUME NEW x \in Left, x \in {"put"} \X Halves({"db"}) PROVE FALSE
  <2>1. x[2] \in Halves({"db"}) /\ x = <<"put", x[2]>>
    BY <1>4, PairOf
  <2>2. x[2] \notin Halves({"admin", "scc"})
    BY <2>1 DEF Halves
  <2>3. QED BY <1>3, <1>4, <2>1, <2>2
<1>5. ASSUME NEW c, <<"complete", c>> \in Left PROVE Head(todo)[1] = "complete"
  <2>1. Stage(<<"complete", c>>) = 1
    BY DEF Stage
  <2>2. QED BY <1>2, <1>5, <2>1
<1>6. QED BY <1>3, <1>4, <1>5

LEMMA StartsKept ==
  ASSUME ServerHost, EnableUnit \/ StartCore \/ DeferredStart
  PROVE  ServerHost'
<1>1. ServerInv /\ ServerTodo /\ Login1
  BY DEF ServerHost, ServerInv
<1>2. ServerGoes /\ ~Idle
  BY <1>1, ServerMoves DEF ServerGoes, Goes
<1>3. UNCHANGED <<unit, mounts, image, stuck, store, kept, legacy>>
  BY DEF EnableUnit, StartCore, DeferredStart, files, resources, history, settings
<1>4. unmade \subseteq unmade'
  BY DEF EnableUnit, StartCore, DeferredStart, history, Abort
<1>5. Head(todo)[1] \in {"enable", "start", "defer"}
  BY DEF EnableUnit, StartCore, DeferredStart, At
<1>6. /\ ~At("complete") /\ ~At("put") /\ ~At("uninstall") /\ ~At("template")
  BY <1>5 DEF At
<1>7. Head(todo) \in SetupSteps /\ Head(todo) \in Left
  BY <1>1, <1>2, <1>5, AtSetup DEF ServerTodo
<1>8. Arg \in Core /\ Stage(Head(todo)) \in 2 .. 7
  BY <1>5, <1>7, SetupStepIs DEF Arg, Stage
<1>9. Left \cap ({"put"} \X Halves({"db"})) = {}
  BY <1>1, <1>2, <1>5, <1>7, <1>8, NoPutLeft
<1>10. UnitsFine /\ SecretsFine
  BY <1>1, <1>2, <1>3, <1>4, <1>6, UnitsSame, StoreSame
<1>11. Left' \subseteq Left \cup Defers
  <2>1. Made \subseteq Made'
    BY <1>10 DEF SecretsFine
  <2>2. QED BY <1>2, <1>6, <2>1, GoesIsSteady DEF Steady
<1>12. Login1' /\ (conf # 0 => conf' # 0)
  <2>1. CASE UNCHANGED volumes
    <3>1. data' = data /\ conf' = conf
      BY <2>1 DEF volumes
    <3>2. QED BY <1>1, <1>3, <1>11, <3>1, LoginKept
  <2>2. CASE Startable(Arg) /\ Started(WithDB(Arg))
    <3>1. "db" \in WithDB(Arg) => Startable("db")
      BY <2>2 DEF WithDB
    <3>2. /\ data' = IF "db" \in WithDB(Arg) /\ data = 0 THEN store[Login] ELSE data
          /\ conf' = IF "server" \in WithDB(Arg) /\ conf = 0 THEN store[Login] ELSE conf
      BY <2>2 DEF Started
    <3>3. QED BY <1>1, <1>3, <1>9, <1>11, <3>1, <3>2, LoginStarted
  <2>3. QED BY <2>1, <2>2 DEF EnableUnit, StartCore, DeferredStart
<1>13. At("enable") /\ Arg = "db" /\ ~Ended => Halves({"db"}) \subseteq Present'
  <2>1. SUFFICES ASSUME At("enable"), Arg = "db", ~Ended PROVE Halves({"db"}) \subseteq Present'
    OBVIOUS
  <2>2. EnableUnit
    BY <2>1 DEF StartCore, DeferredStart, At
  <2>3. Startable("db")
    BY <2>1, <2>2, AbortEnds DEF EnableUnit
  <2>4. Present' = Present
    BY <1>3 DEF Present, HasSecret
  <2>5. QED BY <1>1, <2>3, <2>4, DBNeeds
<1>14. QED BY <1>2, <1>3, <1>6, <1>10, <1>12, <1>13, ServerKept

LEMMA RebootKept ==
  ASSUME ServerHost, Reboot
  PROVE  ServerHost'
<1>1. UNCHANGED <<unit, mounts, image, stuck, store, unmade, todo, flags, gen, kept, legacy>>
  BY DEF Reboot, files, resources, call, history, settings
<1>2. ServerInv /\ Left' = Left /\ Left = {}
  BY <1>1, Few DEF ServerHost, Reboot, Idle, Left
<1>3. PICK all : /\ "db" \in all => Startable("db")
                 /\ data' = IF "db" \in all /\ data = 0 THEN store[Login] ELSE data
                 /\ conf' = IF "server" \in all /\ conf = 0 THEN store[Login] ELSE conf
  <2> DEFINE up == {u \in enabled : Startable(u)}
             all == up \cup (IF "server" \in up THEN WithDB("server") ELSE {})
  <2>1. /\ data' = IF "db" \in all /\ data = 0 THEN store[Login] ELSE data
        /\ conf' = IF "server" \in all /\ conf = 0 THEN store[Login] ELSE conf
    BY DEF Reboot
  <2>2. "db" \in all => Startable("db")
    BY DEF WithDB
  <2>3. QED BY <2>1, <2>2
<1>4. Login1' /\ (conf # 0 => conf' # 0)
  BY <1>1, <1>2, <1>3, LoginStarted
<1>5. QED BY <1>1, <1>4, StandingKept

-----------------------------------------------------------------------------
(* Making and removing the secrets of the server *)

LEMMA SecretNames ==
  /\ ServerSecret \subseteq Secret /\ \A c \in Credentials : Halves({c}) \subseteq Secret
  /\ Halves({"db"}) \cap Halves({"admin", "scc"}) = {} /\ TLS \cap Halves(Credentials) = {}
  /\ Halves(DBCredential) \cap Halves({"admin", "scc"}) = {} /\ TLS \cap Halves({"admin", "scc"}) = {}
  /\ "db" \in Credentials /\ Satellite \subseteq {"coco", "hub", "saline", "tftp"}
<1>1. DBCredential \subseteq {"db", "reportdb", "dbadmin"}
  <2>1. Range(AllDBCredentials) \subseteq {"db", "reportdb", "dbadmin"}
    BY DEF Range, AllDBCredentials
  <2>2. QED BY <2>1, ServerAssumption
<1>2. Satellite \subseteq {"coco", "hub", "saline", "tftp"}
  <2>1. Range(SatelliteOrder) \subseteq {"coco", "hub", "saline", "tftp"}
    BY DEF Range, SatelliteOrder
  <2>2. QED BY <2>1, ServerAssumption
<1>3. ServerSecret \subseteq Secret /\ "db" \in Credentials
  BY ServerAssumption DEF Credentials
<1>4. \A c \in Credentials : Halves({c}) \subseteq Halves(Credentials)
  BY DEF Halves
<1>5. Halves(Credentials) \subseteq ServerSecret
  BY DEF ServerSecret
<1>6. "tls" \notin Credentials
  BY <1>1 DEF Credentials
<1>7. TLS \cap Halves(Credentials) = {} /\ TLS \cap Halves({"admin", "scc"}) = {}
  <2>1. ASSUME NEW m \in TLS PROVE m[1] = "tls"
    BY DEF TLS
  <2>2. ASSUME NEW m \in Halves(Credentials) PROVE m[1] \in Credentials
    BY PairOf DEF Halves
  <2>3. Halves({"admin", "scc"}) \subseteq Halves(Credentials)
    BY DEF Halves, Credentials
  <2>4. QED BY <1>6, <2>1, <2>2, <2>3
<1>8. Halves(DBCredential) \cap Halves({"admin", "scc"}) = {}
  <2>1. ASSUME NEW m \in Halves(DBCredential), m \in Halves({"admin", "scc"}) PROVE FALSE
    <3>1. m[1] \in DBCredential /\ m[1] \in {"admin", "scc"}
      BY <2>1, PairOf DEF Halves
    <3>2. QED BY <1>1, <3>1
  <2>2. QED BY <2>1
<1>9. Halves({"db"}) \subseteq Halves(DBCredential)
  BY ServerAssumption DEF Halves
<1>10. QED BY <1>2, <1>3, <1>4, <1>5, <1>7, <1>8, <1>9

\* A secret is made, or lost in the attempt: what is cut is noted.
LEMMA PutKept ==
  ASSUME ServerHost, HostTypeOK,
         \/ PutStep /\ UNCHANGED serverVars
         \/ Interrupt(At("put")) /\ UNCHANGED serverVars
  PROVE  ServerHost'
<1>1. ServerInv /\ ServerTodo /\ Login1 /\ PutInPairs /\ store \in [Secret -> Generation]
  BY DEF ServerHost, ServerInv, HostTypeOK
<1>2. ServerGoes /\ ~Idle /\ gen # 0
  <2>1. ServerGoes
    BY <1>1, ServerMoves
  <2>2. QED BY <2>1 DEF ServerGoes, Goes, ServerHost, HostInv
<1>3. UNCHANGED <<unit, mounts, image, stuck, data, conf, kept, legacy>>
  BY DEF PutStep, Interrupt, services, serverVars
<1>4. ASSUME At("put")
      PROVE  Arg \in ServerSecret /\ Arg \in Secret /\ <<"put", Arg>> \in Left /\ Arg \in Pending
  <2>1. Head(todo)[1] = "put"
    BY <1>4 DEF At
  <2>2. /\ Head(todo) \in SetupSteps /\ Head(todo) \in Left
        /\ Head(todo) = <<Head(todo)[1], Arg>>
    BY <1>1, <1>2, <2>1, AtSetup DEF ServerTodo
  <2>3. Arg \in ServerSecret
    BY <2>1, <2>2, SetupStepIs DEF Arg
  <2>4. <<"put", Arg>> \in Left
    BY <2>1, <2>2
  <2>5. Arg \in Secret
    BY <2>3, SecretNames
  <2>6. PICK i \in DOMAIN todo : todo[i] = <<"put", Arg>>
    BY <2>4 DEF Left, Range
  <2>7. Arg \in Pending
    BY <2>5, <2>6 DEF Pending
  <2>8. QED BY <2>3, <2>4, <2>5, <2>7
<1>5. \/ /\ At("put") /\ store' = [store EXCEPT ![Arg] = gen] /\ unmade' = unmade \ {Arg}
      \/ /\ store' = store \/ (At("put") /\ store' = [store EXCEPT ![Arg] = 0])
         /\ Ended
  <2>1. CASE PutStep
    <3>1. At("put") /\ CreateSecret(gen)
      BY <2>1 DEF PutStep, MadeUp
    <3>2. QED BY <3>1, AbortEnds DEF CreateSecret
  <2>2. CASE Interrupt(At("put"))
    <3>1. Ended
      BY <2>2, InterruptEnds
    <3>2. store' = store \/ (At("put") /\ store' = [store EXCEPT ![Arg] = 0])
      BY <2>2 DEF Interrupt
    <3>3. QED BY <3>1, <3>2
  <2>3. QED BY <2>1, <2>2
<1>6. Made \subseteq Made' /\ (At("put") => Arg \in Made') /\ Present' \subseteq Present \cup {Arg}
      /\ (~At("put") => Present' \subseteq Present) /\ (~Ended => Present \subseteq Present')
  <2>1. CASE At("put") /\ store' = [store EXCEPT ![Arg] = gen] /\ unmade' = unmade \ {Arg}
    <3>1. Present' = Present \cup {Arg}
      BY <1>1, <1>2, <1>4, <2>1 DEF Present, HasSecret
    <3>2. QED BY <2>1, <3>1 DEF Made
  <2>2. CASE store' = store /\ Ended
    <3>1. Present' = Present /\ unmade' = unmade \cup Pending
      BY <2>2 DEF Present, HasSecret, Ended
    <3>2. QED BY <1>4, <2>2, <3>1 DEF Made
  <2>3. CASE At("put") /\ store' = [store EXCEPT ![Arg] = 0] /\ Ended
    <3>1. Present' = Present \ {Arg} /\ unmade' = unmade \cup Pending
      BY <1>1, <1>4, <2>3 DEF Present, HasSecret, Ended
    <3>2. QED BY <1>4, <2>3, <3>1 DEF Made
  <2>4. QED BY <1>5, <2>1, <2>2, <2>3
<1>7. ~At("complete") \/ Ended
  BY <1>5 DEF At
<1>8. Steady
  BY <1>2, <1>6, <1>7, GoesIsSteady
<1>9. SecretsFine
  <2>1. ASSUME NEW c \in Credentials, NEW h \in Half, <<c, h>> \in Present', <<c, h>> \notin Present
        PROVE  Halves({c}) \subseteq Due'
    <3>1. At("put") /\ Arg = <<c, h>>
      BY <1>6, <2>1
    <3>2. <<"put", <<c, h>>>> \in Left
      BY <1>4, <3>1
    <3>3. QED BY <1>1, <1>8, <3>2 DEF PutInPairs, Steady
  <2>2. ASSUME Left' \cap Inspections # {} PROVE Present \subseteq Present'
    <3>1. PICK x \in Left' : x \in Inspections
      BY <2>2
    <3>2. x[1] = "inspected"
      BY <3>1, PairOf DEF Inspections
    <3>3. ~Ended
      BY <3>1, <3>2, DeferIs DEF Ended
    <3>4. QED BY <1>6, <3>3
  <2>3. QED BY <1>6, <2>1, <2>2 DEF SecretsFine
<1>10. UnitsFine
  <2>1. "force" \in flags' => ~At("uninstall") /\ ~At("template")
    BY <1>5 DEF At, Ended
  <2>2. QED BY <1>1, <1>2, <1>3, <2>1, UnitsSame
<1>11. Login1'
  <2>1. ASSUME ~kept', data # 0 \/ conf # 0, NEW h \in Half
        PROVE  store'[<<"db", h>>] = store[<<"db", h>>]
    <3>1. Left \cap ({"put"} \X Halves({"db"})) = {}
      BY <1>1, <1>3, <2>1 DEF Login1
    <3>2. <<"db", h>> \in Halves({"db"}) /\ <<"db", h>> \in Secret
      BY SecretNames DEF Halves
    <3>3. <<"put", <<"db", h>>>> \notin Left
      BY <3>1, <3>2
    <3>4. At("put") => Arg # <<"db", h>>
      BY <1>4, <3>3
    <3>5. QED BY <1>1, <1>5, <3>2, <3>4
  <2>2. QED BY <1>1, <1>3, <1>8, <2>1, LoginKept DEF Steady
<1>12. ~At("enable") \/ Ended
  BY <1>5 DEF At
<1>13. QED BY <1>2, <1>3, <1>6, <1>7, <1>9, <1>10, <1>11, <1>12, ServerKept

\* What has neither half is put in the place of what was to be completed.
LEMMA CompletedTodo ==
  ASSUME ServerTodo, PutIfMissing
  PROVE  /\ ~Idle /\ Arg \in DBCredential /\ <<"complete", Arg>> \in Left /\ gen' = gen
         /\ todo \in Seq(SetupSteps) /\ todo' \in Seq(SetupSteps) /\ Staged(todo')
         /\ todo' # <<>> => flags' = flags
         /\ flags' \subseteq flags
         /\ \A x \in Left : x \in Left' \/ x = <<"complete", Arg>>
         /\ \/ Left' \subseteq Left /\ \E h \in Half : <<Arg, h>> \in Present
            \/ /\ \A h \in Half : ~HasSecret(<<Arg, h>>) /\ <<"put", <<Arg, h>>>> \in Left'
               /\ \A x \in Left' : x \in Left \/ \E h \in Half : x = <<"put", <<Arg, h>>>>
<1> DEFINE p == <<"put", <<Arg, "user">>>>
           q == <<"put", <<Arg, "pass">>>>
           missing == ~HasSecret(<<Arg, "user">>) /\ ~HasSecret(<<Arg, "pass">>)
           puts == Unless(~missing, Steps("put", << <<Arg, "user">>, <<Arg, "pass">> >>))
<1>1. ~Idle /\ Head(todo)[1] = "complete" /\ todo # <<>>
  BY DEF PutIfMissing, At, Idle
<1>2. /\ todo \in Seq(SetupSteps) /\ Head(todo) \in SetupSteps /\ Head(todo) \in Left
      /\ Head(todo) = <<"complete", Arg>>
  BY <1>1, AtSetup DEF ServerTodo
<1>3. Arg \in DBCredential
  BY <1>1, <1>2, SetupStepIs DEF Arg
<1>4. /\ todo' = puts \o Tail(todo) /\ flags' = (IF todo' = <<>> THEN {} ELSE flags)
      /\ gen' = gen
  BY DEF PutIfMissing, GoOn
<1>5. /\ Tail(todo) \in Seq(SetupSteps) /\ Range(todo) = Range(Tail(todo)) \cup {Head(todo)}
      /\ Staged(Tail(todo))
  BY <1>1, <1>2, HeadAndTail DEF ServerTodo
<1>6. p \in SetupSteps /\ q \in SetupSteps
  <2>1. <<Arg, "user">> \in Halves(Credentials) /\ <<Arg, "pass">> \in Halves(Credentials)
    BY <1>3 DEF Halves, Half, Credentials
  <2>2. <<Arg, "user">> \in ServerSecret /\ <<Arg, "pass">> \in ServerSecret
    BY <2>1 DEF ServerSecret
  <2>3. p \in {"put"} \X ServerSecret /\ q \in {"put"} \X ServerSecret
    BY <2>2
  <2>4. QED BY <2>3, Zenon DEF SetupSteps
<1>7. /\ puts \in Seq(SetupSteps) /\ Staged(puts)
      /\ Range(puts) = IF missing THEN {p, q} ELSE {}
      /\ \A x \in Range(puts) : Stage(x) = 1
  <2>1. CASE ~missing
    <3>1. puts = <<>>
      BY <2>1 DEF Unless
    <3> HIDE DEF puts, missing
    <3>2. Range(puts) = {}
      BY <3>1, Few
    <3>3. QED BY <2>1, <3>1, <3>2, Few, StagedFew
  <2>2. CASE missing
    <3>1. puts = <<p>> \o <<q>>
      BY <2>2 DEF Unless, Steps
    <3>2. Stage(p) = 1 /\ Stage(q) = 1
      <4>1. ASSUME NEW h \in Half PROVE <<Arg, h>> \notin Halves({"admin", "scc"})
        <5>1. <<Arg, h>> \in Halves(DBCredential)
          BY <1>3 DEF Halves
        <5>2. QED BY <5>1, SecretNames
      <4>2. QED BY <4>1 DEF Stage, Half
    <3> HIDE DEF puts, p, q, missing
    <3>3. Range(puts) = {p, q} /\ puts \in Seq(SetupSteps)
      <4>1. /\ <<p>> \in Seq(SetupSteps) /\ <<q>> \in Seq(SetupSteps)
            /\ Range(<<p>>) = {p} /\ Range(<<q>>) = {q}
        BY <1>6, Few
      <4>2. /\ <<p>> \o <<q>> \in Seq(SetupSteps)
            /\ Range(<<p>> \o <<q>>) = Range(<<p>>) \cup Range(<<q>>)
        BY <4>1, Concat
      <4>3. QED BY <3>1, <4>1, <4>2
    <3>4. Staged(puts)
      <4>1. /\ <<p>> \in Seq(SetupSteps) /\ <<q>> \in Seq(SetupSteps)
            /\ Range(<<p>>) = {p} /\ Range(<<q>>) = {q} /\ Staged(<<p>>) /\ Staged(<<q>>)
        BY <1>6, Few, StagedFew
      <4>2. \A x \in Range(<<p>>), y \in Range(<<q>>) : Before(x, y)
        BY <3>2, <4>1 DEF Before
      <4>3. QED BY <3>1, <4>1, <4>2, StagedConcat
    <3>5. QED BY <2>2, <3>2, <3>3, <3>4
  <2>3. QED BY <2>1, <2>2
<1>8. missing => \A h \in Half : ~HasSecret(<<Arg, h>>)
  BY DEF Half
<1>9. ~missing => \E h \in Half : <<Arg, h>> \in Present
  <2>1. <<Arg, "user">> \in Secret /\ <<Arg, "pass">> \in Secret
    <3>1. Halves({Arg}) \subseteq Secret
      BY <1>3, SecretNames DEF Credentials
    <3>2. QED BY <3>1 DEF Halves, Half
  <2>2. QED BY <2>1 DEF Present, Half
<1>10. \A h \in Half : <<"put", <<Arg, h>>>> \in {p, q}
  BY DEF Half
<1>11. \A x \in {p, q} : \E h \in Half : x = <<"put", <<Arg, h>>>>
  BY DEF Half
<1> HIDE DEF puts, p, q, missing
<1>12. Left' = Range(puts) \cup Range(Tail(todo)) /\ todo' \in Seq(SetupSteps)
  <2>1. puts \in Seq(SetupSteps) /\ Tail(todo) \in Seq(SetupSteps)
    BY <1>5, <1>7
  <2>2. /\ puts \o Tail(todo) \in Seq(SetupSteps)
        /\ Range(puts \o Tail(todo)) = Range(puts) \cup Range(Tail(todo))
    BY <2>1, Concat
  <2>3. QED BY <1>4, <2>2 DEF Left
<1>13. Staged(todo')
  <2>1. \A x \in Range(puts), y \in Range(Tail(todo)) : Before(x, y)
    BY <1>7, StageIsNumber DEF Before
  <2>2. QED BY <1>4, <1>5, <1>7, <2>1, StagedConcat
<1>14. \A x \in Left : x \in Left' \/ x = <<"complete", Arg>>
  BY <1>2, <1>5, <1>12 DEF Left
<1>15. CASE missing
  <2>1. \A h \in Half : ~HasSecret(<<Arg, h>>) /\ <<"put", <<Arg, h>>>> \in Left'
    BY <1>7, <1>8, <1>10, <1>12, <1>15
  <2>2. \A x \in Left' : x \in Left \/ \E h \in Half : x = <<"put", <<Arg, h>>>>
    BY <1>5, <1>7, <1>11, <1>12, <1>15 DEF Left
  <2>3. QED BY <1>1, <1>2, <1>3, <1>4, <1>12, <1>13, <1>14, <2>1, <2>2
<1>16. CASE ~missing
  <2>1. Left' \subseteq Left
    BY <1>5, <1>7, <1>12, <1>16 DEF Left
  <2>2. QED BY <1>1, <1>2, <1>3, <1>4, <1>9, <1>12, <1>13, <1>14, <1>16, <2>1
<1>17. QED BY <1>15, <1>16

LEMMA CompleteKept ==
  ASSUME ServerHost, PutIfMissing, UNCHANGED serverVars
  PROVE  ServerHost'
<1>1. /\ ServerTodo /\ Supplied /\ AllPaired /\ PutInPairs /\ Certified /\ Known /\ Inspects
      /\ Login1 /\ UnitsUsable /\ Removed /\ ("force" \in flags => kept) /\ unit \subseteq ServerUnit
      /\ (~Idle => gen # 0)
  BY DEF ServerHost, ServerInv, HostInv
<1>2. /\ ~Idle /\ Arg \in DBCredential /\ <<"complete", Arg>> \in Left /\ gen' = gen
      /\ todo' \in Seq(SetupSteps) /\ Staged(todo')
      /\ todo' # <<>> => flags' = flags
      /\ flags' \subseteq flags
      /\ \A x \in Left : x \in Left' \/ x = <<"complete", Arg>>
  BY <1>1, CompletedTodo
<1>3. UNCHANGED <<services, store, unmade, stuck, data, conf, kept, legacy>>
  BY DEF PutIfMissing, resources, history, serverVars
<1>4. UNCHANGED <<unit, mounts, image>> /\ Present' = Present /\ Made' = Made
  BY <1>3 DEF services, Present, HasSecret, Made
<1>5. Due \subseteq Due'
  <2>1. ASSUME NEW m \in Secret, <<"put", m>> \in Left PROVE <<"put", m>> \in Left'
    <3>1. <<"put", m>> # <<"complete", Arg>>
      OBVIOUS
    <3>2. QED BY <1>2, <2>1, <3>1
  <2>2. QED BY <1>4, <2>1 DEF Due
<1>6. Arg \in Credentials /\ Halves({Arg}) \subseteq Secret /\ Halves({Arg}) \cap TLS = {}
  <2>1. Arg \in Credentials
    BY <1>2 DEF Credentials
  <2>2. Halves({Arg}) \subseteq Halves(Credentials)
    BY <2>1 DEF Halves
  <2>3. QED BY <2>1, <2>2, SecretNames
\* Both halves of what is completed are due.
<1>7. Halves({Arg}) \subseteq Due'
  <2>1. CASE \E h \in Half : <<Arg, h>> \in Present
    <3>1. <<"complete", Arg>> \in Left \cap Pairs
      BY <1>2 DEF Pairs
    <3>2. Paired(Arg)
      BY <1>1, <1>6, <3>1 DEF AllPaired
    <3>3. QED BY <1>5, <2>1, <3>2 DEF Paired
  <2>2. CASE \A h \in Half : <<"put", <<Arg, h>>>> \in Left'
    <3>1. ASSUME NEW m \in Halves({Arg}) PROVE m \in Due'
      <4>1. m \in Secret /\ m = <<Arg, m[2]>> /\ m[2] \in Half
        BY <1>6, <3>1, PairOf DEF Halves
      <4>2. <<"put", m>> \in Left'
        BY <2>2, <4>1
      <4>3. QED BY <4>1, <4>2 DEF Due
    <3>2. QED BY <3>1
  <2>3. QED BY <1>1, <2>1, <2>2, CompletedTodo
\* What is new is a half of it, and only if there was none.
<1>8. ASSUME NEW x \in Left', x \notin Left
      PROVE  /\ \E h \in Half : x = <<"put", <<Arg, h>>>>
             /\ \A h \in Half : ~HasSecret(<<Arg, h>>)
  BY <1>1, <1>8, CompletedTodo
<1>9. \A x \in Left' : x \in Left \/ x[1] = "put"
  BY <1>8
<1>10. Supplied'
  <2>1. SUFFICES ASSUME Left' \cap Uses # {}
                 PROVE  /\ TLS \subseteq Due'
                        /\ \A c \in DBCredential :
                             <<"complete", c>> \in Left' \/ Halves({c}) \subseteq Due'
    BY DEF Supplied, Uses, TLS, Halves
  <2>2. \A x \in Uses : x[1] # "put"
    <3>1. ASSUME NEW x \in Uses PROVE x[1] # "put"
      <4>1. \/ x \in {"write"} \X Core \/ x \in {"satellite"} \X Satellite
            \/ x = <<"split", "server">>
        BY <3>1, Zenon DEF Uses
      <4>2. QED BY <4>1, PairOf
    <3>2. QED BY <3>1
  <2>3. Left \cap Uses # {}
    BY <1>9, <2>1, <2>2
  <2>4. /\ TLS \subseteq Due
        /\ \A c \in DBCredential : <<"complete", c>> \in Left \/ Halves({c}) \subseteq Due
    BY <1>1, <2>3 DEF Supplied
  <2>5. ASSUME NEW c \in DBCredential, ~(Halves({c}) \subseteq Due')
        PROVE  <<"complete", c>> \in Left'
    <3>1. c # Arg
      BY <1>7, <2>5
    <3>2. <<"complete", c>> \in Left /\ <<"complete", c>> # <<"complete", Arg>>
      BY <1>5, <2>4, <2>5, <3>1
    <3>3. QED BY <1>2, <3>2
  <2>6. QED BY <1>5, <2>4, <2>5
<1>11. AllPaired'
  <2>1. \A x \in Pairs : x[1] # "put"
    BY PairOf DEF Pairs
  <2>2. "server" \in unit' \/ Left' \cap Pairs # {} => "server" \in unit \/ Left \cap Pairs # {}
    BY <1>4, <1>9, <2>1
  <2>3. \A c \in Credentials, h \in Half :
          <<c, h>> \in Present' => <<c, h>> \in Present \/ Halves({c}) \subseteq Due'
    BY <1>4
  <2>4. QED BY <1>1, <1>5, <2>2, <2>3, PairsKept
<1>12. PutInPairs'
  <2>1. SUFFICES ASSUME NEW c \in Credentials, NEW h \in Half, <<"put", <<c, h>>>> \in Left'
                 PROVE  Halves({c}) \subseteq Due'
    BY DEF PutInPairs, Credentials, Half, Halves
  <2>2. CASE <<"put", <<c, h>>>> \in Left
    BY <1>1, <1>5, <2>2 DEF PutInPairs
  <2>3. CASE <<"put", <<c, h>>>> \notin Left
    <3>1. c = Arg
      BY <1>8, <2>1, <2>3
    <3>2. QED BY <1>7, <3>1
  <2>4. QED BY <2>2, <2>3
<1>13. Certified'
  BY <1>1, <1>3, <1>4, <1>5, CertifiedKept
<1>14. Known'
  <2>1. ASSUME <<"write", "server">> \in Left' PROVE <<"write", "server">> \in Left /\ flags' = flags
    <3>1. todo' # <<>>
      BY <2>1, Few DEF Left
    <3>2. QED BY <1>2, <1>9, <2>1, <3>1
  <2>2. QED BY <1>1, <1>4, <2>1 DEF Known
<1>15. Inspects'
  <2>1. \A x \in {"inspected"} \X Halves({"db"}) : x[1] # "put"
    BY PairOf
  <2>2. <<"enable", "db">> \in Left => <<"enable", "db">> \in Left'
    BY <1>2
  <2>3. Left' \cap ({"inspected"} \X Halves({"db"})) # {} =>
          Left \cap ({"inspected"} \X Halves({"db"})) # {}
    BY <1>9, <2>1
  <2>4. QED BY <1>1, <1>3, <1>4, <2>2, <2>3 DEF Inspects
<1>16. Login1'
  <2>1. ASSUME ~kept, data # 0 \/ conf # 0, NEW x \in Left', x \in {"put"} \X Halves({"db"}) PROVE FALSE
    <3>1. x \notin Left /\ \E h \in Half : HasSecret(<<"db", h>>)
      BY <1>1, <2>1 DEF Login1
    <3>2. PICK h \in Half : x = <<"put", <<Arg, h>>>>
      BY <1>8, <2>1, <3>1
    <3>3. <<Arg, h>> \in Halves({"db"})
      BY <2>1, <3>2, PairOf
    <3>4. Arg = "db"
      BY <3>3 DEF Halves
    <3>5. QED BY <1>8, <2>1, <3>1, <3>4
  <2>2. HasSecret(Login)' <=> HasSecret(Login)
    BY <1>3 DEF HasSecret, Login
  <2>3. \A h \in Half : HasSecret(<<"db", h>>)' <=> HasSecret(<<"db", h>>)
    BY <1>3 DEF HasSecret
  <2>4. SUFFICES ASSUME ~kept, data # 0 \/ conf # 0
                 PROVE  /\ data # 0 /\ conf # 0 => data = conf
                        /\ HasSecret(Login) => store[Login] \in {data, conf}
                        /\ \E h \in Half : HasSecret(<<"db", h>>)
                        /\ Left' \cap ({"put"} \X Halves({"db"})) = {}
    BY <1>3, <2>2, <2>3 DEF Login1, Login, Half, Halves
  <2>5. Left' \cap ({"put"} \X Halves({"db"})) = {}
    BY <2>1, <2>4
  <2>6. QED BY <1>1, <2>4, <2>5 DEF Login1
<1>17. UnitsUsable'
  BY <1>1, <1>3, <1>4, UsableKept
<1>18. Removed'
  <2>1. ASSUME NEW x \in Left' PROVE x \notin {"drop"} \X Secret
    <3>1. x \in SetupSteps
      BY <1>2, <2>1 DEF Left, Range
    <3>2. x[1] # "drop"
      BY <3>1, SetupStepIs
    <3>3. QED BY <3>2, PairOf
  <2>2. QED BY <2>1 DEF Removed
<1>19. HostInv' /\ ServerTodo'
  BY <1>1, <1>2, <1>17, <1>18 DEF HostInv, ServerTodo
<1>20. ServerInv'
  BY <1>1, <1>2, <1>3, <1>4, <1>10, <1>11, <1>12, <1>13, <1>14, <1>15, <1>16, <1>19
     DEF ServerInv, ServerUnit, Core
<1>21. QED BY <1>19, <1>20 DEF ServerHost

LEMMA InspectedKept ==
  ASSUME ServerHost, HostTypeOK, PutInspected
  PROVE  ServerHost'
<1>1. /\ ServerInv /\ ServerTodo /\ Login1 /\ Inspects /\ store \in [Secret -> Generation]
      /\ ("force" \in flags => kept)
  BY DEF ServerHost, ServerInv, HostTypeOK
<1>2. ServerGoes /\ ~Idle
  BY <1>1, ServerMoves DEF ServerGoes, Goes
<1>3. UNCHANGED <<unit, mounts, image, stuck, data, conf, kept, legacy>>
  BY DEF PutInspected, services, serverVars
<1>4. Head(todo)[1] = "inspected"
  BY DEF PutInspected, At
<1>5. /\ todo \in Seq(SetupSteps) /\ Head(todo) \in SetupSteps /\ Head(todo) \in Left
      /\ Head(todo) = <<"inspected", Arg>>
  BY <1>1, <1>2, <1>4, AtSetup DEF ServerTodo
<1>6. Arg \in Halves({"db"}) /\ Arg \in Secret /\ Head(todo) \in Inspections
  <2>1. Arg \in Halves({"db"})
    BY <1>4, <1>5, SetupStepIs DEF Arg
  <2>2. QED BY <1>5, <2>1, SecretNames DEF Inspections
<1>7. Stage(Head(todo)) = 5
  BY <1>4 DEF Stage
<1>8. <<"enable", "db">> \notin Left
  <2>1. Stage(<<"enable", "db">>) = 2 /\ Head(todo) # <<"enable", "db">>
    BY <1>4 DEF Stage
  <2>2. \A x \in Left : x = Head(todo) \/ Before(Head(todo), x)
    BY <1>1, <1>2, HeadAndTail DEF ServerTodo, Idle, Left
  <2>3. QED BY <1>7, <2>1, <2>2 DEF Before
<1>9. conf # 0 /\ Halves({"db"}) \subseteq Present
  BY <1>1, <1>5, <1>6, <1>8 DEF Inspects, Inspections
<1>10. \/ store' = [store EXCEPT ![Arg] = conf] /\ unmade' = unmade \ {Arg}
       \/ /\ store' = store \/ store' = [store EXCEPT ![Arg] = 0]
          /\ unmade' = unmade \cup {Arg} /\ Overlook(Without("coco"))
  BY DEF PutInspected
<1>11. \/ store' = [store EXCEPT ![Arg] = conf] /\ unmade' = unmade \ {Arg} /\ Present' = Present \cup {Arg}
       \/ store' = store /\ unmade' = unmade \cup {Arg} /\ Present' = Present
       \/ /\ store' = [store EXCEPT ![Arg] = 0] /\ unmade' = unmade \cup {Arg}
          /\ Present' = Present \ {Arg}
  BY <1>1, <1>6, <1>9, <1>10 DEF Present, HasSecret
<1>12. Made \subseteq Made'
  BY <1>11 DEF Made
<1>13. ~At("complete") /\ ~At("put") /\ ~At("enable") /\ ~At("uninstall") /\ ~At("template")
  BY <1>4 DEF At
<1>14. Steady
  BY <1>2, <1>12, <1>13, GoesIsSteady
<1>15. SecretsFine
  <2>1. ASSUME NEW c \in Credentials, NEW h \in Half, <<c, h>> \in Present', <<c, h>> \notin Present
        PROVE  Halves({c}) \subseteq Due'
    <3>1. <<c, h>> = Arg
      BY <1>11, <2>1
    <3>2. FALSE
      BY <1>6, <1>9, <2>1, <3>1
    <3>3. QED BY <3>2
  <2>2. ASSUME Left' \cap Inspections # {} PROVE Present \subseteq Present'
    <3>1. CASE Overlook(Without("coco"))
      <4>1. \A x \in Left' : x[1] # "inspected"
        BY <1>1, <1>5, <3>1, WithoutAdvances DEF ServerTodo, PutInspected
      <4>2. \A x \in Inspections : x[1] = "inspected"
        BY PairOf DEF Inspections
      <4>3. QED BY <2>2, <4>1, <4>2
    <3>2. CASE ~Overlook(Without("coco"))
      <4>1. store' = [store EXCEPT ![Arg] = conf]
        BY <1>10, <3>2
      <4>2. Present' = Present \cup {Arg}
        BY <1>1, <1>6, <1>9, <4>1 DEF Present, HasSecret
      <4>3. QED BY <4>2
    <3>3. QED BY <3>1, <3>2
  <2>3. QED BY <1>12, <2>1, <2>2 DEF SecretsFine
<1>16. UnitsFine
  BY <1>1, <1>2, <1>3, <1>13, UnitsSame
<1>17. Login1'
  <2>1. SUFFICES ASSUME ~kept
                 PROVE  /\ data # 0 /\ conf # 0 => data = conf
                        /\ store'[Login] # 0 => store'[Login] \in {data, conf}
                        /\ \E h \in Half : store'[<<"db", h>>] # 0
                        /\ Left' \cap ({"put"} \X Halves({"db"})) = {}
    BY <1>3 DEF Login1, HasSecret, Login, Half, Halves
  <2>2. /\ data # 0 /\ conf # 0 => data = conf
        /\ store[Login] # 0 => store[Login] \in {data, conf}
        /\ Left \cap ({"put"} \X Halves({"db"})) = {}
    BY <1>1, <1>9, <2>1 DEF Login1, HasSecret, Login
  <2>3. Left' \cap ({"put"} \X Halves({"db"})) = {}
    <3>1. ASSUME NEW x \in Left', x \in {"put"} \X Halves({"db"}) PROVE FALSE
      <4>1. x \notin Defers
        BY <3>1, PairOf, DeferIs
      <4>2. QED BY <1>14, <2>2, <3>1, <4>1 DEF Steady
    <3>2. QED BY <3>1
  <2>4. <<"db", "user">> \in Halves({"db"}) /\ <<"db", "pass">> \in Halves({"db"}) /\ Login = <<"db", "pass">>
    BY DEF Halves, Half, Login
  <2>5. /\ store[<<"db", "user">>] # 0 /\ store[<<"db", "pass">>] # 0
        /\ <<"db", "user">> \in Secret /\ <<"db", "pass">> \in Secret
    BY <1>9, <2>4 DEF Present, HasSecret
  <2>6. \/ store' = [store EXCEPT ![Arg] = conf] \/ store' = store
        \/ store' = [store EXCEPT ![Arg] = 0]
    BY <1>10
  <2>7. store'[<<"db", "user">>] # 0 \/ store'[<<"db", "pass">>] # 0
    BY <1>1, <1>6, <1>9, <2>5, <2>6
  <2>8. store'[Login] # 0 => store'[Login] \in {data, conf}
    BY <1>1, <1>6, <2>2, <2>4, <2>5, <2>6
  <2>9. \E h \in Half : store'[<<"db", h>>] # 0
    BY <2>7 DEF Half
  <2>10. QED BY <2>2, <2>3, <2>8, <2>9
<1>18. QED BY <1>2, <1>3, <1>13, <1>15, <1>16, <1>17, ServerKept

LEMMA SplitKept ==
  ASSUME ServerHost, SplitDatabase
  PROVE  ServerHost'
<1>1. ServerInv /\ ServerTodo /\ Login1
  BY DEF ServerHost, ServerInv
<1>2. ServerGoes /\ ~Idle
  BY <1>1, ServerMoves DEF ServerGoes, Goes
<1>3. UNCHANGED <<unit, mounts, image, stuck, store, data, conf, kept>>
  BY DEF SplitDatabase, services, files, resources, volumes
<1>4. unmade \subseteq unmade'
  BY DEF SplitDatabase, Abort
<1>5. Head(todo)[1] = "split"
  BY DEF SplitDatabase, At
<1>6. Head(todo) \in Left /\ Head(todo) \in SetupSteps /\ Head(todo) = <<"split", Arg>>
  BY <1>1, <1>2, <1>5, AtSetup DEF ServerTodo
<1>7. Left \cap Uses # {}
  <2>1. Arg = "server"
    BY <1>5, <1>6, SetupStepIs DEF Arg
  <2>2. QED BY <1>6, <2>1, OfLeft
<1>8. ~At("complete") /\ ~At("put") /\ ~At("enable") /\ ~At("uninstall") /\ ~At("template")
  BY <1>5 DEF At
<1>9. UnitsFine /\ SecretsFine
  BY <1>1, <1>2, <1>3, <1>4, <1>8, UnitsSame, StoreSame
<1>10. Left' \subseteq Left \cup Defers
  BY <1>2, <1>8, <1>9, GoesIsSteady DEF SecretsFine, Steady
<1>11. Login1'
  BY <1>1, <1>3, <1>10, LoginKept
<1>12. QED BY <1>2, <1>3, <1>7, <1>8, <1>9, <1>11, ServerKept

-----------------------------------------------------------------------------
(* Writing the units of the server *)

\* When a unit file is written, what is due was made, but for the credentials that only
\* the server needs.
LEMMA SuppliedNow ==
  ASSUME ServerInv, ~Idle, Head(todo) \in Left, Head(todo) \in Uses, Stage(Head(todo)) \in 2 .. 7
  PROVE  TLS \subseteq Made /\ Halves(DBCredential) \subseteq Made
<1>1. /\ TLS \subseteq Due
      /\ \A c \in DBCredential : <<"complete", c>> \in Left \/ Halves({c}) \subseteq Due
  BY DEF ServerInv, Supplied
<1>2. Head(todo)[1] \notin {"put", "complete"}
  <2>1. \/ Head(todo) \in {"write"} \X Core \/ Head(todo) \in {"satellite"} \X Satellite
        \/ Head(todo) = <<"split", "server">>
    BY Zenon DEF Uses
  <2>2. QED BY <2>1, PairOf
<1>3. /\ \A m \in Secret \ Halves({"admin", "scc"}) : <<"put", m>> \notin Left
      /\ \A c : <<"complete", c>> \notin Left
  BY <1>2, NoPutLeft DEF ServerInv
<1>4. TLS \subseteq Made
  BY <1>1, <1>3, SecretNames DEF Due
<1>5. ASSUME NEW m \in Halves(DBCredential) PROVE m \in Made
  <2>1. m[1] \in DBCredential /\ m[2] \in Half /\ m = <<m[1], m[2]>>
    BY <1>5, PairOf DEF Halves
  <2>2. m \in Halves({m[1]})
    BY <2>1 DEF Halves
  <2>3. m \in Due /\ m \notin Halves({"admin", "scc"})
    BY <1>1, <1>3, <1>5, <2>1, <2>2, SecretNames
  <2>4. QED BY <1>3, <2>3 DEF Due
<1>6. QED BY <1>4, <1>5

LEMMA MountsAre ==
  /\ MountsOf("server") = ServerMounts /\ MountsOf("db") = DBMounts
  /\ \A u \in Satellite : MountsOf(u) \subseteq TLS \cup Halves({"db"})
  /\ \A u \in Core \cup Satellite : MountsOf(u) \subseteq ServerSecret
<1>1. Satellite \subseteq {"coco", "hub", "saline", "tftp"}
  BY SecretNames
<1>2. MountsOf("server") = ServerMounts /\ MountsOf("db") = DBMounts
  BY <1>1 DEF MountsOf
<1>3. ASSUME NEW u \in Satellite PROVE MountsOf(u) \subseteq TLS \cup Halves({"db"})
  <2>1. MountsOf(u) = SatelliteMounts(u)
    BY <1>1, <1>3 DEF MountsOf
  <2>2. SatelliteMounts(u) \in {Halves({"db"}), {}, {<<"tls", "server">>}}
    BY <1>1, <1>3 DEF SatelliteMounts, CocoMounts, SalineMounts, HubMounts, TFTPMounts
  <2>3. QED BY <2>1, <2>2 DEF TLS
<1>4. ServerMounts \subseteq ServerSecret
  BY DEF ServerMounts, ServerSecret, Halves
<1>5. DBMounts \subseteq ServerSecret
  BY DEF DBMounts, ServerSecret, Halves, TLS, Credentials
<1>6. TLS \cup Halves({"db"}) \subseteq ServerSecret
  BY SecretNames DEF ServerSecret, Halves
<1>7. QED BY <1>2, <1>3, <1>4, <1>5, <1>6 DEF Core

LEMMA MountsMade ==
  ASSUME ServerInv, ~Idle, Head(todo) \in Left, Head(todo) = <<"write", Arg>>, Arg \in Core
  PROVE  MountsOf(Arg) \subseteq Made
<1>1. Head(todo) \in Uses
  BY DEF Uses
<1>2. Stage(Head(todo)) = IF Arg = "db" THEN 2 ELSE 4
  BY DEF Stage
<1>3. TLS \subseteq Made /\ Halves(DBCredential) \subseteq Made
  BY <1>1, <1>2, SuppliedNow
<1>4. CASE Arg = "db"
  <2>1. MountsOf(Arg) = DBMounts
    BY <1>4, MountsAre
  <2>2. <<"tls", "db">> \in TLS
    BY DEF TLS
  <2>3. QED BY <1>3, <2>1, <2>2 DEF DBMounts
<1>5. CASE Arg = "server"
  <2>1. MountsOf(Arg) = ServerMounts
    BY <1>5, MountsAre
  <2>2. ASSUME NEW m \in Halves({c \in Credentials \ {"dbadmin"} : HasSecret(<<c, "user">>)})
        PROVE  m \in Made
    <3>1. /\ m[1] \in Credentials /\ HasSecret(<<m[1], "user">>) /\ m[2] \in Half
          /\ m = <<m[1], m[2]>>
      <4>1. /\ m[1] \in {c \in Credentials \ {"dbadmin"} : HasSecret(<<c, "user">>)} /\ m[2] \in Half
            /\ m = <<m[1], m[2]>>
        BY <2>2, PairOf DEF Halves
      <4>2. QED BY <4>1
    <3>2. m \in Halves({m[1]}) /\ <<m[1], "user">> \in Halves({m[1]})
      BY <3>1 DEF Halves, Half
    <3>3. <<m[1], "user">> \in Present
      BY <3>1, <3>2, SecretNames DEF Present
    <3>4. Head(todo) \in Pairs
      BY <1>5 DEF Pairs
    <3>5. Paired(m[1])
      BY <3>1, <3>4 DEF ServerInv, AllPaired
    <3>6. m \in Due
      BY <3>2, <3>3, <3>5 DEF Paired, Half
    <3>7. <<"put", m>> \notin Left
      <4>1. Stage(<<"put", m>>) \in {1, 3} /\ Head(todo) # <<"put", m>> /\ Stage(Head(todo)) = 4
        BY <1>2, <1>5 DEF Stage
      <4>2. \A x \in Left : x = Head(todo) \/ Before(Head(todo), x)
        BY HeadAndTail DEF ServerInv, ServerTodo, Idle, Left
      <4>3. QED BY <4>1, <4>2 DEF Before
    <3>8. QED BY <3>6, <3>7 DEF Due
  <2>3. QED BY <1>3, <2>1, <2>2 DEF ServerMounts
<1>6. QED BY <1>4, <1>5 DEF Core

LEMMA WriteKept ==
  ASSUME ServerHost, HostTypeOK, WriteCore
  PROVE  ServerHost'
<1>1. ServerInv /\ ServerTodo /\ Login1 /\ Inspects /\ unit \subseteq ServerUnit
      /\ mounts \in [Unit -> SUBSET Secret] /\ image \in [Unit -> Ref \cup {"none", "absent"}]
  BY DEF ServerHost, ServerInv, HostTypeOK
<1>2. ServerGoes /\ ~Idle
  BY <1>1, ServerMoves DEF ServerGoes, Goes
<1>3. UNCHANGED <<store, data, conf, kept, legacy>>
  BY DEF WriteCore, resources, serverVars
<1>4. unmade \subseteq unmade'
  BY DEF WriteCore, Abort
<1>5. Head(todo)[1] = "write"
  BY DEF WriteCore, At
<1>6. /\ todo \in Seq(SetupSteps) /\ Head(todo) \in Left /\ Head(todo) \in SetupSteps
      /\ Head(todo) = <<"write", Arg>>
  BY <1>1, <1>2, <1>5, AtSetup DEF ServerTodo
<1>7. Arg \in Core /\ Arg \in Unit /\ Arg \in ServerUnit /\ "server" \in Unit /\ "db" \in Unit
  <2>1. Arg \in Core
    BY <1>5, <1>6, SetupStepIs DEF Arg
  <2>2. QED BY <2>1, ServerAssumption DEF ServerUnit, Core
<1>8. ~At("complete") /\ ~At("put") /\ ~At("enable") /\ ~At("uninstall") /\ ~At("template")
  BY <1>5 DEF At
<1>9. SecretsFine
  BY <1>3, <1>4, StoreSame
<1>10. MountsOf(Arg) \subseteq Made'
  BY <1>1, <1>2, <1>6, <1>7, <1>9, MountsMade DEF SecretsFine
<1>11. Left' \subseteq Left \cup Defers
  BY <1>2, <1>8, <1>9, GoesIsSteady DEF SecretsFine, Steady
<1>12. Login1'
  BY <1>1, <1>3, <1>11, LoginKept
<1>13. ~(todo \in Seq(RemovalSteps))
  BY <1>2, <1>5, HeadAndTail, RemovalStepIs DEF Idle
<1>14. UnitsFine
  <2>1. CASE \E ref : WriteUnit(Arg, MountsOf(Arg), ref)
    <3>1. PICK ref : WriteUnit(Arg, MountsOf(Arg), ref)
      BY <2>1
    <3>2. /\ unit' = unit \cup {Arg} /\ mounts' = [mounts EXCEPT ![Arg] = MountsOf(Arg)]
          /\ image' = [image EXCEPT ![Arg] = ref] /\ stuck' = stuck \ {Arg}
      BY <3>1 DEF WriteUnit
    <3>3. unit' \subseteq ServerUnit
      BY <1>1, <1>7, <3>2
    <3>4. "server" \in unit' => "server" \in unit \/ <<"write", "server">> \in Left
      BY <1>6, <3>2
    <3>5. image'["server"] # "none" => image["server"] # "none" \/ "server" \in unit'
      BY <1>1, <1>7, <3>2
    <3>6. "db" \in unit' => mounts'["db"] = DBMounts
      <4>1. CASE Arg = "db"
        BY <1>1, <1>7, <3>2, <4>1, MountsAre
      <4>2. CASE Arg # "db"
        BY <1>1, <1>7, <3>2, <4>2 DEF Inspects
      <4>3. QED BY <4>1, <4>2
    <3>7. ASSUME NEW u \in unit' \ stuck', ~(u \in unit \ stuck /\ mounts'[u] = mounts[u])
          PROVE  mounts'[u] \subseteq Made'
      <4>1. u \in Unit
        BY <1>7, <3>2, <3>3, <3>7, ServerAssumption
      <4>2. CASE u = Arg
        BY <1>1, <1>7, <1>10, <3>2, <4>2
      <4>3. CASE u # Arg
        BY <1>1, <3>2, <3>7, <4>1, <4>3
      <4>4. QED BY <4>2, <4>3
    <3>8. QED BY <1>13, <3>2, <3>3, <3>4, <3>5, <3>6, <3>7 DEF UnitsFine
  <2>2. CASE UNCHANGED <<files, stuck>>
    <3>1. UNCHANGED <<unit, mounts, image, stuck>>
      BY <2>2 DEF files
    <3>2. QED BY <1>1, <1>2, <1>8, <3>1, UnitsSame
  <2>3. CASE /\ Arg = "server" /\ ~Set("install") /\ UNCHANGED <<unit, mounts, stuck>>
             /\ \E ref \in names[Arg] : image' = [image EXCEPT ![Arg] = ref]
    <3>1. "server" \in unit
      BY <1>1, <1>6, <2>3 DEF ServerInv, Known, Set
    <3>2. QED BY <1>1, <1>13, <2>3, <3>1 DEF UnitsFine, Inspects
  <2>4. QED BY <2>1, <2>2, <2>3 DEF WriteCore
<1>15. Left \cap Uses # {}
  BY <1>6, <1>7, OfLeft DEF Core
<1>16. QED BY <1>2, <1>3, <1>8, <1>9, <1>12, <1>14, <1>15, ServerKept

LEMMA SatelliteKept ==
  ASSUME ServerHost, HostTypeOK, PrepareSatellite
  PROVE  ServerHost'
<1>1. ServerInv /\ ServerTodo /\ Login1 /\ Inspects /\ unit \subseteq ServerUnit
      /\ mounts \in [Unit -> SUBSET Secret] /\ image \in [Unit -> Ref \cup {"none", "absent"}]
  BY DEF ServerHost, ServerInv, HostTypeOK
<1>2. ServerGoes /\ ~Idle
  BY <1>1, ServerMoves DEF ServerGoes, Goes
<1>3. UNCHANGED <<store, unmade, data, conf, kept, legacy>>
  BY DEF PrepareSatellite, serverVars
<1>4. Head(todo)[1] = "satellite"
  BY DEF PrepareSatellite, At
<1>5. /\ Head(todo) \in Left /\ Head(todo) \in SetupSteps /\ Head(todo) = <<"satellite", Arg>>
  BY <1>1, <1>2, <1>4, AtSetup DEF ServerTodo
<1>6. /\ Arg \in Satellite /\ Arg \in Unit /\ Arg \in ServerUnit /\ Arg # "server" /\ Arg # "db"
      /\ "server" \in Unit /\ "db" \in Unit
  <2>1. Arg \in Satellite
    BY <1>4, <1>5, SetupStepIs DEF Arg
  <2>2. QED BY <2>1, ServerAssumption, SecretNames DEF ServerUnit, Core
<1>7. ~At("complete") /\ ~At("put") /\ ~At("enable") /\ ~At("uninstall") /\ ~At("template")
  BY <1>4 DEF At
<1>8. SecretsFine
  BY <1>3, StoreSame
<1>9. MountsOf(Arg) \subseteq Made'
  <2>1. Head(todo) \in Uses
    BY <1>5, <1>6, OfLeft
  <2>2. Stage(Head(todo)) = 6
    BY <1>4 DEF Stage
  <2>3. TLS \subseteq Made /\ Halves(DBCredential) \subseteq Made
    BY <1>1, <1>2, <1>5, <2>1, <2>2, SuppliedNow
  <2>4. Halves({"db"}) \subseteq Halves(DBCredential)
    BY ServerAssumption DEF Halves
  <2>5. MountsOf(Arg) \subseteq TLS \cup Halves({"db"})
    BY <1>6, MountsAre
  <2>6. QED BY <1>8, <2>3, <2>4, <2>5 DEF SecretsFine
<1>10. Left' \subseteq Left \cup Defers
  BY <1>2, <1>7, <1>8, GoesIsSteady DEF SecretsFine, Steady
<1>11. Login1'
  BY <1>1, <1>3, <1>10, LoginKept
<1>12. ~(todo \in Seq(RemovalSteps))
  BY <1>2, <1>4, HeadAndTail, RemovalStepIs DEF Idle
<1>13. UnitsFine
  <2>1. CASE \E ref : WriteUnit(Arg, MountsOf(Arg), ref)
    <3>1. PICK ref : WriteUnit(Arg, MountsOf(Arg), ref)
      BY <2>1
    <3>2. /\ unit' = unit \cup {Arg} /\ mounts' = [mounts EXCEPT ![Arg] = MountsOf(Arg)]
          /\ image' = [image EXCEPT ![Arg] = ref] /\ stuck' = stuck \ {Arg}
      BY <3>1 DEF WriteUnit
    <3>3. unit' \subseteq ServerUnit
      BY <1>1, <1>6, <3>2
    <3>4. "server" \in unit' => "server" \in unit
      BY <1>6, <3>2
    <3>5. image'["server"] = image["server"]
      BY <1>1, <1>6, <3>2
    <3>6. "db" \in unit' => mounts'["db"] = DBMounts
      BY <1>1, <1>6, <3>2 DEF Inspects
    <3>7. ASSUME NEW u \in unit' \ stuck', ~(u \in unit \ stuck /\ mounts'[u] = mounts[u])
          PROVE  mounts'[u] \subseteq Made'
      <4>1. u \in Unit
        BY <3>3, <3>7, ServerAssumption
      <4>2. CASE u = Arg
        BY <1>1, <1>6, <1>9, <3>2, <4>2
      <4>3. CASE u # Arg
        BY <1>1, <3>2, <3>7, <4>1, <4>3
      <4>4. QED BY <4>2, <4>3
    <3>8. QED BY <1>12, <3>2, <3>3, <3>4, <3>5, <3>6, <3>7 DEF UnitsFine
  <2>2. CASE UNCHANGED <<files, stuck>>
    <3>1. UNCHANGED <<unit, mounts, image, stuck>>
      BY <2>2 DEF files
    <3>2. QED BY <1>1, <1>2, <1>7, <3>1, UnitsSame
  <2>3. QED BY <2>1, <2>2 DEF PrepareSatellite, WriteSatellite
<1>14. Left \cap Uses # {}
  BY <1>5, <1>6, OfLeft
<1>15. QED BY <1>2, <1>3, <1>7, <1>8, <1>11, <1>13, <1>14, ServerKept

-----------------------------------------------------------------------------
(* Removing the server *)

LEMMA RemoveUnitDoes ==
  ASSUME HostTypeOK, NEW u \in Unit, NEW bound, RemoveUnit(u, bound)
  PROVE  /\ unit' \subseteq unit /\ unit' \ stuck' = (unit \ stuck) \ {u}
         /\ \A v \in unit' : mounts'[v] = mounts[v]
         /\ \A v \in Unit : image'[v] = IF v = u THEN "none" ELSE image[v]
         /\ \A v \in Unit \ {u} : v \in unit => v \in unit'
<1>1. /\ mounts \in [Unit -> SUBSET Secret] /\ image \in [Unit -> Ref \cup {"none", "absent"}]
      /\ unit \subseteq Unit
  BY DEF HostTypeOK
<1>2. image' = [image EXCEPT ![u] = "none"]
  BY DEF RemoveUnit
<1>3. CASE RemoveFiles(u)
  <2>1. unit' = unit \ {u} /\ mounts' = [mounts EXCEPT ![u] = {}] /\ stuck' = stuck \ {u}
    BY <1>3 DEF RemoveFiles
  <2>2. QED BY <1>1, <1>2, <2>1
<1>4. CASE ~RemoveFiles(u)
  <2>1. unit' = unit /\ mounts' = mounts /\ stuck' = stuck \cup {u}
    BY <1>4 DEF RemoveUnit
  <2>2. QED BY <1>1, <1>2, <2>1
<1>5. QED BY <1>3, <1>4

LEMMA RemovesKept ==
  ASSUME ServerHost, HostTypeOK,
         \/ UninstallInstantiated /\ UNCHANGED serverVars
         \/ UninstallServerService
  PROVE  ServerHost'
<1>1. ServerInv /\ ServerTodo /\ Login1 /\ Inspects /\ unit \subseteq ServerUnit
  BY DEF ServerHost, ServerInv
<1>2. ServerGoes /\ ~Idle
  <2>1. UninstallInstantiated \/ \E b : UninstallService(b)
    BY DEF UninstallServerService
  <2>2. ServerGoes
    BY <1>1, <2>1, ServerMoves
  <2>3. QED BY <2>2 DEF ServerGoes, Goes
<1>3. UNCHANGED <<store, unmade, data, conf, kept>> /\ ("localhost" \in legacy => "localhost" \in legacy')
  BY DEF UninstallInstantiated, UninstallServerService, UninstallService, resources, serverVars, volumes
<1>4. Head(todo)[1] \in {"template", "uninstall"}
  BY DEF UninstallInstantiated, UninstallServerService, UninstallService, At
<1>5. /\ todo \in Seq(RemovalSteps) /\ Head(todo) \in Left /\ Head(todo) \in RemovalSteps
      /\ Head(todo) = <<Head(todo)[1], Arg>>
  BY <1>1, <1>2, <1>4, AtRemoval DEF ServerTodo
<1>6. Arg \in ServerUnit /\ Arg \in Unit /\ "server" \in Unit /\ "db" \in Unit
  BY <1>4, <1>5, RemovalStepIs, ServerAssumption DEF Arg, ServerUnit, Core
<1>7. ~At("complete") /\ ~At("put") /\ ~At("enable")
  BY <1>4 DEF At
<1>8. SecretsFine
  BY <1>3, StoreSame
<1>9. Left' \subseteq Left \cup Defers
  BY <1>2, <1>7, <1>8, GoesIsSteady DEF SecretsFine, Steady
<1>10. Login1'
  BY <1>1, <1>3, <1>9, LoginKept
<1>11. UnitsFine
  <2>1. <<"write", "server">> \notin Left /\ <<"write", "server">> \notin Left'
    <3>1. ASSUME <<"write", "server">> \in Left PROVE FALSE
      <4>1. <<"write", "server">> \in RemovalSteps
        BY <1>5, <3>1 DEF Left, Range
      <4>2. QED BY <4>1, RemovalStepIs
    <3>2. QED BY <1>9, <3>1, OfLeft
  <2>2. CASE \E b : RemoveUnit(Arg, b)
    <3>1. /\ unit' \subseteq unit /\ unit' \ stuck' = (unit \ stuck) \ {Arg}
          /\ \A v \in unit' : mounts'[v] = mounts[v]
          /\ \A v \in Unit : image'[v] = IF v = Arg THEN "none" ELSE image[v]
          /\ \A v \in Unit \ {Arg} : v \in unit => v \in unit'
      BY <1>6, <2>2, RemoveUnitDoes
    <3>2. ASSUME NEW u \in unit' \ stuck'
          PROVE  u \in unit \ stuck /\ Head(todo) \notin {<<"uninstall", u>>, <<"template", u>>}
      <4>1. u \in unit \ stuck /\ u # Arg
        BY <3>1, <3>2
      <4>2. QED BY <1>5, <4>1
    <3>3. /\ image'["server"] # "none" => image["server"] # "none"
          /\ "server" \in unit => "server" \in unit' \/ image'["server"] = "none"
          /\ "db" \in unit' => mounts'["db"] = DBMounts
      BY <1>1, <1>6, <3>1 DEF Inspects
    <3>4. QED BY <1>1, <2>1, <3>1, <3>2, <3>3 DEF UnitsFine
  <2>3. CASE UNCHANGED <<services, stuck>> /\ (~Set("force") \/ Arg \notin unit)
    <3>1. UNCHANGED <<unit, mounts, image, stuck>>
      BY <2>3 DEF services
    <3>2. ASSUME "force" \in flags', NEW u \in unit' \ stuck'
          PROVE  u \in unit \ stuck /\ Head(todo) \notin {<<"uninstall", u>>, <<"template", u>>}
      <4>1. "force" \in flags
        BY <1>2, <3>2 DEF ServerGoes, Goes, Ended, Core
      <4>2. u \in unit \ stuck /\ u # Arg
        BY <2>3, <3>1, <3>2, <4>1 DEF Set
      <4>3. QED BY <1>5, <4>2
    <3>3. QED BY <1>1, <1>2, <3>1, <3>2 DEF UnitsFine, ServerGoes, Goes, Inspects
  <2>4. QED BY <2>2, <2>3 DEF UninstallInstantiated, UninstallServerService, UninstallService
<1>12. "server" \in unit' => "server" \in unit
  BY <1>6, <1>11, <1>5, RemovalStepIs DEF UnitsFine, Left, Range
<1>13. QED BY <1>2, <1>3, <1>7, <1>8, <1>10, <1>11, <1>12, ServerKept

LEMMA PurgeVolumeKept ==
  ASSUME ServerHost, PurgeVolume
  PROVE  ServerHost'
<1>1. ServerInv /\ ServerTodo /\ Login1 /\ ("force" \in flags => kept)
  BY DEF ServerHost, ServerInv
<1>2. ServerGoes /\ ~Idle
  BY <1>1, ServerMoves DEF ServerGoes, Goes
<1>3. UNCHANGED <<unit, mounts, image, stuck, store, unmade, kept, legacy>>
  BY DEF PurgeVolume, services, files, resources, history, settings
<1>4. Head(todo)[1] = "volume"
  BY DEF PurgeVolume, At
<1>5. todo \in Seq(RemovalSteps)
  BY <1>1, <1>2, <1>4, AtRemoval DEF ServerTodo
<1>6. ~At("complete") /\ ~At("put") /\ ~At("enable") /\ ~At("uninstall") /\ ~At("template")
  BY <1>4 DEF At
<1>7. SecretsFine /\ UnitsFine
  BY <1>1, <1>2, <1>3, <1>6, StoreSame, UnitsSame
<1>8. Left' \subseteq Left \cup Defers
  BY <1>2, <1>6, <1>7, GoesIsSteady DEF SecretsFine, Steady
<1>9. Login1'
  <2>1. ~kept' => data' = data /\ conf' = conf
    BY <1>1, <1>3 DEF PurgeVolume, Pretend, Set, volumes
  <2>2. QED BY <1>1, <1>3, <1>8, <2>1, LoginKept
<1>10. Left' \cap Inspections = {}
  <2>1. ASSUME NEW x \in Left', x \in Inspections PROVE FALSE
    <3>1. x[1] = "inspected"
      BY <2>1, PairOf DEF Inspections
    <3>2. x \in Left
      BY <1>8, <2>1, <3>1, DeferIs
    <3>3. x \in RemovalSteps
      BY <1>5, <3>2 DEF Left, Range
    <3>4. QED BY <3>1, <3>3, RemovalStepIs
  <2>2. QED BY <2>1
<1>11. QED BY <1>2, <1>3, <1>6, <1>7, <1>9, <1>10, ServerKept

\* Units are removed before secrets: without one that has stayed none is left.
LEMMA UnitsGone ==
  ASSUME Removed, Staged(todo), "force" \in flags, stuck = {}, todo \in Seq(RemovalSteps)
         \/ todo \in Seq(ProxyRemovalSteps), ~Idle, Head(todo) = <<"drop", Arg>>, Arg \in Secret
  PROVE  unit = {}
<1>1. Head(todo) \in Left /\ \A x \in Left : x = Head(todo) \/ Before(Head(todo), x)
  BY HeadAndTail DEF Idle, Left
<1>2. \A u \in unit : <<"uninstall", u>> \in Left \/ <<"template", u>> \in Left
  <2>1. Head(todo) \in {"drop"} \X Secret
    OBVIOUS
  <2>2. Left \cap ({"drop"} \X Secret) # {}
    BY <1>1, <2>1
  <2>3. QED BY <2>2 DEF Removed
<1>3. ASSUME NEW u \in unit PROVE FALSE
  <2>1. PICK x \in Left : x[1] \in {"uninstall", "template"}
    BY <1>2, <1>3
  <2>2. Stage(x) = 1 /\ Stage(Head(todo)) = 2 /\ x # Head(todo)
    BY <2>1 DEF Stage
  <2>3. QED BY <1>1, <2>1, <2>2 DEF Before
<1>4. QED BY <1>3

LEMMA DropKept ==
  ASSUME ServerHost, HostTypeOK, DropSecret, UNCHANGED serverVars
  PROVE  ServerHost'
<1>1. /\ ServerInv /\ ServerTodo /\ Login1 /\ Inspects /\ AllPaired /\ ("force" \in flags => kept)
      /\ Removed /\ UnitsUsable /\ Known /\ store \in [Secret -> Generation] /\ (~Idle => gen # 0)
  BY DEF ServerHost, ServerInv, HostInv, HostTypeOK
<1>2. ServerGoes /\ ~Idle
  BY <1>1, ServerMoves DEF ServerGoes, Goes
<1>3. UNCHANGED <<unit, mounts, image, stuck, data, conf, kept, legacy>>
  BY DEF DropSecret, services, serverVars
<1>4. Head(todo)[1] = "drop"
  BY DEF DropSecret, At
<1>5. /\ todo \in Seq(RemovalSteps) /\ Head(todo) \in Left /\ Head(todo) \in RemovalSteps
      /\ Head(todo) = <<"drop", Arg>>
  BY <1>1, <1>2, <1>4, AtRemoval DEF ServerTodo
<1>6. Arg \in ServerSecret /\ Arg \notin Halves({"scc"}) /\ Arg \in Secret
  BY <1>4, <1>5, RemovalStepIs, SecretNames DEF Arg
<1>7. ~At("complete") /\ ~At("put") /\ ~At("enable") /\ ~At("uninstall") /\ ~At("template")
  BY <1>4 DEF At
<1>8. CASE UNCHANGED <<store, unmade>>
  BY <1>2, <1>3, <1>7, <1>8, QuietKept
<1>9. CASE Set("force") /\ store' = [store EXCEPT ![Arg] = 0] /\ stuck # {} /\ unmade' = unmade \cup {Arg}
  <2>1. Present' = Present \ {Arg}
    BY <1>1, <1>6, <1>9 DEF Present, HasSecret
  <2>2. Made \subseteq Made'
    BY <1>9, <2>1 DEF Made
  <2>3. Left' \subseteq Left \cup Defers
    BY <1>2, <1>7, <2>2, GoesIsSteady DEF Steady
  <2>4. Left' \cap Inspections = {}
    <3>1. ASSUME NEW x \in Left', x \in Inspections PROVE FALSE
      <4>1. x[1] = "inspected"
        BY <3>1, PairOf DEF Inspections
      <4>2. x \in Left
        BY <2>3, <3>1, <4>1, DeferIs
      <4>3. x \in RemovalSteps
        BY <1>5, <4>2 DEF Left, Range
      <4>4. QED BY <4>1, <4>3, RemovalStepIs
    <3>2. QED BY <3>1
  <2>5. SecretsFine
    BY <2>1, <2>2, <2>4 DEF SecretsFine
  <2>6. UnitsFine
    BY <1>1, <1>2, <1>3, <1>7, UnitsSame
  <2>7. kept'
    BY <1>1, <1>3, <1>9 DEF Set
  <2>8. Login1'
    BY <2>7 DEF Login1
  <2>9. QED BY <1>2, <1>3, <1>7, <2>4, <2>5, <2>6, <2>8, ServerKept
<1>10. CASE Set("force") /\ store' = [store EXCEPT ![Arg] = 0] /\ stuck = {} /\ unmade' = unmade \ {Arg}
            /\ Continue
  <2>1. unit = {} /\ unit' = {} /\ kept'
    BY <1>1, <1>2, <1>3, <1>5, <1>6, <1>10, UnitsGone DEF ServerTodo, Set
  <2>2. /\ todo' \in Seq(RemovalSteps) /\ Staged(todo') /\ Left' \subseteq Left /\ flags' \subseteq flags
    BY <1>1, <1>2, <1>5, <1>10, ContinueAdvances DEF ServerTodo, Advanced
  <2>3. ASSUME NEW x \in Left'
        PROVE  x[1] \notin {"put", "complete", "write", "satellite", "split", "inspected"}
    <3>1. x \in RemovalSteps
      BY <2>2, <2>3 DEF Left, Range
    <3>2. QED BY <3>1, RemovalStepIs
  <2>4. Left' \cap Uses = {}
    <3>1. ASSUME NEW x \in Uses PROVE x[1] \in {"write", "satellite", "split"}
      <4>1. \/ x \in {"write"} \X Core \/ x \in {"satellite"} \X Satellite
            \/ x = <<"split", "server">>
        BY <3>1, Zenon DEF Uses
      <4>2. QED BY <4>1, PairOf
    <3>2. QED BY <2>3, <3>1
  <2>5. Left' \cap Pairs = {}
    <3>1. ASSUME NEW x \in Pairs PROVE x[1] \in {"write", "complete"}
      <4>1. x = <<"write", "server">> \/ x \in {"complete"} \X DBCredential
        BY <3>1 DEF Pairs
      <4>2. QED BY <4>1, PairOf
    <3>2. QED BY <2>3, <3>1
  <2>6. Left' \cap Inspections = {}
    BY <2>3, PairOf DEF Inspections
  <2>7. Supplied' /\ PutInPairs' /\ Certified' /\ Login1'
    <3>1. Supplied'
      BY <2>4 DEF Supplied, Uses
    <3>2. PutInPairs'
      <4>1. ASSUME NEW m PROVE <<"put", m>> \notin Left'
        BY <2>3
      <4>2. QED BY <4>1 DEF PutInPairs
    <3>3. Certified'
      BY <2>1 DEF Certified
    <3>4. Login1'
      BY <2>1 DEF Login1
    <3>5. QED BY <3>1, <3>2, <3>3, <3>4
  <2>8. AllPaired'
    <3>1. Present' = Present \ {Arg}
      BY <1>1, <1>6, <1>10 DEF Present, HasSecret
    <3>2. ASSUME NEW h \in Half, <<"scc", h>> \in Present' PROVE Halves({"scc"}) \subseteq Due'
      <4>1. Halves({"scc"}) \subseteq Due
        BY <1>1, <3>1, <3>2 DEF AllPaired, Paired
      <4>2. ASSUME NEW m \in Halves({"scc"}) PROVE m \in Due'
        <5>1. m \in Due /\ m # Arg
          BY <1>6, <4>1, <4>2
        <5>2. <<"put", m>> \notin Left
          <6>1. ASSUME <<"put", m>> \in Left PROVE FALSE
            <7>1. <<"put", m>> \in RemovalSteps
              BY <1>5, <6>1 DEF Left, Range
            <7>2. QED BY <7>1, RemovalStepIs
          <6>2. QED BY <6>1
        <5>3. m \in Made
          BY <5>1, <5>2 DEF Due
        <5>4. m \in Made'
          BY <1>10, <3>1, <5>1, <5>3 DEF Made
        <5>5. QED BY <5>4 DEF Due
      <4>3. QED BY <4>2
    <3>3. Paired("scc")'
      BY <3>2 DEF Paired, Half, Halves
    <3>4. QED BY <2>1, <2>5, <3>3 DEF AllPaired, Pairs
  <2>9. Known' /\ Inspects'
    <3>1. Known'
      <4>1. <<"write", "server">> \notin Left'
        BY <2>3
      <4>2. QED BY <1>1, <1>3, <4>1 DEF Known
    <3>2. Inspects'
      BY <2>1, <2>6 DEF Inspects, Inspections
    <3>3. QED BY <3>1, <3>2
  <2>10. UnitsUsable' /\ Removed' /\ (~Idle' => gen' # 0)
    BY <1>1, <1>2, <2>1 DEF UnitsUsable, Removed, ServerGoes, Goes
  <2>11. HostInv'
    BY <2>10 DEF HostInv
  <2>12. ServerTodo' /\ unit' \subseteq ServerUnit /\ ("force" \in flags' => kept')
    BY <2>1, <2>2 DEF ServerTodo
  <2>13. ServerInv'
    BY <2>7, <2>8, <2>9, <2>12 DEF ServerInv
  <2>14. QED BY <2>11, <2>13 DEF ServerHost
<1>11. QED BY <1>8, <1>9, <1>10 DEF DropSecret

-----------------------------------------------------------------------------
(* The steps of whole commands *)

\* Steps of S of the stages from a to b, in their order.
Piece(s, S, a, b) ==
  /\ s \in Seq(S) /\ Staged(s) /\ \A x \in Range(s) : Stage(x) = 0 \/ Stage(x) \in a .. b

LEMMA PieceOf ==
  ASSUME NEW S, NEW s \in Seq(S), NEW k \in Nat, \A x \in Range(s) : Stage(x) \in {0, k}
  PROVE  Piece(s, S, k, k)
<1>1. \A i \in DOMAIN s : Stage(s[i]) \in {0, k}
  BY DEF Range
<1>2. Staged(s)
  BY <1>1 DEF Staged
<1>3. QED BY <1>2 DEF Piece

LEMMA Joined ==
  ASSUME NEW S, NEW s, NEW t, NEW a \in Nat, NEW b \in Nat, NEW c \in Nat, NEW d \in Nat,
         Piece(s, S, a, b), Piece(t, S, c, d), a <= b, b <= c, c <= d
  PROVE  Piece(s \o t, S, a, d) /\ Range(s \o t) = Range(s) \cup Range(t)
<1>1. /\ s \in Seq(S) /\ Staged(s) /\ \A x \in Range(s) : Stage(x) = 0 \/ Stage(x) \in a .. b
      /\ t \in Seq(S) /\ Staged(t) /\ \A x \in Range(t) : Stage(x) = 0 \/ Stage(x) \in c .. d
  BY DEF Piece
<1>2. s \o t \in Seq(S) /\ Range(s \o t) = Range(s) \cup Range(t)
  BY <1>1, Concat
<1>3. \A x \in Range(s), y \in Range(t) : Before(x, y)
  BY <1>1 DEF Before
<1>4. Staged(s \o t)
  BY <1>1, <1>3, StagedConcat
<1>5. \A x \in Range(s \o t) : Stage(x) = 0 \/ Stage(x) \in a .. d
  BY <1>1, <1>2
<1>6. QED BY <1>2, <1>4, <1>5 DEF Piece

LEMMA Appended ==
  \A S, s, t : \A a, b, c \in Nat :
    Piece(s, S, a, b) /\ Piece(t, S, c, c) /\ a <= b /\ b <= c =>
      Piece(s \o t, S, a, c) /\ Range(s \o t) = Range(s) \cup Range(t)
<1> TAKE S, s, t
<1> TAKE a, b, c \in Nat
<1> HAVE Piece(s, S, a, b) /\ Piece(t, S, c, c) /\ a <= b /\ b <= c
<1>1. c <= c
  OBVIOUS
<1>2. QED BY <1>1, Joined

LEMMA Alike ==
  \A S, s, t : \A k \in 0 .. 7 :
    Piece(s, S, k, k) /\ Piece(t, S, k, k) =>
      Piece(s \o t, S, k, k) /\ Range(s \o t) = Range(s) \cup Range(t)
BY Appended

LEMMA PerhapsPiece ==
  ASSUME NEW S, NEW s, NEW a, NEW b, Piece(s, S, a, b), NEW c \in BOOLEAN
  PROVE  Piece(Unless(c, s), S, a, b) /\ Range(Unless(c, s)) = IF c THEN {} ELSE Range(s)
<1>1. CASE c
  <2>1. Unless(c, s) = <<>>
    BY <1>1 DEF Unless
  <2>2. <<>> \in Seq(S) /\ Staged(<<>>) /\ Range(<<>>) = {}
    BY Few, StagedFew
  <2>3. Piece(<<>>, S, a, b)
    BY <2>2 DEF Piece
  <2>4. QED BY <1>1, <2>1, <2>2, <2>3
<1>2. CASE ~c
  BY <1>2 DEF Unless
<1>3. QED BY <1>1, <1>2

LEMMA OneStep ==
  ASSUME NEW S, NEW op, NEW arg, <<op, arg>> \in S, NEW k \in Nat, Stage(<<op, arg>>) \in {0, k}
  PROVE  Piece(Step(op, arg), S, k, k) /\ Range(Step(op, arg)) = {<<op, arg>>}
<1>1. Step(op, arg) \in Seq(S) /\ Range(Step(op, arg)) = {<<op, arg>>}
  BY Few DEF Step
<1>2. QED BY <1>1, PieceOf

LEMMA SeqOfRange ==
  ASSUME NEW S, NEW s \in Seq(S), NEW T, Range(s) \subseteq T
  PROVE  s \in Seq(T)
<1>1. \A i \in 1 .. Len(s) : s[i] \in T
  BY DEF Range
<1>2. QED BY <1>1

LEMMA StepsAre ==
  ASSUME NEW A, NEW args \in Seq(A), NEW op
  PROVE  Steps(op, args) \in Seq({op} \X A) /\ Range(Steps(op, args)) = {<<op, x>> : x \in Range(args)}
<1>1. /\ DOMAIN args = 1 .. Len(args) /\ Len(args) \in Nat /\ \A i \in 1 .. Len(args) : args[i] \in A
  OBVIOUS
<1>2. /\ DOMAIN Steps(op, args) = 1 .. Len(args)
      /\ \A i \in 1 .. Len(args) : Steps(op, args)[i] = <<op, args[i]>>
  BY <1>1 DEF Steps
<1>3. Steps(op, args) \in Seq({op} \X A)
  <2>1. Steps(op, args) = [i \in 1 .. Len(args) |-> <<op, args[i]>>]
    BY <1>1 DEF Steps
  <2>2. \A i \in 1 .. Len(args) : <<op, args[i]>> \in {op} \X A
    BY <1>1
  <2>3. QED BY <1>1, <2>1, <2>2
<1>4. QED BY <1>1, <1>2, <1>3 DEF Range

\* Two of each.
LEMMA Doubles ==
  ASSUME NEW n \in Nat
  PROVE  /\ \A i \in 1 .. 2 * n : (i + 1) \div 2 \in 1 .. n /\ (i % 2 = 1 \/ i % 2 = 0)
         /\ \A j \in 1 .. n : /\ 2 * j - 1 \in 1 .. 2 * n /\ 2 * j \in 1 .. 2 * n
                              /\ (2 * j - 1) % 2 = 1 /\ (2 * j - 1 + 1) \div 2 = j
                              /\ (2 * j) % 2 = 0 /\ (2 * j + 1) \div 2 = j
OBVIOUS

LEMMA PairIs ==
  ASSUME NEW c PROVE Pair(c)[2 - 1] = <<c, "user">> /\ Pair(c)[2 - 0] = <<c, "pass">>
BY DEF Pair

\* The sequences PutPairs and DropPairs make.
LEMMA PairSteps ==
  ASSUME NEW C, NEW cs \in Seq(C), NEW op, NEW s,
         s = [i \in 1 .. 2 * Len(cs) |-> <<op, Pair(cs[(i + 1) \div 2])[2 - (i % 2)]>>]
  PROVE  s \in Seq({op} \X Halves(C)) /\ Range(s) = {op} \X Halves(Range(cs))
<1>1. /\ DOMAIN cs = 1 .. Len(cs) /\ Len(cs) \in Nat /\ 2 * Len(cs) \in Nat
      /\ \A i \in 1 .. Len(cs) : cs[i] \in C
  OBVIOUS
<1>2. \A i \in 1 .. 2 * Len(cs) : s[i] = <<op, Pair(cs[(i + 1) \div 2])[2 - (i % 2)]>>
  OBVIOUS
<1>3. ASSUME NEW i \in 1 .. 2 * Len(cs)
      PROVE  /\ (i + 1) \div 2 \in 1 .. Len(cs)
             /\ \E h \in Half : s[i] = <<op, <<cs[(i + 1) \div 2], h>>>>
  <2>1. (i + 1) \div 2 \in 1 .. Len(cs) /\ (i % 2 = 1 \/ i % 2 = 0)
    BY <1>1, Doubles
  <2>2. CASE i % 2 = 1
    <3>1. s[i] = <<op, <<cs[(i + 1) \div 2], "user">>>>
      BY <1>2, <2>2, PairIs
    <3>2. QED BY <2>1, <3>1 DEF Half
  <2>3. CASE i % 2 = 0
    <3>1. s[i] = <<op, <<cs[(i + 1) \div 2], "pass">>>>
      BY <1>2, <2>3, PairIs
    <3>2. QED BY <2>1, <3>1 DEF Half
  <2>4. QED BY <2>1, <2>2, <2>3
<1>4. ASSUME NEW i \in 1 .. 2 * Len(cs)
      PROVE  s[i] \in {op} \X Halves(C) /\ s[i] \in {op} \X Halves(Range(cs))
  <2>1. PICK h \in Half : s[i] = <<op, <<cs[(i + 1) \div 2], h>>>>
    BY <1>3
  <2>2. cs[(i + 1) \div 2] \in C /\ cs[(i + 1) \div 2] \in Range(cs)
    BY <1>1, <1>3 DEF Range
  <2>3. QED BY <2>1, <2>2 DEF Halves
<1>5. s \in Seq({op} \X Halves(C))
  <2> DEFINE T == {op} \X Halves(C)
  <2>1. \A i \in 1 .. 2 * Len(cs) : s[i] \in T
    BY <1>4
  <2>2. s = [i \in 1 .. 2 * Len(cs) |-> s[i]]
    OBVIOUS
  <2> HIDE DEF T
  <2>3. s \in Seq(T)
    BY <1>1, <2>1, <2>2
  <2>4. QED BY <2>3 DEF T
<1>6. ASSUME NEW x \in {op} \X Halves(Range(cs)) PROVE x \in Range(s)
  <2>1. x[1] = op /\ x[2] \in Halves(Range(cs)) /\ x = <<x[1], x[2]>>
    BY <1>6, PairOf
  <2>2. x[2][1] \in Range(cs) /\ x[2][2] \in Half /\ x[2] = <<x[2][1], x[2][2]>>
    BY <2>1, PairOf DEF Halves
  <2>3. PICK j \in 1 .. Len(cs) : cs[j] = x[2][1]
    BY <1>1, <2>2 DEF Range
  <2>4. /\ 2 * j - 1 \in 1 .. 2 * Len(cs) /\ 2 * j \in 1 .. 2 * Len(cs)
        /\ (2 * j - 1) % 2 = 1 /\ (2 * j - 1 + 1) \div 2 = j
        /\ (2 * j) % 2 = 0 /\ (2 * j + 1) \div 2 = j
    BY <1>1, Doubles
  <2>5. CASE x[2][2] = "user"
    <3>1. s[2 * j - 1] = <<op, <<x[2][1], "user">>>>
      BY <1>2, <2>3, <2>4, PairIs
    <3>2. s[2 * j - 1] = x
      BY <2>1, <2>2, <2>5, <3>1
    <3>3. 2 * j - 1 \in DOMAIN s
      BY <2>4
    <3>4. QED BY <3>2, <3>3 DEF Range
  <2>6. CASE x[2][2] = "pass"
    <3>1. s[2 * j] = <<op, <<x[2][1], "pass">>>>
      BY <1>2, <2>3, <2>4, PairIs
    <3>2. s[2 * j] = x
      BY <2>1, <2>2, <2>6, <3>1
    <3>3. 2 * j \in DOMAIN s
      BY <2>4
    <3>4. QED BY <3>2, <3>3 DEF Range
  <2>7. QED BY <2>2, <2>5, <2>6 DEF Half
<1>7. ASSUME NEW x \in Range(s) PROVE x \in {op} \X Halves(Range(cs))
  <2>1. PICK i \in DOMAIN s : s[i] = x
    BY <1>7 DEF Range
  <2>2. i \in 1 .. 2 * Len(cs)
    BY <2>1
  <2>3. QED BY <1>4, <2>1, <2>2
<1>8. QED BY <1>5, <1>6, <1>7

LEMMA SatelliteStepsAre ==
  ASSUME NEW U, NEW us \in Seq(U)
  PROVE  SatelliteSteps(us) \in Seq({"satellite", "launch"} \X U)
<1> DEFINE T == {"satellite", "launch"} \X U
<1>1. Len(us) \in Nat /\ 2 * Len(us) \in Nat /\ \A i \in 1 .. Len(us) : us[i] \in U
  OBVIOUS
<1>2. ASSUME NEW i \in 1 .. 2 * Len(us)
      PROVE  <<IF i % 2 = 1 THEN "satellite" ELSE "launch", us[(i + 1) \div 2]>> \in T
  <2>1. us[(i + 1) \div 2] \in U
    BY <1>1, Doubles
  <2>2. QED BY <2>1
<1> HIDE DEF T
<1>3. SatelliteSteps(us) \in Seq(T)
  BY <1>1, <1>2 DEF SatelliteSteps
<1>4. QED BY <1>3 DEF T

\* The elements of us, in their order.
LEMMA ChosenFrom ==
  ASSUME NEW S, NEW s \in Seq(S), NEW T, T \subseteq Range(s)
  PROVE  Chosen(s, T) \in Seq(T) /\ Range(Chosen(s, T)) = T
<1>1. Chosen(s, T) \in Seq(S) /\ Range(Chosen(s, T)) = Range(s) \cap T
  BY ChosenElems
<1>2. Range(Chosen(s, T)) = T
  BY <1>1
<1>3. QED BY <1>1, <1>2, SeqOfRange

LEMMA OrderOf ==
  /\ \A us \in SUBSET Satellite : InOrder(us) \in Seq(us) /\ Range(InOrder(us)) = us
  /\ DBCredentials \in Seq(DBCredential) /\ Range(DBCredentials) = DBCredential
  /\ ReportFirst \in Seq(DBCredential) /\ Range(ReportFirst) = DBCredential
<1> DEFINE SN == {"coco", "hub", "saline", "tftp"}
           CN == {"db", "reportdb", "dbadmin"}
           Report == <<"reportdb", "db", "dbadmin">>
<1>1. SatelliteOrder \in Seq(SN) /\ AllDBCredentials \in Seq(CN) /\ Report \in Seq(CN)
  BY DEF SatelliteOrder, AllDBCredentials
<1>2. Range(AllDBCredentials) = CN /\ Range(Report) = CN
  BY DEF AllDBCredentials, Range
<1>3. DBCredential \subseteq Range(AllDBCredentials) /\ DBCredential \subseteq Range(Report)
      /\ Satellite \subseteq Range(SatelliteOrder)
  BY <1>2, ServerAssumption
<1>4. ASSUME NEW us \in SUBSET Satellite PROVE InOrder(us) \in Seq(us) /\ Range(InOrder(us)) = us
  BY <1>1, <1>3, ChosenFrom DEF InOrder
<1>5. DBCredentials \in Seq(DBCredential) /\ Range(DBCredentials) = DBCredential
  BY <1>1, <1>3, ChosenFrom DEF DBCredentials
<1>6. ReportFirst \in Seq(DBCredential) /\ Range(ReportFirst) = DBCredential
  <2>1. ReportFirst = Chosen(Report, DBCredential)
    BY DEF ReportFirst
  <2> HIDE DEF Report
  <2>2. QED BY <1>1, <1>3, <2>1, ChosenFrom
<1>7. QED BY <1>4, <1>5, <1>6

\* The steps of an installation: it inspects and completes nothing, and only makes the SCC
\* credentials if they are given.
Installing(scc) ==
  {x \in SetupSteps : /\ x[1] \notin {"inspected", "complete"}
                      /\ x[1] = "put" /\ x[2] \in Halves({"scc"}) => scc}

\* The steps of an upgrade, which makes no credentials at once.
Upgrading ==
  {x \in SetupSteps : (x[1] = "put" => x[2] \in TLS) /\ (x[1] = "inspected" => conf # 0)}

LEMMA InSetup ==
  /\ \A op \in {"images", "network", "env", "trust", "split", "cleanconf"} :
       <<op, "server">> \in SetupSteps
  /\ \A op \in {"write", "enable", "wait", "stop", "start", "defer"}, u \in Core :
       <<op, u>> \in SetupSteps
  /\ {"put"} \X ServerSecret \subseteq SetupSteps /\ {"complete"} \X DBCredential \subseteq SetupSteps
  /\ {"inspected"} \X Halves({"db"}) \subseteq SetupSteps
  /\ {"satellite", "launch"} \X Satellite \subseteq SetupSteps
BY Zenon DEF SetupSteps

LEMMA Simple ==
  ASSUME NEW scc \in BOOLEAN
  PROVE  /\ \A op \in {"images", "network", "env", "trust", "split", "cleanconf"} :
              <<op, "server">> \in Installing(scc) \cap Upgrading
         /\ \A op \in {"write", "enable", "wait", "stop", "start", "defer"}, u \in Core :
              <<op, u>> \in Installing(scc) \cap Upgrading
BY InSetup DEF Installing, Upgrading

\* SetupDB
LEMMA SetupDBIs ==
  ASSUME NEW S, \A op \in {"write", "enable", "wait"}, u \in Core : <<op, u>> \in S
  PROVE  /\ Piece(SetupDB, S, 2, 2)
         /\ Range(SetupDB) = {<<"write", "db">>, <<"enable", "db">>, <<"wait", "db">>}
<1> DEFINE w == Step("write", "db")
           e == Step("enable", "db")
           h == Step("wait", "db")
<1>1. /\ Stage(<<"write", "db">>) = 2 /\ Stage(<<"enable", "db">>) = 2
      /\ Stage(<<"wait", "db">>) = 0
  BY DEF Stage
<1>2. <<"write", "db">> \in S /\ <<"enable", "db">> \in S /\ <<"wait", "db">> \in S
  BY DEF Core
<1>3. /\ Piece(w, S, 2, 2) /\ Range(w) = {<<"write", "db">>}
      /\ Piece(e, S, 2, 2) /\ Range(e) = {<<"enable", "db">>}
      /\ Piece(h, S, 2, 2) /\ Range(h) = {<<"wait", "db">>}
  BY <1>1, <1>2, OneStep
<1>4. SetupDB = (w \o e) \o h
  BY DEF SetupDB
<1> HIDE DEF w, e, h
<1>5. Piece(w \o e, S, 2, 2) /\ Range(w \o e) = Range(w) \cup Range(e)
  BY <1>3, Appended
<1>6. Piece((w \o e) \o h, S, 2, 2) /\ Range((w \o e) \o h) = Range(w \o e) \cup Range(h)
  BY <1>3, <1>5, Appended
<1>7. QED BY <1>3, <1>4, <1>5, <1>6

\* The certificates
LEMMA PutTLSIs ==
  ASSUME NEW S, {"put"} \X TLS \subseteq S
  PROVE  Piece(PutTLS, S, 1, 1) /\ Range(PutTLS) = {"put"} \X TLS
<1> DEFINE t == << <<"tls", "server">>, <<"tls", "db">> >>
<1>1. t \in Seq(TLS) /\ Range(t) = TLS
  BY DEF TLS, Range
<1>2. PutTLS = Steps("put", t)
  BY DEF PutTLS
<1> HIDE DEF t
<1>3. PutTLS \in Seq({"put"} \X TLS) /\ Range(PutTLS) = {<<"put", x>> : x \in TLS}
  BY <1>1, <1>2, StepsAre
<1>4. PutTLS \in Seq(S) /\ Range(PutTLS) = {"put"} \X TLS
  BY <1>3
<1>5. \A x \in Range(PutTLS) : Stage(x) = 1
  <2>1. ASSUME NEW m \in TLS PROVE Stage(<<"put", m>>) = 1
    <3>1. m \notin Halves({"admin", "scc"})
      BY SecretNames
    <3>2. QED BY <3>1 DEF Stage
  <2>2. QED BY <1>3, <2>1
<1>6. QED BY <1>4, <1>5, PieceOf

\* Credentials
LEMMA PutPairsAre ==
  ASSUME NEW cs, NEW C, cs \in Seq(C), Range(cs) = C, NEW S, {"put"} \X Halves(C) \subseteq S, NEW k \in Nat,
         \A x \in {"put"} \X Halves(C) : Stage(x) = k
  PROVE  Piece(PutPairs(cs), S, k, k) /\ Range(PutPairs(cs)) = {"put"} \X Halves(C)
<1>1. PutPairs(cs) \in Seq({"put"} \X Halves(C)) /\ Range(PutPairs(cs)) = {"put"} \X Halves(C)
  BY PairSteps DEF PutPairs
<1>2. PutPairs(cs) \in Seq(S)
  BY <1>1, SeqOfRange
<1>3. QED BY <1>1, <1>2, PieceOf

\* What an installation may have to do.
LEMMA InstallingHas ==
  ASSUME NEW scc \in BOOLEAN
  PROVE  /\ {"put"} \X TLS \subseteq Installing(scc) /\ {"put"} \X Halves(DBCredential) \subseteq Installing(scc)
         /\ {"put"} \X Halves({"admin"}) \subseteq Installing(scc)
         /\ scc => {"put"} \X Halves({"scc"}) \subseteq Installing(scc)
         /\ {"satellite", "launch"} \X Satellite \subseteq Installing(scc)
<1>1. ASSUME NEW x \in {"put"} \X ServerSecret, x[2] \in Halves({"scc"}) => scc PROVE x \in Installing(scc)
  <2>1. x[1] = "put" /\ x \in SetupSteps
    BY InSetup, PairOf
  <2>2. QED BY <1>1, <2>1 DEF Installing
<1>2. TLS \cap Halves({"scc"}) = {} /\ TLS \subseteq ServerSecret
  BY SecretNames DEF ServerSecret, Halves
<1>3. Halves(DBCredential) \cap Halves({"scc"}) = {} /\ Halves(DBCredential) \subseteq ServerSecret
  <2>1. Halves({"scc"}) \subseteq Halves({"admin", "scc"}) /\ Halves(DBCredential) \subseteq Halves(Credentials)
    BY DEF Halves, Credentials
  <2>2. QED BY <2>1, SecretNames DEF ServerSecret
<1>4. Halves({"admin"}) \cap Halves({"scc"}) = {} /\ Halves({"admin", "scc"}) \subseteq ServerSecret
  <2>1. ASSUME NEW m \in Halves({"admin"}), m \in Halves({"scc"}) PROVE FALSE
    BY <2>1, PairOf DEF Halves
  <2>2. Halves({"admin", "scc"}) \subseteq Halves(Credentials)
    BY DEF Halves, Credentials
  <2>3. QED BY <2>1, <2>2 DEF ServerSecret
<1>5. Halves({"admin"}) \subseteq ServerSecret /\ Halves({"scc"}) \subseteq ServerSecret
  <2>1. Halves({"admin"}) \subseteq Halves({"admin", "scc"}) /\ Halves({"scc"}) \subseteq Halves({"admin", "scc"})
    BY DEF Halves
  <2>2. QED BY <1>4, <2>1
<1>6. ASSUME NEW M \in SUBSET ServerSecret, M \cap Halves({"scc"}) = {} \/ scc
      PROVE  {"put"} \X M \subseteq Installing(scc)
  <2>1. ASSUME NEW x \in {"put"} \X M PROVE x \in Installing(scc)
    <3>1. x[2] \in M /\ x \in {"put"} \X ServerSecret
      BY <2>1, PairOf
    <3>2. QED BY <1>1, <1>6, <3>1
  <2>2. QED BY <2>1
<1>7. {"satellite", "launch"} \X Satellite \subseteq Installing(scc)
  <2>1. ASSUME NEW x \in {"satellite", "launch"} \X Satellite PROVE x \in Installing(scc)
    <3>1. x[1] \in {"satellite", "launch"} /\ x \in SetupSteps
      BY <2>1, InSetup, PairOf
    <3>2. QED BY <3>1 DEF Installing
  <2>2. QED BY <2>1
<1>8. QED BY <1>2, <1>3, <1>4, <1>5, <1>6, <1>7

\* The stages of the puts.
LEMMA PutStages ==
  /\ \A x \in {"put"} \X Halves(DBCredential) : Stage(x) = 1
  /\ \A x \in {"put"} \X Halves({"admin"}) : Stage(x) = 3
  /\ \A x \in {"put"} \X Halves({"scc"}) : Stage(x) = 3
<1>1. ASSUME NEW x \in {"put"} \X Halves(DBCredential) PROVE Stage(x) = 1
  <2>1. x[1] = "put" /\ x[2] \in Halves(DBCredential)
    BY <1>1, PairOf
  <2>2. x[2] \notin Halves({"admin", "scc"})
    BY <2>1, SecretNames
  <2>3. QED BY <2>1, <2>2 DEF Stage
<1>2. Halves({"admin"}) \subseteq Halves({"admin", "scc"}) /\ Halves({"scc"}) \subseteq Halves({"admin", "scc"})
  BY DEF Halves
<1>3. ASSUME NEW x \in {"put"} \X Halves({"admin", "scc"}) PROVE Stage(x) = 3
  <2>1. x[1] = "put" /\ x[2] \in Halves({"admin", "scc"})
    BY <1>3, PairOf
  <2>2. QED BY <2>1 DEF Stage
<1>4. QED BY <1>1, <1>2, <1>3

\* GenerateSystemdService
LEMMA ServiceStepsAre ==
  ASSUME NEW scc \in BOOLEAN
  PROVE  /\ Piece(ServiceSteps(scc), Installing(scc), 3, 4)
         /\ {"put"} \X Halves({"admin"}) \subseteq Range(ServiceSteps(scc))
         /\ scc => {"put"} \X Halves({"scc"}) \subseteq Range(ServiceSteps(scc))
<1> DEFINE S == Installing(scc)
           n == Step("network", "server")
           a == PutPairs(<<"admin">>)
           c == PutPairs(<<"scc">>)
           o == Unless(~scc, c)
           w == Step("write", "server")
<1>1. /\ Stage(<<"network", "server">>) = 0 /\ Stage(<<"write", "server">>) = 4
  BY DEF Stage
<1>2. <<"network", "server">> \in S /\ <<"write", "server">> \in S
  BY Simple DEF Core
<1>3. ServiceSteps(scc) = ((n \o a) \o o) \o w
  BY DEF ServiceSteps
<1>4. Piece(n, S, 3, 3) /\ Piece(w, S, 4, 4)
  BY <1>1, <1>2, OneStep
<1>5. /\ <<"admin">> \in Seq({"admin"}) /\ Range(<<"admin">>) = {"admin"}
      /\ <<"scc">> \in Seq({"scc"}) /\ Range(<<"scc">>) = {"scc"}
  BY Few
<1>6. {"put"} \X Halves({"admin"}) \subseteq S /\ (scc => {"put"} \X Halves({"scc"}) \subseteq S)
  BY InstallingHas
<1>7. Piece(a, S, 3, 3) /\ Range(a) = {"put"} \X Halves({"admin"})
  BY <1>5, <1>6, PutPairsAre, PutStages
<1>8. Piece(o, S, 3, 3) /\ (scc => Range(o) = {"put"} \X Halves({"scc"}))
  <2>1. CASE scc
    <3>1. Piece(c, S, 3, 3) /\ Range(c) = {"put"} \X Halves({"scc"})
      BY <1>5, <1>6, <2>1, PutPairsAre, PutStages
    <3>2. o = c
      BY <2>1 DEF Unless
    <3>3. QED BY <3>1, <3>2
  <2>2. CASE ~scc
    <3>1. o = <<>>
      BY <2>2 DEF Unless
    <3>2. <<>> \in Seq(S) /\ Range(<<>>) = {}
      BY Few
    <3>3. QED BY <2>2, <3>1, <3>2, PieceOf
  <2>3. QED BY <2>1, <2>2
<1> HIDE DEF S, n, a, c, o, w
<1>9. Piece(n \o a, S, 3, 3) /\ Range(n \o a) = Range(n) \cup Range(a)
  BY <1>4, <1>7, Appended
<1>10. Piece((n \o a) \o o, S, 3, 3) /\ Range((n \o a) \o o) = Range(n \o a) \cup Range(o)
  <2>1. Piece(n \o a, S, 3, 3) /\ Piece(o, S, 3, 3)
    BY <1>8, <1>9
  <2>2. QED BY <2>1, Appended
<1>11. /\ Piece(((n \o a) \o o) \o w, S, 3, 4)
       /\ Range(((n \o a) \o o) \o w) = Range((n \o a) \o o) \cup Range(w)
  BY <1>4, <1>10, Appended
<1>12. Range(a) \cup Range(o) \subseteq Range(ServiceSteps(scc))
  BY <1>3, <1>9, <1>10, <1>11
<1>13. Piece(ServiceSteps(scc), S, 3, 4)
  BY <1>3, <1>11
<1>14. QED BY <1>7, <1>8, <1>12, <1>13 DEF S

\* WaitForSystemStart
LEMMA StartSystemIs ==
  ASSUME NEW S, \A op \in {"write", "enable", "wait", "stop", "start", "defer"}, u \in Core : <<op, u>> \in S
  PROVE  Piece(StartSystem, S, 4, 4)
<1> DEFINE e == Step("enable", "server")
           h == Step("wait", "server")
<1>1. Stage(<<"enable", "server">>) = 4 /\ Stage(<<"wait", "server">>) = 0
  BY DEF Stage
<1>2. <<"enable", "server">> \in S /\ <<"wait", "server">> \in S
  BY DEF Core
<1>3. Piece(e, S, 4, 4) /\ Piece(h, S, 4, 4)
  BY <1>1, <1>2, OneStep
<1>4. StartSystem = e \o h
  BY DEF StartSystem
<1> HIDE DEF e, h
<1>5. Piece(e \o h, S, 4, 4)
  BY <1>3, Alike
<1>6. QED BY <1>4, <1>5

\* The satellites come last but for the deferred starts.
LEMMA AllSatellitesAre ==
  ASSUME NEW S, {"satellite", "launch"} \X Satellite \subseteq S
  PROVE  Piece(AllSatellites, S, 6, 6) /\ \A T : Piece(Chosen(AllSatellites, T), S, 6, 6)
<1>1. InOrder(Satellite) \in Seq(Satellite)
  BY OrderOf
<1>2. AllSatellites \in Seq({"satellite", "launch"} \X Satellite)
  BY <1>1, SatelliteStepsAre DEF AllSatellites
<1>3. ASSUME NEW s \in Seq({"satellite", "launch"} \X Satellite) PROVE Piece(s, S, 6, 6)
  <2>1. \A x \in Range(s) : x \in {"satellite", "launch"} \X Satellite
    BY DEF Range
  <2>2. s \in Seq(S)
    BY <2>1, SeqOfRange
  <2>3. ASSUME NEW x \in {"satellite", "launch"} \X Satellite PROVE Stage(x) = 6
    <3>1. x[1] \in {"satellite", "launch"}
      BY <2>3, PairOf
    <3>2. QED BY <3>1 DEF Stage
  <2>4. QED BY <2>1, <2>2, <2>3, PieceOf
<1>4. \A T : Chosen(AllSatellites, T) \in Seq({"satellite", "launch"} \X Satellite)
  BY <1>2, ChosenElems
<1>5. QED BY <1>2, <1>3, <1>4

\* installForPodman: the certificates and the credentials of the database, the database,
\* the other credentials, the server, the satellites.
LEMMA InstallStepsAre ==
  ASSUME NEW scc \in BOOLEAN
  PROVE  /\ Piece(InstallSteps(scc), Installing(scc), 1, 6)
         /\ {"put"} \X TLS \subseteq Range(InstallSteps(scc))
         /\ {"put"} \X Halves(DBCredential) \subseteq Range(InstallSteps(scc))
         /\ {"put"} \X Halves({"admin"}) \subseteq Range(InstallSteps(scc))
         /\ scc => {"put"} \X Halves({"scc"}) \subseteq Range(InstallSteps(scc))
<1> DEFINE S == Installing(scc)
           i == Step("images", "server")
           n == Step("network", "server")
           p == PutPairs(DBCredentials)
           e == Step("env", "server")
           v == ServiceSteps(scc)
           r == Step("trust", "server")
           s3 == (i \o n) \o PutTLS
           s4 == s3 \o p
           s6 == (s4 \o SetupDB) \o e
           s7 == s6 \o v
           s9 == (s7 \o StartSystem) \o r
<1>1. /\ Stage(<<"images", "server">>) = 0 /\ Stage(<<"network", "server">>) = 0
      /\ Stage(<<"env", "server">>) = 0 /\ Stage(<<"trust", "server">>) = 0
  BY DEF Stage
<1>2. /\ <<"images", "server">> \in S /\ <<"network", "server">> \in S
      /\ <<"env", "server">> \in S /\ <<"trust", "server">> \in S
  BY Simple
<1>3. Piece(i, S, 1, 1) /\ Piece(n, S, 1, 1) /\ Piece(e, S, 2, 2) /\ Piece(r, S, 4, 4)
  BY <1>1, <1>2, OneStep
<1>4. \A op \in {"write", "enable", "wait", "stop", "start", "defer"}, u \in Core : <<op, u>> \in S
  BY Simple
<1>5. Piece(SetupDB, S, 2, 2) /\ Piece(StartSystem, S, 4, 4)
  BY <1>4, SetupDBIs, StartSystemIs
<1>6. Piece(PutTLS, S, 1, 1) /\ Range(PutTLS) = {"put"} \X TLS
  BY InstallingHas, PutTLSIs
<1>7. Piece(p, S, 1, 1) /\ Range(p) = {"put"} \X Halves(DBCredential)
  <2>1. DBCredentials \in Seq(DBCredential) /\ Range(DBCredentials) = DBCredential
    BY OrderOf
  <2>2. {"put"} \X Halves(DBCredential) \subseteq S
    BY InstallingHas
  <2>3. QED BY <2>1, <2>2, PutPairsAre, PutStages
<1>8. /\ Piece(v, S, 3, 4) /\ {"put"} \X Halves({"admin"}) \subseteq Range(v)
      /\ scc => {"put"} \X Halves({"scc"}) \subseteq Range(v)
  BY ServiceStepsAre
<1>9. Piece(AllSatellites, S, 6, 6)
  <2>1. {"satellite", "launch"} \X Satellite \subseteq S
    BY InstallingHas
  <2>2. QED BY <2>1, AllSatellitesAre
<1>10. InstallSteps(scc) = s9 \o AllSatellites
  BY DEF InstallSteps
<1> HIDE DEF S, i, n, p, e, v, r
<1>11. Piece(s3, S, 1, 1) /\ Range(PutTLS) \subseteq Range(s3)
  <2>1. Piece(i \o n, S, 1, 1)
    BY <1>3, Appended
  <2>2. Piece(PutTLS, S, 1, 1)
    BY <1>6
  <2>3. QED BY <2>1, <2>2, Appended
<1> HIDE DEF s3
<1>12. Piece(s4, S, 1, 1) /\ Range(s4) = Range(s3) \cup Range(p)
  <2>1. Piece(s3, S, 1, 1) /\ Piece(p, S, 1, 1)
    BY <1>7, <1>11
  <2>5. Piece(s3 \o p, S, 1, 1)
    BY <2>1, Alike
  <2>6. s3 \in Seq(S) /\ p \in Seq(S)
    BY <2>1 DEF Piece
  <2>7. Range(s3 \o p) = Range(s3) \cup Range(p)
    BY <2>6, Concat
  <2>3. Piece(s3 \o p, S, 1, 1) /\ Range(s3 \o p) = Range(s3) \cup Range(p)
    BY <2>5, <2>7
  <2>4. QED BY <2>3
<1> HIDE DEF s4
<1>13. Piece(s6, S, 1, 2) /\ Range(s4) \subseteq Range(s6)
  <2>1. Piece(s4, S, 1, 1)
    BY <1>12
  <2>2. Piece(s4 \o SetupDB, S, 1, 2) /\ Range(s4) \subseteq Range(s4 \o SetupDB)
    BY <1>5, <2>1, Appended
  <2>3. Piece(e, S, 2, 2)
    BY <1>3
  <2>4. QED BY <2>2, <2>3, Appended
<1> HIDE DEF s6
<1>14. Piece(s7, S, 1, 4) /\ Range(s7) = Range(s6) \cup Range(v)
  <2>1. Piece(s6, S, 1, 2) /\ Piece(v, S, 3, 4)
    BY <1>8, <1>13
  <2>2. 1 \in Nat /\ 2 \in Nat /\ 3 \in Nat /\ 4 \in Nat /\ 1 <= 2 /\ 2 <= 3 /\ 3 <= 4
    OBVIOUS
  <2>3. Piece(s6 \o v, S, 1, 4) /\ Range(s6 \o v) = Range(s6) \cup Range(v)
    BY <2>1, <2>2, Joined
  <2>4. QED BY <2>3
<1> HIDE DEF s7
<1>15. Piece(s9, S, 1, 4) /\ Range(s7) \subseteq Range(s9)
  <2>1. Piece(s7, S, 1, 4) /\ Piece(r, S, 4, 4)
    BY <1>3, <1>14
  <2>2. Piece(s7 \o StartSystem, S, 1, 4) /\ Range(s7) \subseteq Range(s7 \o StartSystem)
    BY <1>5, <2>1, Appended
  <2>3. QED BY <2>1, <2>2, Appended
<1> HIDE DEF s9
<1>16. Piece(s9 \o AllSatellites, S, 1, 6) /\ Range(s9) \subseteq Range(s9 \o AllSatellites)
  <2>1. Piece(s9, S, 1, 4)
    BY <1>15
  <2>2. QED BY <1>9, <2>1, Appended
<1>17. Range(PutTLS) \cup Range(p) \cup Range(v) \subseteq Range(InstallSteps(scc))
  BY <1>10, <1>11, <1>12, <1>13, <1>14, <1>15, <1>16
<1>18. Piece(InstallSteps(scc), S, 1, 6)
  BY <1>10, <1>16
<1>19. QED BY <1>6, <1>7, <1>8, <1>17, <1>18 DEF S

\* What an upgrade may have to do.
LEMMA UpgradingHas ==
  /\ {"put"} \X TLS \subseteq Upgrading /\ {"complete"} \X DBCredential \subseteq Upgrading
  /\ conf # 0 => {"inspected"} \X Halves({"db"}) \subseteq Upgrading
  /\ {"satellite", "launch"} \X Satellite \subseteq Upgrading
<1>1. ASSUME NEW x \in {"put"} \X TLS PROVE x \in Upgrading
  <2>1. x[1] = "put" /\ x[2] \in TLS /\ x \in {"put"} \X ServerSecret
    BY <1>1, PairOf DEF ServerSecret
  <2>2. QED BY <2>1, InSetup DEF Upgrading
<1>2. ASSUME NEW x \in {"complete"} \X DBCredential PROVE x \in Upgrading
  <2>1. x[1] = "complete" /\ x \in SetupSteps
    BY <1>2, PairOf, InSetup
  <2>2. QED BY <2>1 DEF Upgrading
<1>3. ASSUME conf # 0, NEW x \in {"inspected"} \X Halves({"db"}) PROVE x \in Upgrading
  <2>1. x[1] = "inspected" /\ x \in SetupSteps
    BY <1>3, PairOf, InSetup
  <2>2. QED BY <1>3, <2>1 DEF Upgrading
<1>4. ASSUME NEW x \in {"satellite", "launch"} \X Satellite PROVE x \in Upgrading
  <2>1. x[1] \in {"satellite", "launch"} /\ x \in SetupSteps
    BY <1>4, PairOf, InSetup
  <2>2. QED BY <2>1 DEF Upgrading
<1>5. QED BY <1>1, <1>2, <1>3, <1>4

\* configureDBContainer
LEMMA ConfigureDBIs ==
  /\ Piece(ConfigureDB, Upgrading, 1, 2) /\ {"complete"} \X DBCredential \subseteq Range(ConfigureDB)
  /\ <<"enable", "db">> \in Range(ConfigureDB)
<1> DEFINE S == Upgrading
           x == Step("split", "server")
           c == Steps("complete", DBCredentials)
<1>1. Piece(x, S, 1, 1)
  <2>1. Stage(<<"split", "server">>) = 0
    BY DEF Stage
  <2>2. <<"split", "server">> \in S
    BY Simple
  <2>3. QED BY <2>1, <2>2, OneStep
<1>2. Piece(c, S, 1, 1) /\ Range(c) = {"complete"} \X DBCredential
  <2>1. DBCredentials \in Seq(DBCredential) /\ Range(DBCredentials) = DBCredential
    BY OrderOf
  <2>2. c \in Seq({"complete"} \X DBCredential) /\ Range(c) = {<<"complete", y>> : y \in DBCredential}
    BY <2>1, StepsAre
  <2>3. {"complete"} \X DBCredential \subseteq S
    BY UpgradingHas
  <2>4. Range(c) = {"complete"} \X DBCredential
    BY <2>2
  <2>5. c \in Seq(S)
    BY <2>2, <2>3, <2>4, SeqOfRange
  <2>6. \A y \in {"complete"} \X DBCredential : Stage(y) = 1
    BY PairOf DEF Stage
  <2>7. QED BY <2>4, <2>5, <2>6, PieceOf
<1>3. Piece(SetupDB, S, 2, 2) /\ <<"enable", "db">> \in Range(SetupDB)
  <2>1. \A op \in {"write", "enable", "wait"}, u \in Core : <<op, u>> \in S
    BY Simple
  <2>2. QED BY <2>1, SetupDBIs
<1>4. ConfigureDB = (x \o c) \o SetupDB
  BY DEF ConfigureDB
<1> HIDE DEF S, x, c
<1>5. Piece(c, S, 1, 1) /\ Piece(SetupDB, S, 2, 2)
  BY <1>2, <1>3
<1>6. Piece(x \o c, S, 1, 1) /\ Range(x \o c) = Range(x) \cup Range(c)
  <2>1. Piece(x \o c, S, 1, 1)
    BY <1>1, <1>5, Alike
  <2>2. x \in Seq(S) /\ c \in Seq(S)
    BY <1>1, <1>5 DEF Piece
  <2>3. Range(x \o c) = Range(x) \cup Range(c)
    BY <2>2, Concat
  <2>4. QED BY <2>1, <2>3
<1>7. /\ Piece((x \o c) \o SetupDB, S, 1, 2)
      /\ Range((x \o c) \o SetupDB) = Range(x \o c) \cup Range(SetupDB)
  BY <1>5, <1>6, Appended
<1>8. Range(c) \cup Range(SetupDB) \subseteq Range(ConfigureDB) /\ Piece(ConfigureDB, S, 1, 2)
  BY <1>4, <1>6, <1>7
<1>9. QED BY <1>2, <1>3, <1>8 DEF S

\* Upgrade: what is asked of the satellites comes after the server was started.
LEMMA UpgradeStepsAre ==
  ASSUME NEW inspected \in BOOLEAN, NEW l, Piece(l, Upgrading, 6, 6)
  PROVE  /\ Piece(UpgradeSteps(inspected, l), Upgrading, 1, 7)
         /\ {"complete"} \X DBCredential \subseteq Range(UpgradeSteps(inspected, l))
         /\ <<"enable", "db">> \in Range(UpgradeSteps(inspected, l))
         /\ "localhost" \in legacy => {"put"} \X TLS \subseteq Range(UpgradeSteps(inspected, l))
<1> DEFINE S == Upgrading
           n == Step("network", "server")
           i == Step("images", "server")
           x == Step("stop", "server")
           y == Unless("db" \notin unit, Step("stop", "db"))
           t == Unless("localhost" \notin legacy, PutTLS)
           c == Step("cleanconf", "server")
           e == Step("env", "server")
           w == Step("write", "server")
           g == Step("start", "server")
           h == Step("wait", "server")
           p == Unless(~inspected \/ conf = 0, Steps("inspected", Pair("db")))
           d == Unless("db" \notin unit, Step("defer", "db"))
           f == Step("defer", "server")
           s4 == ((n \o i) \o x) \o y
           s5 == s4 \o t
           s6 == s5 \o ConfigureDB
           s9 == ((s6 \o SetupDB) \o c) \o e
           s12 == ((s9 \o w) \o g) \o h
           s14 == (s12 \o p) \o l
<1>1. /\ Stage(<<"network", "server">>) = 0 /\ Stage(<<"images", "server">>) = 0
      /\ Stage(<<"stop", "server">>) = 0 /\ Stage(<<"stop", "db">>) = 0
      /\ Stage(<<"cleanconf", "server">>) = 0 /\ Stage(<<"env", "server">>) = 0
      /\ Stage(<<"write", "server">>) = 4 /\ Stage(<<"start", "server">>) = 4
      /\ Stage(<<"wait", "server">>) = 0
      /\ Stage(<<"defer", "server">>) = 7 /\ Stage(<<"defer", "db">>) = 7
  BY DEF Stage
<1>2. /\ <<"network", "server">> \in S /\ <<"images", "server">> \in S
      /\ <<"cleanconf", "server">> \in S /\ <<"env", "server">> \in S
      /\ \A op \in {"write", "enable", "wait", "stop", "start", "defer"}, u \in Core : <<op, u>> \in S
  BY Simple
<1>3. /\ <<"stop", "server">> \in S /\ <<"stop", "db">> \in S /\ <<"write", "server">> \in S
      /\ <<"start", "server">> \in S /\ <<"wait", "server">> \in S
      /\ <<"defer", "server">> \in S /\ <<"defer", "db">> \in S
  BY <1>2 DEF Core
<1>4. /\ Piece(n, S, 1, 1) /\ Piece(i, S, 1, 1) /\ Piece(x, S, 1, 1)
      /\ Piece(c, S, 2, 2) /\ Piece(e, S, 2, 2) /\ Piece(w, S, 4, 4) /\ Piece(g, S, 4, 4)
      /\ Piece(h, S, 4, 4) /\ Piece(f, S, 7, 7)
  BY <1>1, <1>2, <1>3, OneStep
<1>5. Piece(y, S, 1, 1) /\ Piece(d, S, 7, 7)
  <2>1. Piece(Step("stop", "db"), S, 1, 1) /\ Piece(Step("defer", "db"), S, 7, 7)
    BY <1>1, <1>3, OneStep
  <2>2. QED BY <2>1, PerhapsPiece
<1>6. Piece(t, S, 1, 1) /\ ("localhost" \in legacy => Range(t) = {"put"} \X TLS)
  <2>1. Piece(PutTLS, S, 1, 1) /\ Range(PutTLS) = {"put"} \X TLS
    BY UpgradingHas, PutTLSIs
  <2>2. Piece(t, S, 1, 1)
    BY <2>1, PerhapsPiece
  <2>3. QED BY <2>1, <2>2 DEF Unless
<1>7. Piece(p, S, 5, 5)
  <2>1. CASE conf = 0 \/ ~inspected
    <3>1. p = <<>>
      BY <2>1 DEF Unless
    <3>2. <<>> \in Seq(S) /\ Range(<<>>) = {}
      BY Few
    <3>3. QED BY <3>1, <3>2, PieceOf
  <2>2. CASE conf # 0 /\ inspected
    <3> DEFINE q == Steps("inspected", Pair("db"))
    <3>1. Pair("db") \in Seq(Halves({"db"}))
      BY DEF Pair, Halves, Half
    <3>2. q \in Seq({"inspected"} \X Halves({"db"}))
      BY <3>1, StepsAre
    <3>3. {"inspected"} \X Halves({"db"}) \subseteq S
      BY <2>2, UpgradingHas
    <3>4. p = q
      BY <2>2 DEF Unless
    <3> HIDE DEF q
    <3>5. \A z \in Range(q) : z \in {"inspected"} \X Halves({"db"})
      BY <3>2 DEF Range
    <3>6. q \in Seq(S)
      BY <3>2, <3>3, <3>5, SeqOfRange
    <3>7. \A z \in {"inspected"} \X Halves({"db"}) : Stage(z) = 5
      BY PairOf DEF Stage
    <3>8. Piece(q, S, 5, 5)
      BY <3>5, <3>6, <3>7, PieceOf
    <3>9. QED BY <3>4, <3>8
  <2>3. QED BY <2>1, <2>2
<1>8. /\ Piece(ConfigureDB, S, 1, 2) /\ {"complete"} \X DBCredential \subseteq Range(ConfigureDB)
      /\ <<"enable", "db">> \in Range(ConfigureDB)
  BY ConfigureDBIs
<1>9. Piece(SetupDB, S, 2, 2)
  BY <1>2, SetupDBIs
<1>10. UpgradeSteps(inspected, l) = (s14 \o d) \o f
  BY DEF UpgradeSteps
<1>11. Piece(l, S, 6, 6)
  OBVIOUS
<1> HIDE DEF S, n, i, x, y, t, c, e, w, g, h, p, d, f
<1>12. Piece(s4, S, 1, 1)
  <2>1. Piece(n \o i, S, 1, 1)
    BY <1>4, Alike
  <2>2. Piece((n \o i) \o x, S, 1, 1)
    BY <1>4, <2>1, Alike
  <2>3. QED BY <1>5, <2>2, Alike
<1> HIDE DEF s4
<1>13. Piece(s5, S, 1, 1) /\ Range(s5) = Range(s4) \cup Range(t)
  <2>1. Piece(t, S, 1, 1)
    BY <1>6
  <2>2. Piece(s4 \o t, S, 1, 1)
    BY <1>12, <2>1, Alike
  <2>3. s4 \in Seq(S) /\ t \in Seq(S)
    BY <1>12, <2>1 DEF Piece
  <2>4. Range(s4 \o t) = Range(s4) \cup Range(t)
    BY <2>3, Concat
  <2>5. QED BY <2>2, <2>4
<1> HIDE DEF s5
<1>14. Piece(s6, S, 1, 2) /\ Range(s6) = Range(s5) \cup Range(ConfigureDB)
  <2>1. Piece(s5, S, 1, 1) /\ Piece(ConfigureDB, S, 1, 2)
    BY <1>8, <1>13
  <2>2. 1 \in Nat /\ 2 \in Nat /\ 1 <= 1 /\ 1 <= 2
    OBVIOUS
  <2>3. Piece(s5 \o ConfigureDB, S, 1, 2)
    BY <2>1, <2>2, Joined
  <2>4. s5 \in Seq(S) /\ ConfigureDB \in Seq(S)
    BY <2>1 DEF Piece
  <2>5. Range(s5 \o ConfigureDB) = Range(s5) \cup Range(ConfigureDB)
    BY <2>4, Concat
  <2>6. QED BY <2>3, <2>5
<1> HIDE DEF s6
<1>15. Piece(s9, S, 1, 2) /\ Range(s6) \subseteq Range(s9)
  <2>1. Piece(s6, S, 1, 2)
    BY <1>14
  <2>2. Piece(s6 \o SetupDB, S, 1, 2) /\ Range(s6) \subseteq Range(s6 \o SetupDB)
    BY <1>9, <2>1, Appended
  <2>3. Piece((s6 \o SetupDB) \o c, S, 1, 2) /\ Range(s6) \subseteq Range((s6 \o SetupDB) \o c)
    BY <1>4, <2>2, Appended
  <2>4. QED BY <1>4, <2>3, Appended
<1> HIDE DEF s9
<1>16. Piece(s12, S, 1, 4) /\ Range(s9) \subseteq Range(s12)
  <2>1. Piece(s9 \o w, S, 1, 4) /\ Range(s9) \subseteq Range(s9 \o w)
    BY <1>4, <1>15, Appended
  <2>2. Piece((s9 \o w) \o g, S, 1, 4) /\ Range(s9) \subseteq Range((s9 \o w) \o g)
    BY <1>4, <2>1, Appended
  <2>3. QED BY <1>4, <2>2, Appended
<1> HIDE DEF s12
<1>17. Piece(s14, S, 1, 6) /\ Range(s12) \subseteq Range(s14)
  <2>1. Piece(s12 \o p, S, 1, 5) /\ Range(s12) \subseteq Range(s12 \o p)
    BY <1>7, <1>16, Appended
  <2>2. QED BY <1>11, <2>1, Appended
<1> HIDE DEF s14
<1>18. Piece((s14 \o d) \o f, S, 1, 7) /\ Range(s14) \subseteq Range((s14 \o d) \o f)
  <2>1. Piece(s14 \o d, S, 1, 7) /\ Range(s14) \subseteq Range(s14 \o d)
    BY <1>5, <1>17, Appended
  <2>2. QED BY <1>4, <2>1, Appended
<1>19. Range(t) \cup Range(ConfigureDB) \subseteq Range(UpgradeSteps(inspected, l))
  BY <1>10, <1>13, <1>14, <1>15, <1>16, <1>17, <1>18
<1>20. Piece(UpgradeSteps(inspected, l), S, 1, 7)
  BY <1>10, <1>18
<1>21. QED BY <1>6, <1>8, <1>19, <1>20 DEF S

\* Pieces of an uninstallation.
LEMMA RemovalPieces ==
  /\ \A op \in {"uninstall", "template"}, us \in Seq(ServerUnit) :
       /\ Piece(Steps(op, us), RemovalSteps, 1, 1)
       /\ Range(Steps(op, us)) = {<<op, u>> : u \in Range(us)}
  /\ \A op \in {"volume", "purge"}, us \in Seq(ServerUnit) : Piece(Steps(op, us), RemovalSteps, 1, 1)
  /\ \A ms \in Seq(TLS) : Piece(Steps("drop", ms), RemovalSteps, 2, 2)
  /\ \A C \in SUBSET (DBCredential \cup {"admin"}), cs \in Seq(Credentials) :
       cs \in Seq(C) => Piece(DropPairs(cs), RemovalSteps, 2, 2)
<1> DEFINE S == RemovalSteps
<1>1. /\ \A op \in {"uninstall", "template", "kill", "volume", "purge"} : {op} \X ServerUnit \subseteq S
      /\ {"drop"} \X (ServerSecret \ Halves({"scc"})) \subseteq S
  BY Zenon DEF RemovalSteps
<1>2. ASSUME NEW op \in {"uninstall", "template", "volume", "purge"}, NEW us \in Seq(ServerUnit)
      PROVE  /\ Piece(Steps(op, us), S, 1, 1)
             /\ Range(Steps(op, us)) = {<<op, u>> : u \in Range(us)}
  <2>1. /\ Steps(op, us) \in Seq({op} \X ServerUnit)
        /\ Range(Steps(op, us)) = {<<op, u>> : u \in Range(us)}
    BY StepsAre
  <2>2. {op} \X ServerUnit \subseteq S
    BY <1>1
  <2>3. \A x \in Range(Steps(op, us)) : x \in {op} \X ServerUnit
    BY <2>1 DEF Range
  <2>4. Steps(op, us) \in Seq(S)
    BY <2>1, <2>2, <2>3, SeqOfRange
  <2>5. ASSUME NEW x \in {op} \X ServerUnit PROVE Stage(x) \in {0, 1}
    <3>1. x[1] \in {"uninstall", "template", "volume", "purge"}
      BY <2>5, PairOf
    <3>2. QED BY <3>1 DEF Stage
  <2>6. QED BY <2>1, <2>3, <2>4, <2>5, PieceOf
<1>3. ASSUME NEW M \in SUBSET (ServerSecret \ Halves({"scc"})), NEW s \in Seq({"drop"} \X M)
      PROVE  Piece(s, S, 2, 2)
  <2>1. \A x \in Range(s) : x \in {"drop"} \X M
    BY DEF Range
  <2>2. {"drop"} \X M \subseteq {"drop"} \X (ServerSecret \ Halves({"scc"}))
    BY <1>3
  <2>3. s \in Seq(S)
    BY <1>1, <2>1, <2>2, SeqOfRange
  <2>4. \A x \in {"drop"} \X M : Stage(x) = 2
    BY PairOf DEF Stage
  <2>5. QED BY <2>1, <2>3, <2>4, PieceOf
<1>4. ASSUME NEW ms \in Seq(TLS) PROVE Piece(Steps("drop", ms), S, 2, 2)
  <2>1. Steps("drop", ms) \in Seq({"drop"} \X TLS)
    BY StepsAre
  <2>2. TLS \in SUBSET (ServerSecret \ Halves({"scc"}))
    BY SecretNames DEF ServerSecret, Halves
  <2>3. QED BY <1>3, <2>1, <2>2
<1>5. ASSUME NEW C \in SUBSET (DBCredential \cup {"admin"}), NEW cs \in Seq(C)
      PROVE  Piece(DropPairs(cs), S, 2, 2)
  <2>1. DropPairs(cs) \in Seq({"drop"} \X Halves(C))
    BY PairSteps DEF DropPairs
  <2>2. Halves(C) \subseteq ServerSecret
    BY DEF Halves, ServerSecret, Credentials
  <2>3. ASSUME NEW m \in Halves(C), m \in Halves({"scc"}) PROVE FALSE
    <3>1. m[1] \in C /\ m[1] = "scc"
      BY <2>3, PairOf DEF Halves
    <3>2. "scc" \in DBCredential
      BY <3>1
    <3>3. <<"scc", "user">> \in Halves(DBCredential) /\ <<"scc", "user">> \in Halves({"admin", "scc"})
      BY <3>2 DEF Halves, Half
    <3>4. QED BY <3>3, SecretNames
  <2>4. Halves(C) \in SUBSET (ServerSecret \ Halves({"scc"}))
    BY <2>2, <2>3
  <2>5. QED BY <1>3, <2>1, <2>4
<1>6. QED BY <1>2, <1>4, <1>5

\* uninstallForPodman: all the units first, then the secrets.
LEMMA UninstallStepsAre ==
  ASSUME NEW f
  PROVE  /\ Piece(UninstallSteps(f), RemovalSteps, 1, 2)
         /\ \A u \in ServerUnit : \/ <<"uninstall", u>> \in Range(UninstallSteps(f))
                                  \/ <<"template", u>> \in Range(UninstallSteps(f))
<1> DEFINE S == RemovalSteps
           a == Step("uninstall", "server")
           b == Step("kill", "server")
           t == Steps("template", Instantiated)
           p == Steps("uninstall", Plain)
           v == Unless("volumes" \notin f, Steps("volume", <<"server", "db">>))
           q == Purged((<<"server">> \o Instantiated) \o Plain)
           i == Unless("images" \notin f, Steps("purge", q))
           n == Step("dropnetwork", "server")
           d == DropPairs(ReportFirst)
           c == Steps("drop", << <<"tls", "db">>, <<"tls", "server">> >>)
           m == DropPairs(<<"admin">>)
           s2 == a \o b
           s3 == s2 \o t
           s4 == s3 \o p
           s7 == ((s4 \o v) \o i) \o n
           s9 == (s7 \o d) \o c
<1>1. /\ <<"uninstall", "server">> \in S /\ <<"kill", "server">> \in S
      /\ <<"dropnetwork", "server">> \in S
  BY Zenon DEF RemovalSteps, ServerUnit, Core
<1>2. /\ Stage(<<"uninstall", "server">>) = 1 /\ Stage(<<"kill", "server">>) = 0
      /\ Stage(<<"dropnetwork", "server">>) = 0
  BY DEF Stage
<1>3. /\ Piece(a, S, 1, 1) /\ Range(a) = {<<"uninstall", "server">>}
      /\ Piece(b, S, 1, 1) /\ Piece(n, S, 1, 1)
  BY <1>1, <1>2, OneStep
<1>4. /\ Instantiated \in Seq(ServerUnit) /\ Range(Instantiated) = Satellite \ {"tftp"}
      /\ Plain \in Seq(ServerUnit) /\ Range(Plain) = {"db"} \cup (Satellite \cap {"tftp"})
  <2> DEFINE z == InOrder(Satellite \cap {"tftp"})
  <2>1. Instantiated \in Seq(Satellite \ {"tftp"}) /\ Range(Instantiated) = Satellite \ {"tftp"}
    BY OrderOf DEF Instantiated
  <2>2. z \in Seq(Satellite \cap {"tftp"}) /\ Range(z) = Satellite \cap {"tftp"}
    BY OrderOf
  <2>3. Satellite \subseteq ServerUnit /\ "db" \in ServerUnit
    BY DEF ServerUnit, Core
  <2>4. Instantiated \in Seq(ServerUnit)
    BY <2>1, <2>3, SeqOfRange
  <2> HIDE DEF z
  <2>5. z \in Seq(ServerUnit)
    BY <2>2, <2>3, SeqOfRange
  <2> DEFINE y == <<"db">>
  <2>6. y \in Seq(ServerUnit) /\ Range(y) = {"db"}
    BY <2>3, Few
  <2>7. Plain = y \o z
    BY DEF Plain, z
  <2> HIDE DEF y
  <2>8. Plain \in Seq(ServerUnit) /\ Range(Plain) = {"db"} \cup Range(z)
    <3>1. y \o z \in Seq(ServerUnit) /\ Range(y \o z) = Range(y) \cup Range(z)
      BY <2>5, <2>6, Concat
    <3>2. QED BY <2>6, <2>7, <3>1
  <2>9. QED BY <2>1, <2>2, <2>4, <2>8
<1>5. Piece(t, S, 1, 1) /\ Range(t) = {<<"template", u>> : u \in Range(Instantiated)}
  BY <1>4, RemovalPieces
<1>6. Piece(p, S, 1, 1) /\ Range(p) = {<<"uninstall", u>> : u \in Range(Plain)}
  BY <1>4, RemovalPieces
<1>7. Piece(v, S, 1, 1)
  <2>1. <<"server", "db">> \in Seq(ServerUnit)
    BY DEF ServerUnit, Core
  <2>2. Piece(Steps("volume", <<"server", "db">>), S, 1, 1)
    BY <2>1, RemovalPieces
  <2>3. QED BY <2>2, PerhapsPiece
<1>8. Piece(i, S, 1, 1)
  <2>1. <<"server">> \in Seq(ServerUnit)
    BY Few DEF ServerUnit, Core
  <2>2. <<"server">> \o Instantiated \in Seq(ServerUnit)
    BY <1>4, <2>1, Concat
  <2>3. (<<"server">> \o Instantiated) \o Plain \in Seq(ServerUnit)
    BY <1>4, <2>2, Concat
  <2>4. q \in Seq(ServerUnit)
    BY <2>3, ChosenElems DEF Purged
  <2>5. Piece(Steps("purge", q), S, 1, 1)
    BY <2>4, RemovalPieces
  <2>6. QED BY <2>5, PerhapsPiece
<1>9. Piece(d, S, 2, 2)
  <2>1. ReportFirst \in Seq(DBCredential) /\ DBCredential \subseteq Credentials
    BY OrderOf DEF Credentials
  <2>2. ReportFirst \in Seq(Credentials)
    BY <2>1
  <2>3. QED BY <2>1, <2>2, RemovalPieces
<1>10. Piece(c, S, 2, 2)
  <2>1. << <<"tls", "db">>, <<"tls", "server">> >> \in Seq(TLS)
    BY DEF TLS
  <2>2. QED BY <2>1, RemovalPieces
<1>11. Piece(m, S, 2, 2)
  <2>1. <<"admin">> \in Seq({"admin"}) /\ <<"admin">> \in Seq(Credentials)
    BY Few DEF Credentials
  <2>2. {"admin"} \in SUBSET (DBCredential \cup {"admin"})
    OBVIOUS
  <2>3. QED BY <2>1, <2>2, RemovalPieces
<1>12. UninstallSteps(f) = s9 \o m
  BY DEF UninstallSteps
<1> HIDE DEF S, a, b, t, p, v, i, n, d, c, m
<1>13. Piece(s2, S, 1, 1) /\ Range(a) \subseteq Range(s2)
  BY <1>3, Alike
<1> HIDE DEF s2
<1>14. Piece(s3, S, 1, 1) /\ Range(s3) = Range(s2) \cup Range(t)
  <2>1. Piece(t, S, 1, 1)
    BY <1>5
  <2>2. Piece(s2 \o t, S, 1, 1)
    BY <1>13, <2>1, Alike
  <2>3. s2 \in Seq(S) /\ t \in Seq(S)
    BY <1>13, <2>1 DEF Piece
  <2>4. Range(s2 \o t) = Range(s2) \cup Range(t)
    BY <2>3, Concat
  <2>5. QED BY <2>2, <2>4
<1> HIDE DEF s3
<1>15. Piece(s4, S, 1, 1) /\ Range(s4) = Range(s3) \cup Range(p)
  <2>1. Piece(p, S, 1, 1)
    BY <1>6
  <2>2. Piece(s3 \o p, S, 1, 1)
    BY <1>14, <2>1, Alike
  <2>3. s3 \in Seq(S) /\ p \in Seq(S)
    BY <1>14, <2>1 DEF Piece
  <2>4. Range(s3 \o p) = Range(s3) \cup Range(p)
    BY <2>3, Concat
  <2>5. QED BY <2>2, <2>4
<1> HIDE DEF s4
<1>16. Piece(s7, S, 1, 1) /\ Range(s4) \subseteq Range(s7)
  <2>1. Piece(s4, S, 1, 1)
    BY <1>15
  <2>2. Piece(s4 \o v, S, 1, 1) /\ Range(s4) \subseteq Range(s4 \o v)
    <3>1. Piece(s4 \o v, S, 1, 1)
      BY <1>7, <2>1, Alike
    <3>2. s4 \in Seq(S) /\ v \in Seq(S)
      BY <1>7, <2>1 DEF Piece
    <3>3. Range(s4 \o v) = Range(s4) \cup Range(v)
      BY <3>2, Concat
    <3>4. QED BY <3>1, <3>3
  <2>3. Piece((s4 \o v) \o i, S, 1, 1) /\ Range(s4) \subseteq Range((s4 \o v) \o i)
    BY <1>8, <2>2, Alike
  <2>4. QED BY <1>3, <2>3, Alike
<1> HIDE DEF s7
<1>17. Piece(s9, S, 1, 2) /\ Range(s7) \subseteq Range(s9)
  <2>1. Piece(s7 \o d, S, 1, 2) /\ Range(s7) \subseteq Range(s7 \o d)
    BY <1>9, <1>16, Appended
  <2>2. QED BY <1>10, <2>1, Appended
<1> HIDE DEF s9
<1>18. Piece(s9 \o m, S, 1, 2) /\ Range(s9) \subseteq Range(s9 \o m)
  BY <1>11, <1>17, Appended
<1>19. Range(a) \cup Range(t) \cup Range(p) \subseteq Range(UninstallSteps(f))
  BY <1>12, <1>13, <1>14, <1>15, <1>16, <1>17, <1>18
<1>20. ASSUME NEW u \in ServerUnit
       PROVE  \/ <<"uninstall", u>> \in Range(UninstallSteps(f))
              \/ <<"template", u>> \in Range(UninstallSteps(f))
  <2>1. u = "server" \/ u \in Range(Plain) \/ u \in Range(Instantiated)
    BY <1>4 DEF ServerUnit, Core
  <2>2. CASE u = "server"
    BY <1>3, <1>19, <2>2
  <2>3. CASE u \in Range(Plain)
    BY <1>6, <1>19, <2>3
  <2>4. CASE u \in Range(Instantiated)
    BY <1>5, <1>19, <2>4
  <2>5. QED BY <2>1, <2>2, <2>3, <2>4
<1>21. Piece(UninstallSteps(f), S, 1, 2)
  BY <1>12, <1>18
<1>22. QED BY <1>20, <1>21 DEF S

-----------------------------------------------------------------------------
(* The commands of the server *)

\* What a command finds: nothing is left to do.
LEMMA AtRest ==
  ASSUME Idle
  PROVE  Left = {} /\ Due = Made
<1>1. todo = <<>>
  BY DEF Idle
<1>2. Left = {}
  BY <1>1, Few DEF Left
<1>3. QED BY <1>2 DEF Due

\* A command begins: what there is to show of its steps.
LEMMA ServerBegins ==
  ASSUME ServerHost, HostTypeOK, NEW f, NEW s, Begin(f, s),
         UNCHANGED <<unit, mounts, image, stuck, store, unmade>>,
         NEW S, Piece(s, S, 1, 7), S \subseteq SetupSteps \/ S \subseteq RemovalSteps,
         "force" \in f => kept', Supplied', AllPaired', PutInPairs', Certified', Login1',
         <<"write", "server">> \in Range(s) => "install" \in f \/ "server" \in unit,
         "force" \in f => \A u \in unit : <<"uninstall", u>> \in Range(s) \/ <<"template", u>> \in Range(s),
         Range(s) \cap Inspections # {} => conf' # 0 /\ <<"enable", "db">> \in Range(s)
  PROVE  ServerHost'
<1>1. /\ todo' = s /\ flags' = f /\ gen' = gen + 1 /\ gen \in Nat
  BY HostAssumption DEF Begin, HostTypeOK, Generation
<1>2. Left' = Range(s)
  BY <1>1 DEF Left
<1>3. Present' = Present /\ Made' = Made
  BY DEF Present, HasSecret, Made
<1>4. ServerTodo'
  <2>1. s \in Seq(S) /\ Staged(s)
    BY DEF Piece
  <2>2. s \in Seq(SetupSteps) \/ s \in Seq(RemovalSteps)
    BY <2>1
  <2>3. QED BY <1>1, <2>1, <2>2 DEF ServerTodo, SetupSteps, RemovalSteps
<1>5. UnitsUsable'
  BY <1>3 DEF ServerHost, HostInv, UnitsUsable, Made
<1>6. Removed'
  BY <1>1, <1>2 DEF Removed
<1>7. ~Idle' => gen' # 0
  BY <1>1
<1>8. unit' \subseteq ServerUnit /\ ("db" \in unit' => mounts'["db"] = DBMounts)
  BY DEF ServerHost, ServerInv, Inspects
<1>9. Known'
  BY <1>1, <1>2 DEF ServerHost, ServerInv, Known
<1>10. Inspects'
  <2>1. ASSUME Left' \cap Inspections # {} PROVE conf' # 0 /\ <<"enable", "db">> \in Left'
    BY <1>2, <2>1
  <2>2. QED BY <1>8, <2>1 DEF Inspects, Inspections, DBMounts, Halves, Half
<1>11. "force" \in flags' => kept'
  BY <1>1
<1>12. HostInv'
  BY <1>5, <1>6, <1>7 DEF HostInv
<1>13. ServerInv'
  BY <1>4, <1>8, <1>9, <1>10, <1>11 DEF ServerInv, ServerUnit, Core
<1>14. QED BY <1>12, <1>13 DEF ServerHost

LEMMA BeginInstallKept ==
  ASSUME ServerHost, HostTypeOK, BeginInstall
  PROVE  ServerHost'
<1>1. PICK scc \in BOOLEAN, wanted \in SUBSET Satellite :
        Begin({"install", "changed"} \cup wanted, InstallSteps(scc))
  BY DEF BeginInstall
<1> DEFINE f == {"install", "changed"} \cup wanted
           s == InstallSteps(scc)
<1>2. /\ Begin(f, s) /\ Idle /\ "server" \notin unit
      /\ UNCHANGED <<unit, mounts, image, stuck, store, unmade, data, conf, legacy>>
      /\ kept' = (data # 0 \/ conf # 0)
  BY <1>1 DEF BeginInstall, Begin, services, resources, history, volumes
<1>3. /\ Piece(s, Installing(scc), 1, 6)
      /\ {"put"} \X TLS \subseteq Range(s) /\ {"put"} \X Halves(DBCredential) \subseteq Range(s)
      /\ {"put"} \X Halves({"admin"}) \subseteq Range(s)
      /\ scc => {"put"} \X Halves({"scc"}) \subseteq Range(s)
  BY InstallStepsAre
<1>4. "force" \notin f /\ "install" \in f
  BY SecretNames
<1> HIDE DEF f, s
<1>5. todo' = s /\ Left' = Range(s)
  BY <1>2 DEF Begin, Left
<1>6. Present' = Present /\ Made' = Made /\ Due = Made
  BY <1>2, AtRest DEF Present, HasSecret, Made
<1>7. /\ TLS \subseteq Due' /\ \A c \in DBCredential \cup {"admin"} : Halves({c}) \subseteq Due'
      /\ scc => Halves({"scc"}) \subseteq Due'
  <2>1. ASSUME NEW M, M \subseteq Secret, {"put"} \X M \subseteq Range(s) PROVE M \subseteq Due'
    <3>1. ASSUME NEW m \in M PROVE m \in Due'
      <4>1. <<"put", m>> \in Left'
        BY <1>5, <2>1, <3>1
      <4>2. m \in Secret
        BY <2>1, <3>1
      <4>3. QED BY <4>1, <4>2 DEF Due
    <3>2. QED BY <3>1
  <2>2. TLS \subseteq Secret
    BY SecretNames DEF ServerSecret
  <2>3. ASSUME NEW c \in DBCredential PROVE Halves({c}) \subseteq Due'
    <3>1. Halves({c}) \subseteq Halves(DBCredential) /\ c \in Credentials
      BY <2>3 DEF Halves, Credentials
    <3>2. Halves({c}) \subseteq Secret
      BY <3>1, SecretNames
    <3>3. {"put"} \X Halves({c}) \subseteq Range(s)
      BY <1>3, <3>1
    <3>4. QED BY <2>1, <3>2, <3>3
  <2>4. Halves({"admin"}) \subseteq Secret /\ Halves({"scc"}) \subseteq Secret
    BY SecretNames DEF Credentials
  <2>5. TLS \subseteq Due'
    BY <1>3, <2>1, <2>2
  <2>6. Halves({"admin"}) \subseteq Due' /\ (scc => Halves({"scc"}) \subseteq Due')
    BY <1>3, <2>1, <2>4
  <2>7. QED BY <2>3, <2>5, <2>6
<1>8. \A x \in Range(s) : x \in Installing(scc)
  BY <1>3 DEF Piece, Range
<1>9. Supplied'
  <2>1. TLS \subseteq Due' /\ \A c \in DBCredential : Halves({c}) \subseteq Due'
    BY <1>7
  <2>2. QED BY <2>1 DEF Supplied, TLS, Halves, Half
<1>10. Paired("scc") /\ Made \subseteq Due'
  BY <1>6 DEF ServerHost, ServerInv, AllPaired, Due
<1>11. AllPaired'
  <2>1. ASSUME NEW c \in DBCredential \cup {"admin"} PROVE Paired(c)'
    <3>1. Halves({c}) \subseteq Due'
      BY <1>7
    <3>2. QED BY <3>1 DEF Paired, Halves, Half
  <2>2. Paired("scc")'
    BY <1>6, <1>10 DEF Paired, Halves, Half
  <2>3. \A c \in Credentials : Paired(c)'
    BY <2>1, <2>2 DEF Credentials
  <2>4. QED BY <2>2, <2>3 DEF AllPaired, Credentials
<1>12. PutInPairs'
  <2>1. SUFFICES ASSUME NEW c \in Credentials, NEW h \in Half, <<"put", <<c, h>>>> \in Left'
                 PROVE  Halves({c}) \subseteq Due'
    BY DEF PutInPairs, Credentials, Half, Halves
  <2>2. CASE c = "scc"
    <3>1. <<"put", <<c, h>>>> \in Installing(scc)
      BY <1>5, <1>8, <2>1
    <3>2. <<c, h>> \in Halves({"scc"})
      BY <2>2 DEF Halves
    <3>3. scc
      BY <3>1, <3>2 DEF Installing
    <3>4. QED BY <1>7, <2>2, <3>3
  <2>3. CASE c # "scc"
    BY <1>7, <2>3 DEF Credentials
  <2>4. QED BY <2>2, <2>3
<1>13. Certified'
  BY <1>2 DEF Certified
<1>14. Login1'
  BY <1>2 DEF Login1
<1>15. Range(s) \cap Inspections = {}
  <2>1. ASSUME NEW x \in Range(s), x \in Inspections PROVE FALSE
    <3>1. x[1] = "inspected"
      BY <2>1, PairOf DEF Inspections
    <3>2. QED BY <1>8, <2>1, <3>1 DEF Installing
  <2>2. QED BY <2>1
<1>16. Piece(s, Installing(scc), 1, 7) /\ Installing(scc) \subseteq SetupSteps
  BY <1>3 DEF Piece, Installing
<1>17. QED BY <1>2, <1>4, <1>9, <1>11, <1>12, <1>13, <1>14, <1>15, <1>16, ServerBegins

\* What an upgrade and a PTF begin with.
LEMMA UpgradeKept ==
  ASSUME ServerHost, HostTypeOK, "server" \in unit,
         NEW f, NEW inspected \in BOOLEAN, NEW l, Piece(l, Upgrading, 6, 6), "force" \notin f,
         Begin(f, UpgradeSteps(inspected, l)),
         UNCHANGED <<services, resources, history, volumes, settings>>
  PROVE  ServerHost'
<1> DEFINE s == UpgradeSteps(inspected, l)
<1>1. /\ Begin(f, s) /\ Idle
      /\ UNCHANGED <<unit, mounts, image, stuck, store, unmade, data, conf, legacy, kept>>
  BY DEF Begin, services, resources, history, volumes, settings
<1>2. /\ Piece(s, Upgrading, 1, 7) /\ {"complete"} \X DBCredential \subseteq Range(s)
      /\ <<"enable", "db">> \in Range(s)
      /\ "localhost" \in legacy => {"put"} \X TLS \subseteq Range(s)
  BY UpgradeStepsAre
<1> HIDE DEF s
<1>3. todo' = s /\ Left' = Range(s)
  BY <1>1 DEF Begin, Left
<1>4. Present' = Present /\ Made' = Made /\ Due = Made /\ Due \subseteq Due'
  BY <1>1, AtRest DEF Present, HasSecret, Made, Due
<1>5. \A x \in Range(s) : x \in Upgrading
  BY <1>2 DEF Piece, Range
<1>6. TLS \subseteq Due'
  <2>1. CASE "localhost" \in legacy
    <3>1. ASSUME NEW m \in TLS PROVE m \in Due'
      <4>1. <<"put", m>> \in Left' /\ m \in Secret
        BY <1>2, <1>3, <2>1, <3>1, SecretNames DEF ServerSecret
      <4>2. QED BY <4>1 DEF Due
    <3>2. QED BY <3>1
  <2>2. CASE "localhost" \notin legacy
    BY <1>4, <2>2 DEF ServerHost, ServerInv, Certified
  <2>3. QED BY <2>1, <2>2
<1>7. Supplied'
  <2>1. \A c \in DBCredential : <<"complete", c>> \in Left'
    BY <1>2, <1>3
  <2>2. QED BY <1>6, <2>1 DEF Supplied, TLS, Halves, Half
<1>8. AllPaired'
  <2>1. AllPaired
    BY DEF ServerHost, ServerInv
  <2>2. \A c \in Credentials, h \in Half :
          <<c, h>> \in Present' => <<c, h>> \in Present \/ Halves({c}) \subseteq Due'
    BY <1>4
  <2>3. QED BY <1>4, <2>1, <2>2, PairsKept
<1>9. PutInPairs' /\ Left' \cap ({"put"} \X Halves({"db"})) = {}
  <2>1. ASSUME NEW c \in Credentials, NEW h \in Half, <<"put", <<c, h>>>> \in Left' PROVE FALSE
    <3>1. <<"put", <<c, h>>>> \in Upgrading
      BY <1>3, <1>5, <2>1
    <3>2. <<c, h>> \in TLS
      BY <3>1 DEF Upgrading
    <3>3. <<c, h>> \in Halves(Credentials)
      BY DEF Halves
    <3>4. QED BY <3>2, <3>3, SecretNames
  <2>2. ASSUME NEW x \in Left', x \in {"put"} \X Halves({"db"}) PROVE FALSE
    <3>1. x = <<"put", x[2]>> /\ x[2] \in Halves({"db"})
      BY <2>2, PairOf
    <3>2. x[2] = <<"db", x[2][2]>> /\ x[2][2] \in Half
      BY <3>1, PairOf DEF Halves
    <3>3. "db" \in Credentials
      BY SecretNames
    <3>4. QED BY <2>1, <2>2, <3>1, <3>2, <3>3
  <2>3. PutInPairs'
    BY <2>1 DEF PutInPairs, Credentials, Half, Halves
  <2>4. QED BY <2>2, <2>3
<1>10. Certified'
  BY <1>6 DEF Certified, TLS
<1>11. Login1'
  <2>1. Login1
    BY DEF ServerHost, ServerInv
  <2>2. SUFFICES ASSUME ~kept', data' # 0 \/ conf' # 0
                 PROVE  /\ data' # 0 /\ conf' # 0 => data' = conf'
                        /\ HasSecret(Login)' => store'[Login] \in {data', conf'}
                        /\ \E h \in Half : HasSecret(<<"db", h>>)'
                        /\ Left' \cap ({"put"} \X Halves({"db"})) = {}
    BY DEF Login1, Login, Half, Halves
  <2>3. /\ data # 0 /\ conf # 0 => data = conf
        /\ HasSecret(Login) => store[Login] \in {data, conf}
        /\ \E h \in Half : HasSecret(<<"db", h>>)
    BY <1>1, <2>1, <2>2 DEF Login1
  <2>4. HasSecret(Login)' => store'[Login] \in {data', conf'}
    BY <1>1, <2>3 DEF HasSecret, Login
  <2>5. \E h \in Half : HasSecret(<<"db", h>>)'
    BY <1>1, <2>3 DEF HasSecret
  <2>6. QED BY <1>1, <1>9, <2>3, <2>4, <2>5
<1>12. ASSUME Range(s) \cap Inspections # {} PROVE conf' # 0 /\ <<"enable", "db">> \in Range(s)
  <2>1. PICK x \in Range(s) : x \in Inspections
    BY <1>12
  <2>2. x[1] = "inspected"
    BY <2>1, PairOf DEF Inspections
  <2>3. QED BY <1>1, <1>2, <1>5, <2>1, <2>2 DEF Upgrading
<1>13. Upgrading \subseteq SetupSteps
  BY DEF Upgrading
<1>14. QED BY <1>1, <1>2, <1>7, <1>8, <1>9, <1>10, <1>11, <1>12, <1>13, ServerBegins

\* A command that has none of the steps of the secrets.
LEMMA PlainKept ==
  ASSUME ServerHost, HostTypeOK, NEW f, NEW s, Begin(f, s), NEW S, Piece(s, S, 1, 7),
         S \subseteq SetupSteps \/ S \subseteq RemovalSteps,
         \A x \in Range(s) : x[1] \notin {"put", "write", "split", "satellite", "complete", "inspected"},
         UNCHANGED <<unit, mounts, image, stuck, store, unmade, data, conf>>,
         kept => kept', "force" \in f => kept', "localhost" \in legacy => "localhost" \in legacy',
         "force" \in f => \A u \in unit : <<"uninstall", u>> \in Range(s) \/ <<"template", u>> \in Range(s)
  PROVE  ServerHost'
<1>1. Idle /\ todo' = s /\ Left' = Range(s)
  BY DEF Begin, Left
<1>2. Left = {} /\ Due = Made
  BY <1>1, AtRest
<1>3. Present' = Present /\ Made' = Made /\ Due \subseteq Due'
  BY <1>2 DEF Present, HasSecret, Made, Due
<1>4. /\ Left' \cap Uses = {} /\ Left' \cap Pairs = {} /\ Left' \cap Inspections = {}
      /\ \A m : <<"put", m>> \notin Left'
  <2>1. ASSUME NEW x \in Uses PROVE x[1] \in {"write", "satellite", "split"}
    <3>1. x \in {"write"} \X Core \/ x \in {"satellite"} \X Satellite \/ x = <<"split", "server">>
      BY <2>1, Zenon DEF Uses
    <3>2. QED BY <3>1, PairOf
  <2>2. ASSUME NEW x \in Pairs PROVE x[1] \in {"write", "complete"}
    <3>1. x \in {"complete"} \X DBCredential \/ x = <<"write", "server">>
      BY <2>2, Zenon DEF Pairs
    <3>2. QED BY <3>1, PairOf
  <2>3. \A x \in Inspections : x[1] = "inspected"
    BY PairOf DEF Inspections
  <2>4. QED BY <1>1, <2>1, <2>2, <2>3
<1>5. Supplied'
  BY <1>4 DEF Supplied, Uses
<1>6. AllPaired'
  <2>1. AllPaired
    BY DEF ServerHost, ServerInv
  <2>2. \A c \in Credentials, h \in Half :
          <<c, h>> \in Present' => <<c, h>> \in Present \/ Halves({c}) \subseteq Due'
    BY <1>3
  <2>3. QED BY <1>3, <1>4, <2>1, <2>2, PairsKept
<1>7. PutInPairs'
  BY <1>4 DEF PutInPairs
<1>8. Certified'
  <2>1. Certified /\ Supplied
    BY DEF ServerHost, ServerInv
  <2>2. QED BY <1>3, <2>1, CertifiedKept
<1>9. Login1'
  <2>1. Login1
    BY DEF ServerHost, ServerInv
  <2>2. Left' \cap ({"put"} \X Halves({"db"})) = {}
    <3>1. ASSUME NEW x \in Left', x \in {"put"} \X Halves({"db"}) PROVE FALSE
      BY <1>4, <3>1, PairOf
    <3>2. QED BY <3>1
  <2>3. SUFFICES ASSUME ~kept', data' # 0 \/ conf' # 0
                 PROVE  /\ data' # 0 /\ conf' # 0 => data' = conf'
                        /\ HasSecret(Login)' => store'[Login] \in {data', conf'}
                        /\ \E h \in Half : HasSecret(<<"db", h>>)'
    BY <2>2 DEF Login1, Login, Half, Halves
  <2>4. /\ data # 0 /\ conf # 0 => data = conf
        /\ HasSecret(Login) => store[Login] \in {data, conf}
        /\ \E h \in Half : HasSecret(<<"db", h>>)
    BY <2>1, <2>3 DEF Login1
  <2>5. HasSecret(Login)' => store'[Login] \in {data', conf'}
    BY <2>4 DEF HasSecret, Login
  <2>6. \E h \in Half : HasSecret(<<"db", h>>)'
    BY <2>4 DEF HasSecret
  <2>7. QED BY <2>4, <2>5, <2>6
<1>10. <<"write", "server">> \notin Range(s)
  BY <1>1, <1>4 DEF Pairs
<1>11. QED BY <1>1, <1>4, <1>5, <1>6, <1>7, <1>8, <1>9, <1>10, ServerBegins

LEMMA BeginUpgradeKept ==
  ASSUME ServerHost, HostTypeOK, BeginUpgrade \/ BeginServerPTF
  PROVE  ServerHost'
<1>1. UNCHANGED <<services, resources, history, volumes, settings>>
  BY DEF BeginUpgrade, BeginServerPTF
<1>2. {"satellite", "launch"} \X Satellite \subseteq Upgrading
  BY UpgradingHas
<1>3. Piece(AllSatellites, Upgrading, 6, 6) /\ \A T : Piece(Chosen(AllSatellites, T), Upgrading, 6, 6)
  BY <1>2, AllSatellitesAre
<1>4. "force" \notin Satellite
  BY SecretNames
<1>5. CASE BeginUpgrade
  <2>1. PICK f \in {{}} \cup {{"changed"} \cup wanted : wanted \in SUBSET Satellite} :
          Begin(f, UpgradeSteps("coco" \in Satellite, AllSatellites))
    BY <1>5 DEF BeginUpgrade
  <2>2. "server" \in unit
    BY <1>5 DEF BeginUpgrade
  <2>3. "force" \notin f
    BY <1>4
  <2>4. ("coco" \in Satellite) \in BOOLEAN
    OBVIOUS
  <2>5. QED BY <1>1, <1>3, <2>1, <2>2, <2>3, <2>4, UpgradeKept
<1>6. CASE BeginServerPTF
  <2>1. PICK found \in SUBSET {u \in Satellite : image[u] # "none"} :
          Begin({}, IF image["db"] = "none" THEN Step("network", "server")
                    ELSE UpgradeSteps("coco" \in found, PTFSatellites(found)))
    BY <1>6 DEF BeginServerPTF
  <2>2. "server" \in unit
    BY <1>6 DEF BeginServerPTF, ServerHost, ServerInv, Known
  <2>3. CASE image["db"] = "none"
    <3> DEFINE s == Step("network", "server")
    <3>1. Begin({}, s)
      BY <2>1, <2>3
    <3>2. <<"network", "server">> \in SetupSteps /\ Stage(<<"network", "server">>) = 0
      BY InSetup DEF Stage
    <3>3. Piece(s, SetupSteps, 1, 1) /\ Range(s) = {<<"network", "server">>}
      BY <3>2, OneStep
    <3> HIDE DEF s
    <3>4. Piece(s, SetupSteps, 1, 7)
      BY <3>3 DEF Piece
    <3>5. \A x \in Range(s) : x[1] \notin {"put", "write", "split", "satellite", "complete", "inspected"}
      BY <3>3
    <3>6. UNCHANGED <<unit, mounts, image, stuck, store, unmade, data, conf, kept, legacy>>
      BY <1>1 DEF services, resources, history, volumes, settings
    <3>7. QED BY <3>1, <3>4, <3>5, <3>6, PlainKept
  <2>4. CASE image["db"] # "none"
    <3>1. Begin({}, UpgradeSteps("coco" \in found, PTFSatellites(found)))
      BY <2>1, <2>4
    <3>2. Piece(PTFSatellites(found), Upgrading, 6, 6)
      BY <1>3 DEF PTFSatellites
    <3>3. ("coco" \in found) \in BOOLEAN
      OBVIOUS
    <3>4. QED BY <1>1, <2>2, <3>1, <3>2, <3>3, UpgradeKept
  <2>5. QED BY <2>3, <2>4
<1>7. QED BY <1>5, <1>6

LEMMA BeginOtherKept ==
  ASSUME ServerHost, HostTypeOK, UpgradeCleansPorts \/ BeginUninstall
  PROVE  ServerHost'
<1>1. UNCHANGED <<unit, mounts, image, stuck, store, unmade, data, conf>>
  BY DEF UpgradeCleansPorts, BeginUninstall, services, resources, history, volumes
<1>2. CASE UpgradeCleansPorts
  <2> DEFINE s == <<>>
  <2>1. Begin({}, s) /\ kept' = kept /\ ("localhost" \in legacy => "localhost" \in legacy')
    BY <1>2 DEF UpgradeCleansPorts
  <2>2. s \in Seq(SetupSteps) /\ Staged(s) /\ Range(s) = {}
    BY Few, StagedFew
  <2> HIDE DEF s
  <2>3. Piece(s, SetupSteps, 1, 7)
    BY <2>2 DEF Piece
  <2>4. \A x \in Range(s) : x[1] \notin {"put", "write", "split", "satellite", "complete", "inspected"}
    BY <2>2
  <2>5. QED BY <1>1, <2>1, <2>3, <2>4, PlainKept
<1>3. CASE BeginUninstall
  <2>1. PICK f \in SUBSET {"force", "volumes", "images"} :
          Begin(f, UninstallSteps(f)) /\ kept' = (kept \/ "force" \in f)
    BY <1>3 DEF BeginUninstall
  <2> DEFINE s == UninstallSteps(f)
  <2>2. /\ Piece(s, RemovalSteps, 1, 2)
        /\ \A u \in ServerUnit : <<"uninstall", u>> \in Range(s) \/ <<"template", u>> \in Range(s)
    BY UninstallStepsAre
  <2>3. Begin(f, s) /\ kept' = (kept \/ "force" \in f) /\ legacy' = legacy
    BY <1>3, <2>1 DEF BeginUninstall
  <2> HIDE DEF s
  <2>4. Piece(s, RemovalSteps, 1, 7)
    BY <2>2 DEF Piece
  <2>5. \A x \in Range(s) : x[1] \notin {"put", "write", "split", "satellite", "complete", "inspected"}
    <3>1. \A x \in Range(s) : x \in RemovalSteps
      BY <2>2 DEF Piece, Range
    <3>2. QED BY <3>1, RemovalStepIs
  <2>6. unit \subseteq ServerUnit
    BY DEF ServerHost, ServerInv
  <2>7. /\ kept => kept'
        /\ "force" \in f => kept'
        /\ \A u \in unit : <<"uninstall", u>> \in Range(s) \/ <<"template", u>> \in Range(s)
    BY <2>2, <2>3, <2>6
  <2>8. QED BY <1>1, <2>3, <2>4, <2>5, <2>7, PlainKept
<1>4. QED BY <1>2, <1>3

\* The server's host stays as it should be.
LEMMA ServerStays ==
  ASSUME ServerHost, HostTypeOK, ServerNext
  PROVE  ServerHost'
<1>1. CASE HostNext /\ UNCHANGED serverVars
  <2>1. CASE PurgeImage \/ NetworkStep \/ DropNetwork \/ DeleteContainer
    BY <1>1, <2>1, QuietHost
  <2>2. CASE PutStep
    BY <1>1, <2>2, PutKept
  <2>3. CASE PutIfMissing
    BY <1>1, <2>3, CompleteKept
  <2>4. CASE DropSecret
    BY <1>1, <2>4, DropKept
  <2>5. CASE UninstallInstantiated
    BY <1>1, <2>5, RemovesKept
  <2>6. QED BY <1>1, <2>1, <2>2, <2>3, <2>4, <2>5 DEF HostNext
<1>2. CASE Interrupt(At("put")) /\ UNCHANGED serverVars
  BY <1>2, PutKept
<1>3. CASE \/ PrepareImages \/ Wait \/ WriteEnv \/ Trust \/ StopCore \/ CleanConf
           \/ LaunchSatellite \/ ScaleDownSatellite
  BY <1>3, QuietSetup
<1>4. CASE DiesWhileWaited \/ Disable
  BY <1>4, QuietWorld
<1>5. CASE EnableUnit \/ StartCore \/ DeferredStart
  BY <1>5, StartsKept
<1>6. CASE WriteCore
  BY <1>6, WriteKept
<1>7. CASE SplitDatabase
  BY <1>7, SplitKept
<1>8. CASE PutInspected
  BY <1>8, InspectedKept
<1>9. CASE PrepareSatellite
  BY <1>9, SatelliteKept
<1>10. CASE PurgeVolume
  BY <1>10, PurgeVolumeKept
<1>11. CASE UninstallServerService
  BY <1>11, RemovesKept
<1>12. CASE Reboot
  BY <1>12, RebootKept
<1>13. CASE ServerCommand
  BY <1>13, BeginInstallKept, BeginUpgradeKept, BeginOtherKept DEF ServerCommand
<1>14. QED
  <2>1. ServerStep \/ ServerCommand \/ Disable \/ Reboot
    BY DEF ServerNext
  <2>2. CASE ServerStep
    BY <1>1, <1>2, <1>3, <1>4, <1>5, <1>6, <1>7, <1>8, <1>9, <1>10, <1>11, <2>2 DEF ServerStep
  <2>3. QED BY <1>4, <1>12, <1>13, <2>1, <2>2

-----------------------------------------------------------------------------
(* The types *)

\* What a step of a command is about.
LEMMA ServerArg ==
  ASSUME ServerTodo, ~Idle
  PROVE  /\ Head(todo)[1] \in {"put", "drop", "inspected"} => Arg \in Secret
         /\ Head(todo)[1] \notin {"put", "drop", "inspected", "complete"} => Arg \in Unit
         /\ Head(todo)[1] \in {"write", "satellite"} => MountsOf(Arg) \subseteq Secret
<1>1. ServerUnit \subseteq Unit /\ "server" \in Unit /\ Core \subseteq Unit /\ Satellite \subseteq Unit
  BY ServerAssumption DEF ServerUnit, Core
<1>2. ServerSecret \subseteq Secret /\ Halves({"db"}) \subseteq Secret
  BY SecretNames
<1>3. CASE todo \in Seq(SetupSteps)
  <2>1. Head(todo) \in SetupSteps
    BY <1>3, HeadAndTail DEF Idle
  <2>2. /\ Head(todo)[1] = "write" => Arg \in Core
        /\ Head(todo)[1] = "satellite" => Arg \in Satellite
    BY <2>1, SetupStepIs DEF Arg
  <2>3. Head(todo)[1] \in {"write", "satellite"} => MountsOf(Arg) \subseteq Secret
    BY <1>2, <2>2, MountsAre
  <2>4. /\ Head(todo)[1] \in {"put", "drop", "inspected"} => Arg \in Secret
        /\ Head(todo)[1] \notin {"put", "drop", "inspected", "complete"} => Arg \in Unit
    <3>1. /\ Head(todo)[1] \in {"images", "network", "env", "trust", "split", "cleanconf"} => Arg = "server"
          /\ Head(todo)[1] \in {"write", "enable", "wait", "stop", "start", "defer"} => Arg \in Core
          /\ Head(todo)[1] = "put" => Arg \in ServerSecret
          /\ Head(todo)[1] = "inspected" => Arg \in Halves({"db"})
          /\ Head(todo)[1] \in {"satellite", "launch"} => Arg \in Satellite
          /\ Head(todo)[1] # "drop"
      BY <2>1, SetupStepIs DEF Arg
    <3>2. Head(todo)[1] \in {"images", "network", "env", "trust", "split", "cleanconf",
                             "write", "enable", "wait", "stop", "start", "defer",
                             "put", "complete", "inspected", "satellite", "launch"}
      <4>1. \/ Head(todo) \in {"images", "network", "env", "trust", "split", "cleanconf"} \X {"server"}
            \/ Head(todo) \in {"write", "enable", "wait", "stop", "start", "defer"} \X Core
            \/ Head(todo) \in {"put"} \X ServerSecret \/ Head(todo) \in {"complete"} \X DBCredential
            \/ Head(todo) \in {"inspected"} \X Halves({"db"})
            \/ Head(todo) \in {"satellite", "launch"} \X Satellite
        BY <2>1, Zenon DEF SetupSteps
      <4>2. QED BY <4>1, PairOf
    <3>3. QED BY <1>1, <1>2, <3>1, <3>2
  <2>5. QED BY <2>3, <2>4
<1>4. CASE todo \in Seq(RemovalSteps)
  <2>1. Head(todo) \in RemovalSteps
    BY <1>4, HeadAndTail DEF Idle
  <2>2. /\ Head(todo)[1] \in {"uninstall", "template", "kill", "volume", "purge"} => Arg \in ServerUnit
        /\ Head(todo)[1] = "dropnetwork" => Arg = "server"
        /\ Head(todo)[1] = "drop" => Arg \in ServerSecret
        /\ Head(todo)[1] \in {"uninstall", "template", "kill", "volume", "purge", "dropnetwork", "drop"}
    BY <2>1, RemovalStepIs DEF Arg
  <2>3. QED BY <1>1, <1>2, <2>2
<1>5. QED BY <1>3, <1>4 DEF ServerTodo

\* What PrepareImage may answer.
LEMMA PrepareIs ==
  ASSUME HostTypeOK, NEW u \in Unit, NEW policy \in Policy, NEW pull \in BOOLEAN,
         NEW i \in PrepareImage(u, policy, pull)
  PROVE  i.local \subseteq Ref /\ i.ref \in Ref \cup {"absent", "error"}
<1>1. names[u] \subseteq Ref
  BY DEF HostTypeOK
<1> DEFINE l == names[u]
           Good(x) == x.local \subseteq Ref /\ x.ref \in Ref \cup {"absent", "error"}
<1>2. Good(NotPrepared(l)) /\ Good(Unfetched(l)) /\ Good(Fetched(l)) /\ Good(Loaded(l))
  BY <1>1 DEF NotPrepared, Unfetched, Fetched, Loaded, Ref
<1>3. Good([ref |-> PresentName(l), local |-> l])
  BY <1>1 DEF PresentName, Ref
<1>4. \/ i = NotPrepared(l) \/ i = [ref |-> PresentName(l), local |-> l]
      \/ i \in FromPackage(u) \/ i \in FromRegistry(l, policy, pull)
  BY DEF PrepareImage
<1>5. i \in FromPackage(u) => i = Loaded(l)
  BY DEF FromPackage
<1>6. i \in FromRegistry(l, policy, pull) => i \in {NotPrepared(l), Fetched(l), Unfetched(l)}
  BY DEF FromRegistry
<1> HIDE DEF Good
<1>7. Good(i)
  BY <1>2, <1>3, <1>4, <1>5, <1>6
<1>8. QED BY <1>7 DEF Good

LEMMA CountsTyped ==
  ASSUME HostTypeOK, \/ \E r : GoOn(r, faults) \/ Overlook(r)
                     \/ Continue \/ Abort \/ (\E r : Interrupt(r))
  PROVE  gen' \in Generation /\ faults' \in 0 .. MaxFaults
<1>1. gen \in Generation /\ faults \in 0 .. MaxFaults /\ MaxFaults \in Nat
  BY HostAssumption DEF HostTypeOK
<1>2. gen' = gen /\ (faults' \in {0, faults} \/ (faults < MaxFaults /\ faults' = faults + 1))
  BY DEF GoOn, Overlook, Continue, Abort, Interrupt
<1>3. QED BY <1>1, <1>2

\* The steps of the host, each with what it may change.
LEMMA HostTyped ==
  ASSUME HostTypeOK, At("put") \/ At("drop") => Arg \in Secret, At("template") => Arg \in Unit,
         \/ PurgeImage \/ NetworkStep \/ DropNetwork \/ PutStep \/ PutIfMissing \/ DropSecret
         \/ UninstallInstantiated \/ DeleteContainer \/ (\E b : UninstallService(b))
         \/ \E r : Interrupt(r)
  PROVE  HostTypeOK'
<1>1. /\ unit \subseteq Unit /\ enabled \subseteq Unit /\ running \subseteq Unit
      /\ mounts \in [Unit -> SUBSET Secret] /\ image \in [Unit -> Ref \cup {"none", "absent"}]
      /\ store \in [Secret -> Generation] /\ names \in [Unit -> SUBSET Ref] /\ net \in NetState
      /\ unmade \subseteq Secret /\ stuck \subseteq Unit /\ gen \in Generation /\ 0 \in Generation
  BY HostAssumption DEF HostTypeOK, Generation
<1>2. gen' \in Generation /\ faults' \in 0 .. MaxFaults
  <2>1. CASE PutIfMissing
    BY <2>1, CountsTyped DEF PutIfMissing
  <2>2. CASE \E r : Interrupt(r)
    BY <2>2, CountsTyped
  <2>3. CASE ~PutIfMissing /\ ~\E r : Interrupt(r)
    <3>1. Continue \/ Overlook(Tail(todo)) \/ Abort
      BY <2>3, HostStepIs
    <3>2. QED BY <3>1, CountsTyped
  <2>4. QED BY <2>1, <2>2, <2>3
<1>3. Pending \subseteq Secret
  BY DEF Pending
<1>4. unmade' \subseteq Secret
  <2>1. CASE PurgeImage \/ NetworkStep \/ DropNetwork \/ PutIfMissing \/ DeleteContainer
    BY <1>1, <1>3, <2>1
    DEF PurgeImage, NetworkStep, SetupNetwork, DropNetwork, PutIfMissing, DeleteContainer, Abort, history
  <2>2. CASE PutStep
    BY <1>1, <1>3, <2>2 DEF PutStep, CreateSecret, Abort
  <2>3. CASE DropSecret
    BY <1>1, <2>3 DEF DropSecret
  <2>4. CASE UninstallInstantiated \/ (\E b : UninstallService(b))
    BY <1>1, <2>4 DEF UninstallInstantiated, UninstallService
  <2>5. CASE \E r : Interrupt(r)
    BY <1>1, <1>3, <2>5 DEF Interrupt
  <2>6. QED BY <2>1, <2>2, <2>3, <2>4, <2>5
<1>5. store' \in [Secret -> Generation]
  <2>1. store' = store \/ (\E v \in Generation : store' = [store EXCEPT ![Arg] = v])
    <3>1. CASE PutStep
      BY <1>1, <3>1 DEF PutStep, CreateSecret, MadeUp
    <3>2. CASE DropSecret
      BY <1>1, <3>2 DEF DropSecret
    <3>3. CASE \E r : Interrupt(r)
      BY <1>1, <3>3 DEF Interrupt
    <3>4. CASE ~PutStep /\ ~DropSecret /\ ~\E r : Interrupt(r)
      BY <3>4 DEF PurgeImage, NetworkStep, DropNetwork, PutIfMissing, UninstallInstantiated,
                  DeleteContainer, UninstallService, resources
    <3>5. QED BY <3>1, <3>2, <3>3, <3>4
  <2>2. QED BY <1>1, <2>1
<1>6. names' \in [Unit -> SUBSET Ref] /\ net' \in NetState
  <2>1. CASE PurgeImage
    BY <1>1, <2>1 DEF PurgeImage
  <2>2. CASE NetworkStep
    BY <1>1, <2>2 DEF NetworkStep, SetupNetwork, Created, NetState
  <2>3. CASE DropNetwork
    BY <1>1, <2>3 DEF DropNetwork, NetState
  <2>4. CASE ~PurgeImage /\ ~NetworkStep /\ ~DropNetwork
    BY <1>1, <2>4 DEF PutStep, PutIfMissing, DropSecret, UninstallInstantiated, DeleteContainer,
                      UninstallService, Interrupt, resources
  <2>5. QED BY <2>1, <2>2, <2>3, <2>4
<1>7. /\ unit' \subseteq Unit /\ enabled' \subseteq Unit /\ running' \subseteq Unit
      /\ mounts' \in [Unit -> SUBSET Secret] /\ image' \in [Unit -> Ref \cup {"none", "absent"}]
      /\ stuck' \subseteq Unit
  <2>1. CASE DeleteContainer
    BY <1>1, <2>1 DEF DeleteContainer, files, history
  <2>2. CASE UninstallInstantiated \/ (\E b : UninstallService(b))
    <3>1. CASE \E b : RemoveUnit(Arg, b)
      BY <1>1, <3>1 DEF RemoveUnit, RemoveFiles, DisableNow
    <3>2. CASE UNCHANGED <<services, stuck>>
      BY <1>1, <3>2 DEF services
    <3>3. QED BY <2>2, <3>1, <3>2 DEF UninstallInstantiated, UninstallService
  <2>3. CASE ~DeleteContainer /\ ~UninstallInstantiated /\ ~\E b : UninstallService(b)
    <3>1. UNCHANGED <<services, stuck>>
      BY <2>3 DEF PurgeImage, NetworkStep, DropNetwork, PutStep, PutIfMissing, DropSecret, Interrupt,
                  services, history
    <3>2. QED BY <1>1, <3>1 DEF services
  <2>4. QED BY <2>1, <2>2, <2>3
<1>8. QED BY <1>2, <1>4, <1>5, <1>6, <1>7 DEF HostTypeOK, Generation

\* The server's own steps.
LEMMA ServerCounts ==
  ASSUME HostTypeOK,
         \/ PrepareImages \/ WriteCore \/ EnableUnit \/ Wait \/ DiesWhileWaited \/ WriteEnv \/ Trust
         \/ StopCore \/ StartCore \/ DeferredStart \/ SplitDatabase \/ CleanConf \/ PutInspected
         \/ PrepareSatellite \/ LaunchSatellite \/ ScaleDownSatellite \/ PurgeVolume
         \/ ServerCommand \/ Disable \/ Reboot
  PROVE  gen' \in Generation /\ faults' \in 0 .. MaxFaults
<1>1. gen \in Generation /\ faults \in 0 .. MaxFaults /\ MaxFaults \in Nat /\ MaxGeneration \in Nat
  BY HostAssumption DEF HostTypeOK
<1>2. CASE Continue \/ Abort \/ \E r : Overlook(r)
  BY <1>2, CountsTyped
<1>3. CASE StopCore
  <2>1. Abort \/ UNCHANGED <<gen, faults>>
    BY <1>3 DEF StopCore
  <2>2. QED BY <1>1, <1>2, <2>1
<1>4. CASE PutInspected \/ PrepareSatellite
  <2>1. Continue \/ \E r : Overlook(r)
    BY <1>4 DEF PutInspected, PrepareSatellite, WriteSatellite
  <2>2. QED BY <1>2, <2>1
<1>5. CASE DiesWhileWaited \/ Disable \/ Reboot
  BY <1>1, <1>5 DEF DiesWhileWaited, Disable, Reboot, call
<1>6. CASE ServerCommand
  <2>1. \E f, s : Begin(f, s)
    BY <1>6 DEF ServerCommand, BeginInstall, BeginUpgrade, BeginServerPTF, UpgradeCleansPorts, BeginUninstall
  <2>2. QED BY <1>1, <2>1 DEF Begin, Generation
<1>7. QED
  <2>1. CASE \/ PrepareImages \/ WriteCore \/ EnableUnit \/ Wait \/ WriteEnv \/ Trust
             \/ StartCore \/ DeferredStart \/ SplitDatabase \/ CleanConf
             \/ LaunchSatellite \/ ScaleDownSatellite \/ PurgeVolume
    BY <1>2, <2>1, ServerStepIs
  <2>2. QED BY <1>3, <1>4, <1>5, <1>6, <2>1

\* The secrets and the images.
LEMMA ServerResources ==
  ASSUME HostTypeOK, ServerTypeOK, ServerTodo,
         \/ PrepareImages \/ WriteCore \/ EnableUnit \/ Wait \/ DiesWhileWaited \/ WriteEnv \/ Trust
         \/ StopCore \/ StartCore \/ DeferredStart \/ SplitDatabase \/ CleanConf \/ PutInspected
         \/ PrepareSatellite \/ LaunchSatellite \/ ScaleDownSatellite \/ PurgeVolume
         \/ ServerCommand \/ Disable \/ Reboot
  PROVE  /\ store' \in [Secret -> Generation] /\ unmade' \subseteq Secret
         /\ names' \in [Unit -> SUBSET Ref] /\ net' \in NetState
<1>1. /\ store \in [Secret -> Generation] /\ unmade \subseteq Secret /\ Pending \subseteq Secret
      /\ names \in [Unit -> SUBSET Ref] /\ net \in NetState /\ conf \in Generation /\ 0 \in Generation
  BY HostAssumption DEF HostTypeOK, ServerTypeOK, Pending, Generation
<1>2. CASE PutInspected
  <2>1. Arg \in Secret
    BY <1>2, ServerArg DEF PutInspected, At
  <2>2. names' = names /\ net' = net
    BY <1>2 DEF PutInspected
  <2>3. \E v \in Generation : store' = [store EXCEPT ![Arg] = v] \/ store' = store
    BY <1>1, <1>2 DEF PutInspected
  <2>4. unmade' \subseteq unmade \cup {Arg}
    BY <1>2 DEF PutInspected
  <2>5. store' \in [Secret -> Generation]
    BY <1>1, <2>3
  <2>6. QED BY <1>1, <2>1, <2>2, <2>4, <2>5
<1>3. CASE PrepareImages
  <2>1. store' = store /\ net' = net /\ unmade' \subseteq unmade \cup Pending
    BY <1>3 DEF PrepareImages, Abort
  <2>2. "server" \in Unit /\ "db" \in Unit
    BY ServerAssumption DEF ServerUnit, Core
  <2>3. PICK policy \in Policy :
          \E s \in PrepareImage("server", policy, TRUE), d \in PrepareImage("db", policy, TRUE) :
            \/ names' = [names EXCEPT !["server"] = s.local, !["db"] = d.local]
            \/ names' = [names EXCEPT !["server"] = s.local]
            \/ names' = names
    BY <1>3 DEF PrepareImages
  <2>4. PICK s \in PrepareImage("server", policy, TRUE), d \in PrepareImage("db", policy, TRUE) :
            \/ names' = [names EXCEPT !["server"] = s.local, !["db"] = d.local]
            \/ names' = [names EXCEPT !["server"] = s.local]
            \/ names' = names
    BY <2>3
  <2>5. s.local \subseteq Ref /\ d.local \subseteq Ref
    BY <2>2, PrepareIs
  <2>6. names' \in [Unit -> SUBSET Ref]
    BY <1>1, <2>4, <2>5
  <2>7. QED BY <1>1, <2>1, <2>6
<1>4. CASE PrepareSatellite
  <2>1. store' = store /\ net' = net /\ unmade' = unmade
    BY <1>4 DEF PrepareSatellite
  <2>2. Arg \in Unit
    BY <1>4, ServerArg DEF PrepareSatellite, At
  <2>3. names' = names \/ \E policy \in Policy : \E i \in PrepareImage(Arg, policy, PullEnabled(Arg)) :
                            names' = [names EXCEPT ![Arg] = i.local]
    BY <1>4 DEF PrepareSatellite
  <2>4. CASE names' = names
    BY <1>1, <2>1, <2>4
  <2>5. CASE names' # names
    <3>1. PICK policy \in Policy : \E i \in PrepareImage(Arg, policy, PullEnabled(Arg)) :
                            names' = [names EXCEPT ![Arg] = i.local]
      BY <2>3, <2>5
    <3>2. PICK i \in PrepareImage(Arg, policy, PullEnabled(Arg)) : names' = [names EXCEPT ![Arg] = i.local]
      BY <3>1
    <3>3. PullEnabled(Arg) \in BOOLEAN
      BY Zenon DEF PullEnabled
    <3>4. i.local \subseteq Ref
      BY <2>2, <3>3, PrepareIs
    <3>5. QED BY <1>1, <2>1, <3>2, <3>4
  <2>6. QED BY <2>4, <2>5
<1>5. CASE ServerCommand \/ DiesWhileWaited \/ Disable \/ Reboot
  BY <1>1, <1>5
  DEF ServerCommand, BeginInstall, BeginUpgrade, BeginServerPTF, UpgradeCleansPorts, BeginUninstall,
      DiesWhileWaited, Disable, Reboot, resources, history
<1>6. CASE \/ WriteCore \/ EnableUnit \/ Wait \/ WriteEnv \/ Trust
           \/ StopCore \/ StartCore \/ DeferredStart \/ SplitDatabase \/ CleanConf
           \/ LaunchSatellite \/ ScaleDownSatellite \/ PurgeVolume
  <2>1. UNCHANGED <<store, names, net>>
    BY <1>6 DEF WriteCore, EnableUnit, Wait, WriteEnv, Trust, StopCore, StartCore, DeferredStart,
                SplitDatabase, CleanConf, LaunchSatellite, ScaleDownSatellite, PurgeVolume, resources
  <2>2. unmade' = unmade \/ Abort
    BY <1>6 DEF WriteCore, EnableUnit, Wait, WriteEnv, Trust, StopCore, StartCore, DeferredStart,
                SplitDatabase, CleanConf, LaunchSatellite, ScaleDownSatellite, PurgeVolume, history
  <2>3. unmade' \subseteq unmade \cup Pending
    BY <2>2 DEF Abort
  <2>4. QED BY <1>1, <2>1, <2>3
<1>7. QED BY <1>2, <1>3, <1>4, <1>5, <1>6

\* The units.
LEMMA WriteUnitTyped ==
  ASSUME HostTypeOK, NEW u \in Unit, NEW m, m \subseteq Secret, NEW r \in Ref \cup {"none", "absent"},
         WriteUnit(u, m, r)
  PROVE  /\ unit' \subseteq Unit /\ mounts' \in [Unit -> SUBSET Secret] /\ stuck' \subseteq Unit
         /\ image' \in [Unit -> Ref \cup {"none", "absent"}]
<1>1. /\ unit \subseteq Unit /\ mounts \in [Unit -> SUBSET Secret] /\ stuck \subseteq Unit
      /\ image \in [Unit -> Ref \cup {"none", "absent"}]
  BY DEF HostTypeOK
<1>2. /\ unit' = unit \cup {u} /\ mounts' = [mounts EXCEPT ![u] = m]
      /\ image' = [image EXCEPT ![u] = r] /\ stuck' = stuck \ {u}
  BY DEF WriteUnit
<1>3. QED BY <1>1, <1>2

LEMMA ServerFiles ==
  ASSUME HostTypeOK, ServerTodo,
         \/ PrepareImages \/ WriteCore \/ EnableUnit \/ Wait \/ DiesWhileWaited \/ WriteEnv \/ Trust
         \/ StopCore \/ StartCore \/ DeferredStart \/ SplitDatabase \/ CleanConf \/ PutInspected
         \/ PrepareSatellite \/ LaunchSatellite \/ ScaleDownSatellite \/ PurgeVolume
         \/ ServerCommand \/ Disable \/ Reboot
  PROVE  /\ unit' \subseteq Unit /\ mounts' \in [Unit -> SUBSET Secret] /\ stuck' \subseteq Unit
         /\ image' \in [Unit -> Ref \cup {"none", "absent"}]
<1>1. /\ unit \subseteq Unit /\ mounts \in [Unit -> SUBSET Secret] /\ stuck \subseteq Unit
      /\ image \in [Unit -> Ref \cup {"none", "absent"}] /\ names \in [Unit -> SUBSET Ref]
  BY DEF HostTypeOK
<1>2. CASE UNCHANGED <<files, stuck>>
  BY <1>1, <1>2 DEF files
<1>3. ASSUME Arg \in Unit, MountsOf(Arg) \subseteq Secret,
             \E r \in Ref \cup {"none", "absent"} : WriteUnit(Arg, MountsOf(Arg), r)
      PROVE  /\ unit' \subseteq Unit /\ mounts' \in [Unit -> SUBSET Secret] /\ stuck' \subseteq Unit
             /\ image' \in [Unit -> Ref \cup {"none", "absent"}]
  BY <1>3, WriteUnitTyped
<1>4. CASE WriteCore
  <2>1. Arg \in Unit /\ MountsOf(Arg) \subseteq Secret
    BY <1>4, ServerArg DEF WriteCore, At
  <2>2. names[Arg] \subseteq Ref /\ image[Arg] \in Ref \cup {"none", "absent"}
    BY <1>1, <2>1
  <2>3. \/ \E r \in Ref \cup {"none", "absent"} : WriteUnit(Arg, MountsOf(Arg), r)
        \/ UNCHANGED <<files, stuck>>
        \/ /\ UNCHANGED <<unit, mounts, stuck>>
           /\ \E r \in names[Arg] : image' = [image EXCEPT ![Arg] = r]
    BY <1>4, <2>2 DEF WriteCore
  <2>4. CASE /\ UNCHANGED <<unit, mounts, stuck>>
             /\ \E r \in names[Arg] : image' = [image EXCEPT ![Arg] = r]
    BY <1>1, <2>1, <2>2, <2>4
  <2>5. QED BY <1>2, <1>3, <2>1, <2>3, <2>4
<1>5. CASE PrepareSatellite
  <2>1. Arg \in Unit /\ MountsOf(Arg) \subseteq Secret
    BY <1>5, ServerArg DEF PrepareSatellite, At
  <2>2. \/ UNCHANGED <<files, stuck>>
        \/ \E policy \in Policy : \E i \in PrepareImage(Arg, policy, PullEnabled(Arg)) :
             i.ref # "error" /\ WriteSatellite(i.ref)
    BY <1>5 DEF PrepareSatellite
  <2>3. ASSUME NEW policy \in Policy, NEW i \in PrepareImage(Arg, policy, PullEnabled(Arg)),
               i.ref # "error", WriteSatellite(i.ref)
        PROVE  \E r \in Ref \cup {"none", "absent"} : WriteUnit(Arg, MountsOf(Arg), r)
    <3>1. PullEnabled(Arg) \in BOOLEAN
      BY Zenon DEF PullEnabled
    <3>2. i.ref \in Ref \cup {"none", "absent"}
      BY <2>1, <2>3, <3>1, PrepareIs
    <3>3. image[Arg] \in Ref \cup {"none", "absent"}
      BY <1>1, <2>1
    <3>4. QED BY <2>3, <3>2, <3>3 DEF WriteSatellite
  <2>4. QED BY <1>2, <1>3, <2>1, <2>2, <2>3
<1>6. CASE ServerCommand \/ DiesWhileWaited \/ Disable \/ Reboot
  <2>1. UNCHANGED <<files, stuck>>
    BY <1>6 DEF ServerCommand, BeginInstall, BeginUpgrade, BeginServerPTF, UpgradeCleansPorts,
                BeginUninstall, DiesWhileWaited, Disable, Reboot, services, files, history
  <2>2. QED BY <1>2, <2>1
<1>7. CASE \/ PrepareImages \/ EnableUnit \/ Wait \/ WriteEnv \/ Trust
           \/ StopCore \/ StartCore \/ DeferredStart \/ SplitDatabase \/ CleanConf \/ PutInspected
           \/ LaunchSatellite \/ ScaleDownSatellite \/ PurgeVolume
  <2>1. UNCHANGED <<files, stuck>>
    BY <1>7 DEF PrepareImages, EnableUnit, Wait, WriteEnv, Trust, StopCore, StartCore, DeferredStart,
                SplitDatabase, CleanConf, PutInspected, LaunchSatellite, ScaleDownSatellite, PurgeVolume,
                services, files, history
  <2>2. QED BY <1>2, <2>1
<1>8. QED BY <1>4, <1>5, <1>6, <1>7

LEMMA ServerRuns ==
  ASSUME HostTypeOK, ServerTodo,
         \/ PrepareImages \/ WriteCore \/ EnableUnit \/ Wait \/ DiesWhileWaited \/ WriteEnv \/ Trust
         \/ StopCore \/ StartCore \/ DeferredStart \/ SplitDatabase \/ CleanConf \/ PutInspected
         \/ PrepareSatellite \/ LaunchSatellite \/ ScaleDownSatellite \/ PurgeVolume
         \/ ServerCommand \/ Disable \/ Reboot
  PROVE  enabled' \subseteq Unit /\ running' \subseteq Unit
<1>1. enabled \subseteq Unit /\ running \subseteq Unit /\ "server" \in Unit /\ "db" \in Unit
  BY ServerAssumption DEF HostTypeOK, ServerUnit, Core
<1>2. CASE UNCHANGED <<enabled, running>>
  BY <1>1, <1>2
<1>3. CASE EnableUnit \/ StartCore \/ DeferredStart
  <2>1. Arg \in Unit
    BY <1>3, ServerArg DEF EnableUnit, StartCore, DeferredStart, At
  <2>2. WithDB(Arg) \subseteq Unit
    BY <1>1, <2>1 DEF WithDB
  <2>3. running' = running \/ running' = running \cup WithDB(Arg)
    BY <1>3 DEF EnableUnit, StartCore, DeferredStart, Started
  <2>4. enabled' \subseteq enabled \cup {Arg}
    BY <1>3 DEF EnableUnit, StartCore, DeferredStart
  <2>5. QED BY <1>1, <2>1, <2>2, <2>3, <2>4
<1>4. CASE LaunchSatellite \/ ScaleDownSatellite
  <2>1. Arg \in Unit
    BY <1>4, ServerArg DEF LaunchSatellite, ScaleDownSatellite, At
  <2>2. enabled' \subseteq enabled \cup {Arg} /\ running' \subseteq running \cup {Arg}
    BY <1>4 DEF LaunchSatellite, ScaleDownSatellite
  <2>3. QED BY <1>1, <2>1, <2>2
<1>5. CASE StopCore \/ DiesWhileWaited \/ Disable
  BY <1>1, <1>5 DEF StopCore, DiesWhileWaited, Disable, files
<1>6. CASE Reboot
  <2>1. enabled' = enabled /\ running' \subseteq enabled \cup {"db", "server"}
    BY <1>6 DEF Reboot, WithDB
  <2>2. QED BY <1>1, <2>1
<1>7. CASE \/ PrepareImages \/ WriteCore \/ Wait \/ WriteEnv \/ Trust \/ SplitDatabase \/ CleanConf
           \/ PutInspected \/ PrepareSatellite \/ PurgeVolume \/ ServerCommand
  <2>1. UNCHANGED <<enabled, running>>
    BY <1>7 DEF PrepareImages, WriteCore, Wait, WriteEnv, Trust, SplitDatabase, CleanConf, PutInspected,
                PrepareSatellite, PurgeVolume, ServerCommand, BeginInstall, BeginUpgrade, BeginServerPTF,
                UpgradeCleansPorts, BeginUninstall, services
  <2>2. QED BY <1>2, <2>1
<1>8. QED BY <1>3, <1>4, <1>5, <1>6, <1>7

\* The data and the settings of the server.
LEMMA ServerTyped ==
  ASSUME HostTypeOK, ServerTypeOK, ServerNext
  PROVE  ServerTypeOK'
<1>1. /\ data \in Generation /\ conf \in Generation /\ legacy \subseteq Legacy
      /\ 0 \in Generation /\ store[Login] \in Generation
  <2>1. Login \in Secret
    BY SecretNames DEF Login, Halves, Half, Credentials
  <2>2. QED BY <2>1, HostAssumption DEF HostTypeOK, ServerTypeOK, Generation
<1>2. env \in BOOLEAN /\ kept \in BOOLEAN
  BY Zenon DEF ServerTypeOK
<1>3. ServerStep \/ ServerCommand \/ Disable \/ Reboot
  BY DEF ServerNext
<1>4. data' \in Generation /\ conf' \in Generation /\ legacy' \subseteq Legacy
  <2>1. CASE UNCHANGED <<data, conf, legacy>>
    BY <1>1, <2>1
  <2>2. CASE EnableUnit \/ StartCore \/ DeferredStart \/ Reboot
    <3>1. legacy' = legacy
      BY <2>2 DEF EnableUnit, StartCore, DeferredStart, Reboot, settings
    <3>2. data' \in {data, store[Login]} /\ conf' \in {conf, store[Login]}
      BY <2>2 DEF EnableUnit, StartCore, DeferredStart, Reboot, Started, volumes
    <3>3. QED BY <1>1, <3>1, <3>2
  <2>3. CASE PurgeVolume
    <3>1. legacy' = legacy /\ data' \in {data, 0} /\ conf' \in {conf, 0}
      BY <2>3 DEF PurgeVolume, volumes, settings
    <3>2. QED BY <1>1, <3>1
  <2>4. CASE CleanConf \/ SplitDatabase \/ UpgradeCleansPorts \/ UninstallServerService
    <3>1. data' = data /\ conf' = conf /\ legacy' \subseteq legacy
      BY <2>4 DEF CleanConf, SplitDatabase, UpgradeCleansPorts, UninstallServerService, volumes
    <3>2. QED BY <1>1, <3>1
  <2>5. CASE ServerStep /\ ~EnableUnit /\ ~StartCore /\ ~DeferredStart /\ ~PurgeVolume /\ ~CleanConf
             /\ ~SplitDatabase /\ ~UninstallServerService
    <3>1. UNCHANGED serverVars \/ WriteEnv
      BY <2>5 DEF ServerStep, PrepareImages, WriteCore, Wait, DiesWhileWaited, Trust, StopCore,
                  PutInspected, PrepareSatellite, LaunchSatellite, ScaleDownSatellite
    <3>2. UNCHANGED <<data, conf, legacy>>
      BY <3>1 DEF serverVars, WriteEnv, volumes
    <3>3. QED BY <2>1, <3>2
  <2>6. CASE Disable \/ BeginInstall \/ BeginUpgrade \/ BeginServerPTF \/ BeginUninstall
    <3>1. UNCHANGED <<data, conf, legacy>>
      BY <2>6 DEF Disable, BeginInstall, BeginUpgrade, BeginServerPTF, BeginUninstall,
                  serverVars, volumes, settings
    <3>2. QED BY <2>1, <3>1
  <2>7. QED BY <1>3, <2>2, <2>3, <2>4, <2>5, <2>6 DEF ServerCommand
<1>5. env' \in BOOLEAN
  <2>1. CASE ServerStep /\ ~WriteEnv /\ ~UninstallServerService
    <3>1. env' = env
      BY <2>1
      DEF ServerStep, PrepareImages, WriteCore, EnableUnit, Wait, DiesWhileWaited, Trust, StopCore,
          StartCore, DeferredStart, SplitDatabase, CleanConf, PutInspected, PrepareSatellite,
          LaunchSatellite, ScaleDownSatellite, PurgeVolume, serverVars, settings
    <3>2. QED BY <1>2, <3>1
  <2>2. CASE WriteEnv \/ UninstallServerService
    <3>1. env' = env \/ env' = TRUE \/ env' = FALSE
      BY <2>2 DEF WriteEnv, UninstallServerService
    <3>2. QED BY <1>2, <3>1
  <2>3. CASE ServerCommand \/ Disable \/ Reboot
    <3>1. env' = env
      BY <2>3 DEF ServerCommand, BeginInstall, BeginUpgrade, BeginServerPTF, UpgradeCleansPorts,
                  BeginUninstall, Disable, Reboot, serverVars, settings
    <3>2. QED BY <1>2, <3>1
  <2>4. QED BY <1>3, <2>1, <2>2, <2>3
<1>6. kept' \in BOOLEAN
  <2>1. CASE BeginInstall
    <3>1. kept' = (data # 0 \/ conf # 0)
      BY <2>1 DEF BeginInstall
    <3>2. QED BY <3>1, Zenon
  <2>2. CASE BeginUninstall
    <3>1. \E f : kept' = (kept \/ "force" \in f)
      BY <2>2 DEF BeginUninstall
    <3>2. QED BY <3>1, Zenon
  <2>3. CASE ~BeginInstall /\ ~BeginUninstall
    <3>1. CASE ServerStep
      <4>1. kept' = kept
        BY <3>1
        DEF ServerStep, PrepareImages, WriteCore, EnableUnit, Wait, DiesWhileWaited, WriteEnv, Trust,
            StopCore, StartCore, DeferredStart, SplitDatabase, CleanConf, PutInspected,
            PrepareSatellite, LaunchSatellite, ScaleDownSatellite, PurgeVolume,
            UninstallServerService, serverVars, settings
      <4>2. QED BY <1>2, <4>1
    <3>2. CASE ServerCommand \/ Disable \/ Reboot
      <4>1. kept' = kept
        BY <2>3, <3>2 DEF ServerCommand, BeginUpgrade, BeginServerPTF, UpgradeCleansPorts, Disable, Reboot,
                          serverVars, settings
      <4>2. QED BY <1>2, <4>1
    <3>3. QED BY <1>3, <3>1, <3>2
  <2>4. QED BY <2>1, <2>2, <2>3
<1>7. QED
  <2>1. ServerTypeOK' = /\ data' \in Generation /\ conf' \in Generation /\ env' \in BOOLEAN
                        /\ legacy' \subseteq Legacy /\ kept' \in BOOLEAN
    BY DEF ServerTypeOK, Generation, Legacy
  <2>2. QED BY <1>4, <1>5, <1>6, <2>1, Zenon

LEMMA ServerHostTyped ==
  ASSUME HostTypeOK, ServerTypeOK, ServerTodo, ServerNext
  PROVE  HostTypeOK'
<1>1. CASE \/ HostNext \/ Interrupt(At("put")) \/ UninstallServerService
  <2>1. (At("put") \/ At("drop") => Arg \in Secret) /\ (At("template") => Arg \in Unit)
    BY ServerArg DEF At
  <2>2. \/ PurgeImage \/ NetworkStep \/ DropNetwork \/ PutStep \/ PutIfMissing \/ DropSecret
        \/ UninstallInstantiated \/ DeleteContainer \/ (\E b : UninstallService(b))
        \/ \E r : Interrupt(r)
    BY <1>1 DEF HostNext, UninstallServerService
  <2>3. QED BY <2>1, <2>2, HostTyped
<1>2. CASE \/ PrepareImages \/ WriteCore \/ EnableUnit \/ Wait \/ DiesWhileWaited \/ WriteEnv \/ Trust
           \/ StopCore \/ StartCore \/ DeferredStart \/ SplitDatabase \/ CleanConf \/ PutInspected
           \/ PrepareSatellite \/ LaunchSatellite \/ ScaleDownSatellite \/ PurgeVolume
           \/ ServerCommand \/ Disable \/ Reboot
  <2>1. gen' \in Generation /\ faults' \in 0 .. MaxFaults
    BY <1>2, ServerCounts
  <2>2. /\ store' \in [Secret -> Generation] /\ unmade' \subseteq Secret
        /\ names' \in [Unit -> SUBSET Ref] /\ net' \in NetState
    BY <1>2, ServerResources
  <2>3. /\ unit' \subseteq Unit /\ mounts' \in [Unit -> SUBSET Secret] /\ stuck' \subseteq Unit
        /\ image' \in [Unit -> Ref \cup {"none", "absent"}]
    BY <1>2, ServerFiles
  <2>4. enabled' \subseteq Unit /\ running' \subseteq Unit
    BY <1>2, ServerRuns
  <2>5. QED BY <2>1, <2>2, <2>3, <2>4 DEF HostTypeOK, Generation
<1>3. QED BY <1>1, <1>2 DEF ServerNext, ServerStep

-----------------------------------------------------------------------------
(* The server's host before the first command *)

LEMMA ServerFound ==
  ASSUME NoCommand, unit \subseteq ServerUnit, \A u \in unit : mounts[u] \subseteq Present,
         \A c \in Credentials : (\E h \in Half : <<c, h>> \in Present) => Halves({c}) \subseteq Present,
         "server" \in unit /\ "localhost" \notin legacy => TLS \subseteq Present,
         image["server"] # "none" => "server" \in unit,
         "db" \in unit => mounts["db"] = DBMounts,
         ~kept /\ (data # 0 \/ conf # 0) =>
           /\ data # 0 /\ conf # 0 => data = conf
           /\ HasSecret(Login) => store[Login] \in {data, conf}
           /\ \E h \in Half : HasSecret(<<"db", h>>)
  PROVE  ServerHost
<1>1. /\ todo = <<>> /\ Idle /\ flags = {} /\ unmade = {} /\ stuck = {}
  BY DEF NoCommand, Idle
<1>2. Left = {} /\ Due = Present /\ Made = Present
  BY <1>1, AtRest DEF Made
<1>3. ServerTodo
  BY <1>1, Few, StagedFew DEF ServerTodo
<1>4. UnitsUsable /\ Removed
  BY <1>1 DEF UnitsUsable, Removed
<1>5. Supplied /\ PutInPairs /\ Certified /\ Known /\ Inspects
  BY <1>2 DEF Supplied, PutInPairs, Certified, Known, Inspects
<1>6. \A c \in Credentials : Paired(c)
  BY <1>2 DEF Paired
<1>7. AllPaired
  BY <1>6 DEF AllPaired, Credentials
<1>8. Login1
  BY <1>2 DEF Login1
<1>9. QED BY <1>1, <1>3, <1>4, <1>5, <1>7, <1>8 DEF ServerHost, HostInv, ServerInv

LEMMA BareTyped ==
  ASSUME NoCommand, BareHost
  PROVE  HostTypeOK
<1>1. 0 \in Generation /\ 0 \in 0 .. MaxFaults
  BY HostAssumption DEF Generation
<1>2. QED BY <1>1 DEF NoCommand, BareHost, HostTypeOK, NetState

LEMMA InstalledTyped ==
  ASSUME NoCommand, NEW units \in SUBSET ServerUnit, NEW secrets, NEW old \in SUBSET Legacy,
         Installed(units, secrets, old), secrets \subseteq ServerSecret
  PROVE  /\ HostTypeOK /\ ServerTypeOK /\ Present = secrets
         /\ \A u \in units : mounts[u] = MountsOf(u) \cap secrets
         /\ \A u \in Unit \ units : image[u] = "none"
         /\ \A m \in secrets : store[m] = 1
<1>1. /\ units \subseteq Unit /\ secrets \subseteq Secret
  BY ServerAssumption
<1>2. 0 \in Generation /\ 1 \in Generation /\ 0 \in 0 .. MaxFaults
  BY HostAssumption DEF Generation
<1>3. /\ unit = units /\ enabled = units \ Satellite /\ running = units \ Satellite
      /\ store = [s \in Secret |-> IF s \in secrets THEN 1 ELSE 0]
      /\ mounts = [u \in Unit |-> IF u \in units THEN MountsOf(u) \cap secrets ELSE {}]
      /\ image = [u \in Unit |-> IF u \in units THEN "registry" ELSE "none"]
      /\ names = [u \in Unit |-> IF u \in units THEN {"registry"} ELSE {}]
      /\ net = "v4" /\ gen = 1 /\ data = 1 /\ conf = 1 /\ legacy = old
      /\ faults = 0 /\ unmade = {} /\ stuck = {}
  BY DEF Installed, NoCommand
<1>4. unit \subseteq Unit /\ enabled \subseteq Unit /\ running \subseteq Unit
  BY <1>1, <1>3
<1>5. store \in [Secret -> Generation] /\ Present = secrets /\ \A m \in secrets : store[m] = 1
  BY <1>1, <1>2, <1>3 DEF Present, HasSecret
<1>6. mounts \in [Unit -> SUBSET Secret] /\ \A u \in units : mounts[u] = MountsOf(u) \cap secrets
  BY <1>1, <1>3
<1>7. image \in [Unit -> Ref \cup {"none", "absent"}] /\ \A u \in Unit \ units : image[u] = "none"
  BY <1>3 DEF Ref
<1>8. names \in [Unit -> SUBSET Ref] /\ net \in NetState
  BY <1>3 DEF Ref, NetState
<1>9. HostTypeOK
  BY <1>2, <1>3, <1>4, <1>5, <1>6, <1>7, <1>8 DEF HostTypeOK
<1>10. env = TRUE /\ kept = (old # {})
  BY DEF Installed
<1>11. env \in BOOLEAN /\ kept \in BOOLEAN
  BY <1>10, Zenon
<1>12. data \in Generation /\ conf \in Generation /\ legacy \subseteq Legacy
  BY <1>2, <1>3
<1>13. ServerTypeOK
  BY <1>11, <1>12, Zenon DEF ServerTypeOK
<1>14. QED BY <1>5, <1>6, <1>7, <1>9, <1>13

LEMMA ServerStarts ==
  ASSUME ServerInit
  PROVE  HostTypeOK /\ ServerTypeOK /\ ServerHost
<1>1. NoCommand
  BY DEF ServerInit
<1>2. CASE BareHost /\ NoServer
  <2>1. HostTypeOK
    BY <1>1, <1>2, BareTyped
  <2>2. data = 0 /\ conf = 0 /\ legacy = {} /\ 0 \in Generation
    BY <1>2, HostAssumption DEF NoServer, Generation
  <2>3. env = FALSE /\ kept = FALSE
    BY <1>2 DEF NoServer
  <2>4. env \in BOOLEAN /\ kept \in BOOLEAN
    BY <2>3, Zenon
  <2>5. ServerTypeOK
    BY <2>2, <2>4, Zenon DEF ServerTypeOK
  <2>6. unit = {} /\ store = [s \in Secret |-> 0] /\ image = [u \in Unit |-> "none"]
    BY <1>2 DEF BareHost
  <2>7. Present = {} /\ image["server"] = "none"
    BY <2>6, ServerAssumption DEF Present, HasSecret, ServerUnit, Core
  <2>8. ServerHost
    BY <1>1, <2>2, <2>6, <2>7, ServerFound
  <2>9. QED BY <2>1, <2>5, <2>8
<1>3. CASE Installed(ServerUnit, ServerSecret \ Halves({"scc"}), {})
  <2> DEFINE secrets == ServerSecret \ Halves({"scc"})
  <2>1. /\ unit = ServerUnit /\ data = 1 /\ conf = 1 /\ kept = ({} # {})
    BY <1>3 DEF Installed
  <2>2. /\ HostTypeOK /\ ServerTypeOK /\ Present = secrets
        /\ \A u \in ServerUnit : mounts[u] = MountsOf(u) \cap secrets
        /\ \A m \in secrets : store[m] = 1
    BY <1>1, <1>3, InstalledTyped
  <2>3. TLS \subseteq secrets /\ \A c \in Credentials \ {"scc"} : Halves({c}) \subseteq secrets
    <3>1. ASSUME NEW c \in Credentials \ {"scc"}, NEW m \in Halves({c}) PROVE m \in secrets
      <4>1. m[1] = c /\ m \in Halves(Credentials)
        BY <3>1, PairOf DEF Halves
      <4>2. \A x \in Halves({"scc"}) : x[1] = "scc"
        BY PairOf DEF Halves
      <4>3. QED BY <4>1, <4>2 DEF ServerSecret
    <3>2. TLS \cap Halves({"scc"}) = {}
      BY SecretNames DEF Halves
    <3>3. QED BY <3>1, <3>2 DEF ServerSecret
  <2>4. \A h \in Half : <<"scc", h>> \notin secrets
    BY DEF Halves
  <2> HIDE DEF secrets
  <2>5. ASSUME NEW c \in Credentials, NEW h \in Half, <<c, h>> \in Present
        PROVE  Halves({c}) \subseteq Present
    BY <2>2, <2>3, <2>4, <2>5
  <2>6. DBMounts \subseteq secrets /\ "scc" \notin DBCredential
    <3>1. "scc" \notin DBCredential
      <4>1. ASSUME "scc" \in DBCredential PROVE FALSE
        <5>1. <<"scc", "user">> \in Halves(DBCredential) /\ <<"scc", "user">> \in Halves({"admin", "scc"})
          BY <4>1 DEF Halves, Half
        <5>2. QED BY <5>1, SecretNames
      <4>2. QED BY <4>1
    <3>2. Halves(DBCredential) \subseteq secrets
      <4>1. ASSUME NEW m \in Halves(DBCredential) PROVE m \in secrets
        <5>1. m[1] \in DBCredential /\ m[2] \in Half /\ m = <<m[1], m[2]>>
          BY PairOf DEF Halves
        <5>2. m[1] \in Credentials \ {"scc"} /\ m \in Halves({m[1]})
          BY <3>1, <5>1 DEF Credentials, Halves
        <5>3. QED BY <2>3, <5>2
      <4>2. QED BY <4>1
    <3>3. <<"tls", "db">> \in TLS
      BY DEF TLS
    <3>4. QED BY <2>3, <3>1, <3>2, <3>3 DEF DBMounts
  <2>7. "db" \in ServerUnit /\ "server" \in ServerUnit
    BY DEF ServerUnit, Core
  <2>8. mounts["db"] = DBMounts
    BY <2>2, <2>6, <2>7, MountsAre
  <2>9. \A h \in Half : <<"db", h>> \in secrets /\ HasSecret(<<"db", h>>)
    <3>1. \A h \in Half : <<"db", h>> \in secrets
      <4>1. "db" \in Credentials \ {"scc"}
        BY SecretNames
      <4>2. QED BY <2>3, <4>1 DEF Halves
    <3>2. \A m \in secrets : store[m] = 1
      BY <2>2
    <3>3. ASSUME NEW h \in Half PROVE HasSecret(<<"db", h>>)
      <4>1. store[<<"db", h>>] = 1
        BY <3>1, <3>2
      <4>2. QED BY <4>1 DEF HasSecret
    <3>4. QED BY <3>1, <3>3
  <2>10. store[Login] = 1
    BY <2>2, <2>9 DEF Login, Half
  <2>11. \E h \in Half : HasSecret(<<"db", h>>)
    BY <2>9 DEF Half
  <2>12. ServerHost
    BY <1>1, <2>1, <2>2, <2>3, <2>5, <2>7, <2>8, <2>10, <2>11, ServerFound
  <2>13. QED BY <2>2, <2>12
<1>4. ASSUME NEW old \in {Legacy, Legacy \ {"ports"}}, Installed({"server"}, {}, old)
      PROVE  HostTypeOK /\ ServerTypeOK /\ ServerHost
  <2>1. unit = {"server"} /\ legacy = old /\ kept = (old # {})
    BY <1>4 DEF Installed
  <2>2. {"server"} \in SUBSET ServerUnit /\ "db" \notin {"server"} /\ old \in SUBSET Legacy
    BY <1>4 DEF ServerUnit, Core
  <2>3. /\ HostTypeOK /\ ServerTypeOK /\ Present = {}
        /\ \A u \in {"server"} : mounts[u] = MountsOf(u) \cap {}
    BY <1>1, <1>4, <2>2, InstalledTyped
  <2>4. "localhost" \in legacy /\ old # {}
    BY <1>4, <2>1 DEF Legacy
  <2>5. kept
    BY <2>1, <2>4
  <2>6. ServerHost
    BY <1>1, <2>1, <2>2, <2>3, <2>4, <2>5, ServerFound
  <2>7. QED BY <2>3, <2>6
<1>5. QED BY <1>2, <1>3, <1>4 DEF ServerInit

-----------------------------------------------------------------------------
(* The proxy *)

ProxyGoes == Goes(ProxySetupSteps, ProxyRemovalSteps, Service)
ProxyHost == HostInv /\ ProxyInv

LEMMA ProxyNames ==
  /\ Service \subseteq {"httpd", "salt-broker", "squid", "ssh", "tftpd"} /\ Pod \notin Service
  /\ Service \cap Core = {} /\ "force" \notin Service /\ "install" \notin Service
  /\ ProxyUnit \subseteq Unit /\ Service \subseteq Unit /\ Pod \in Unit
  /\ ProxySecret \subseteq Secret /\ Certificate \subseteq Secret /\ SystemID \in Secret
  /\ SystemID \notin Certificate
<1>1. Service \subseteq {"httpd", "salt-broker", "squid", "ssh", "tftpd"}
  <2>1. Range(ServiceOrder) \subseteq {"httpd", "salt-broker", "squid", "ssh", "tftpd"}
    BY DEF Range, ServiceOrder
  <2>2. QED BY <2>1, ProxyAssumption
<1>2. /\ Pod \notin Service /\ Service \cap Core = {} /\ "force" \notin Service
      /\ "install" \notin Service
  BY <1>1 DEF Core, Pod
<1>3. ProxyUnit \subseteq Unit /\ Service \subseteq Unit /\ Pod \in Unit
  BY ProxyAssumption DEF ProxyUnit
<1>4. ProxySecret \subseteq Secret /\ Certificate \subseteq Secret /\ SystemID \in Secret
  BY ProxyAssumption DEF ProxySecret
<1>5. SystemID \notin Certificate
  <2>1. \A c \in Certificate : c[2] \in {"ca", "cert", "key"}
    BY DEF Certificate
  <2>2. SystemID[2] = "systemid"
    BY DEF SystemID
  <2>3. QED BY <2>1, <2>2
<1>6. QED BY <1>1, <1>2, <1>3, <1>4, <1>5

\* Nothing of a proxy is deferred.
LEMMA ProxyEnds ==
  ASSUME flags \cap Core = {}, Ended
  PROVE  todo' = <<>> /\ Left' = {} /\ flags' = {}
<1>1. Left' = {}
  <2>1. ASSUME NEW x \in Left' PROVE FALSE
    <3>1. x \in Defers /\ x \in {<<"defer", u>> : u \in flags}
      BY <2>1 DEF Ended
    <3>2. x[2] \in Core
      BY <3>1, DeferIs
    <3>3. PICK u \in flags : x = <<"defer", u>>
      BY <3>1
    <3>4. QED BY <3>2, <3>3
  <2>2. QED BY <2>1
<1>2. todo' = <<>>
  <2>1. todo' \in Seq(Defers)
    BY DEF Ended
  <2>2. CASE todo' # <<>>
    <3>1. 1 \in DOMAIN todo'
      BY <2>1, <2>2
    <3>2. todo'[1] \in Left'
      BY <3>1 DEF Left, Range
    <3>3. QED BY <1>1, <3>2
  <2>3. QED BY <2>2
<1>3. QED BY <1>1, <1>2 DEF Ended

LEMMA ProxyAtSetup ==
  ASSUME ProxyTodo, ~Idle,
         Head(todo)[1] \notin {"volumes", "folder", "dropnetwork", "uninstall", "kill", "purge", "drop"}
  PROVE  /\ todo \in Seq(ProxySetupSteps) /\ Head(todo) \in ProxySetupSteps /\ Head(todo) \in Left
         /\ Head(todo) = <<Head(todo)[1], Arg>>
<1>1. todo # <<>>
  BY DEF Idle
<1>2. todo \in Seq(ProxySetupSteps)
  <2>1. CASE todo \in Seq(ProxyRemovalSteps)
    <3>1. Head(todo) \in ProxyRemovalSteps
      BY <1>1, <2>1, HeadAndTail
    <3>2. QED BY <3>1, ProxyRemovalStepIs
  <2>2. QED BY <2>1 DEF ProxyTodo
<1>3. Head(todo) \in ProxySetupSteps /\ Head(todo) \in Left
  BY <1>1, <1>2, HeadAndTail DEF Left
<1>4. Head(todo) = <<Head(todo)[1], Arg>>
  BY <1>3, ProxySetupStepIs DEF Arg
<1>5. QED BY <1>2, <1>3, <1>4

LEMMA ProxyAtRemoval ==
  ASSUME ProxyTodo, ~Idle,
         Head(todo)[1] \in {"volumes", "folder", "dropnetwork", "uninstall", "kill", "purge", "drop"}
  PROVE  /\ todo \in Seq(ProxyRemovalSteps) /\ Head(todo) \in ProxyRemovalSteps /\ Head(todo) \in Left
         /\ Head(todo) = <<Head(todo)[1], Arg>>
<1>1. todo # <<>>
  BY DEF Idle
<1>2. todo \in Seq(ProxyRemovalSteps)
  <2>1. CASE todo \in Seq(ProxySetupSteps)
    <3>1. Head(todo) \in ProxySetupSteps
      BY <1>1, <2>1, HeadAndTail
    <3>2. QED BY <3>1, ProxySetupStepIs
  <2>2. QED BY <2>1 DEF ProxyTodo
<1>3. Head(todo) \in ProxyRemovalSteps /\ Head(todo) \in Left
  BY <1>1, <1>2, HeadAndTail DEF Left
<1>4. Head(todo) = <<Head(todo)[1], Arg>>
  BY <1>3, ProxyRemovalStepIs DEF Arg
<1>5. QED BY <1>2, <1>3, <1>4

LEMMA ProxyMoves ==
  ASSUME ProxyTodo,
         \/ PurgeImage \/ NetworkStep \/ DropNetwork \/ DeleteContainer
         \/ Unpack \/ Validate \/ Extract \/ Save \/ DropSystemID \/ GetSystemID \/ FetchImage
         \/ GenerateService \/ StartPod \/ StopPod \/ PurgeProxyVolumes \/ PurgeFolder
         \/ UninstallProxyService \/ DropProxySecret \/ CutProxyCommand
  PROVE  ProxyGoes
<1> USE DEF ProxyTodo
<1>1. CASE ~Idle /\ (Continue \/ Overlook(Tail(todo)) \/ Abort)
  BY <1>1, StepGoes DEF ProxyGoes
<1>2. CASE \/ PurgeImage \/ NetworkStep \/ DropNetwork \/ DeleteContainer
           \/ UninstallProxyService \/ DropProxySecret
  BY <1>1, <1>2, HostStepIs DEF UninstallProxyService, DropProxySecret
<1>3. CASE Unpack \/ Validate \/ Save \/ GetSystemID \/ GenerateService
  BY <1>1, <1>3 DEF Unpack, Validate, Save, Saves, GetSystemID, GenerateService, At
<1>4. CASE Extract
  BY <1>1, <1>4 DEF Extract, CreateSecret, At
<1>5. CASE DropSystemID \/ StartPod \/ StopPod \/ PurgeProxyVolumes \/ PurgeFolder
  BY <1>1, <1>5 DEF DropSystemID, StartPod, StopPod, PurgeProxyVolumes, PurgeFolder, Pretend, At
<1>6. CASE FetchImage
  <2>1. ~Idle /\ Head(todo)[1] = "fetch"
    BY <1>6 DEF FetchImage, At
  <2>2. CASE Continue \/ Abort
    BY <1>1, <2>1, <2>2
  <2>3. CASE ~Continue /\ ~Abort
    <3>1. flags' = flags \cup {Arg} /\ todo' = Tail(todo) /\ gen' = gen
      BY <1>6, <2>3 DEF FetchImage
    <3>2. todo \in Seq(ProxySetupSteps) /\ Head(todo) \in ProxySetupSteps
      BY <2>1, ProxyAtSetup
    <3>3. Arg \in Service
      BY <2>1, <3>2, ProxySetupStepIs DEF Arg
    <3>4. Advanced(ProxySetupSteps)
      BY <2>1, <3>1, <3>2, TailAdvances
    <3>5. QED BY <2>1, <3>1, <3>2, <3>3, <3>4 DEF ProxyGoes, Goes
  <2>4. QED BY <2>2, <2>3
<1>7. CASE CutProxyCommand
  <2>1. Interrupt(Extracts)
    BY <1>7 DEF CutProxyCommand
  <2>2. ~Idle /\ gen' = gen
    BY <2>1 DEF Interrupt
  <2>3. QED BY <2>1, <2>2, InterruptEnds DEF ProxyGoes, Goes
<1>8. QED BY <1>2, <1>3, <1>4, <1>5, <1>6, <1>7

\* The keys of a file are secrets before it is saved.
LEMMA ExtractedKept ==
  ASSUME ProxyInv, ProxyGoes,
         \/ todo \in Seq(ProxyRemovalSteps)
         \/ \A c \in Certificate :
              \/ yaml[c] \in {0, store[c]} => yaml'[c] \in {0, store'[c]}
              \/ <<"extract", c>> \in Left',
         At("extract") /\ ~Ended => yaml'[Arg] \in {0, store'[Arg]}
  PROVE  Extracted'
<1>1. Extracted /\ flags \cap Core = {} /\ ProxyTodo /\ Staged(todo) /\ ~Idle /\ todo # <<>>
  BY DEF ProxyInv, ProxyTodo, ProxyGoes, Goes, Idle
<1>2. CASE Ended
  <2>1. Left' = {}
    BY <1>1, <1>2, ProxyEnds
  <2>2. QED BY <2>1 DEF Extracted
<1>3. CASE ~Ended /\ todo \in Seq(ProxyRemovalSteps)
  <2>1. \A x \in Left' : x[1] \notin {"save", "unpack"}
    <3>1. \A x \in Left : x \in ProxyRemovalSteps
      BY <1>3 DEF Left, Range
    <3>2. Left' \subseteq Left
      BY <1>3 DEF ProxyGoes, Goes, Advanced
    <3>3. QED BY <3>1, <3>2, ProxyRemovalStepIs
  <2>2. \A f : <<"save", f>> \notin Left'
    <3>1. ASSUME NEW f, <<"save", f>> \in Left' PROVE FALSE
      BY <2>1, <3>1
    <3>2. QED BY <3>1
  <2>3. Left' \cap ({"unpack"} \X File) = {}
    <3>1. ASSUME NEW x \in Left', x \in {"unpack"} \X File PROVE FALSE
      BY <2>1, <3>1, PairOf
    <3>2. QED BY <3>1
  <2>4. QED BY <2>2, <2>3 DEF Extracted
<1>4. CASE ~Ended /\ todo \notin Seq(ProxyRemovalSteps)
  <2>1. /\ Left' \subseteq Left
        /\ \A x \in Left : x \in Left' \/ x = Head(todo) \/ Stage(x) \notin 1 .. 4
    BY <1>4 DEF ProxyGoes, Goes, Advanced
  <2>2. \A c : Stage(<<"extract", c>>) \in {2, 4}
    BY DEF Stage
  <2>3. \A x \in {"unpack"} \X File : Stage(x) = 1
    BY PairOf DEF Stage
  <2>4. ASSUME NEW f \in File, <<"save", f>> \in Left', NEW c \in In(f), <<"extract", c>> \notin Left'
        PROVE  yaml'[c] \in {0, store'[c]}
    <3>1. c \in Certificate
      BY <2>4 DEF In
    <3>2. <<"extract", c>> \in Left \/ yaml[c] \in {0, store[c]}
      BY <1>1, <2>1, <2>4 DEF Extracted
    <3>3. CASE <<"extract", c>> \in Left
      <4>1. <<"extract", c>> = Head(todo)
        BY <2>1, <2>2, <2>4, <3>3
      <4>2. Head(todo)[1] = "extract" /\ Head(todo)[2] = c
        BY <4>1
      <4>3. At("extract") /\ Arg = c
        BY <1>1, <4>2 DEF At, Arg
      <4>4. QED BY <1>4, <4>3
    <3>4. CASE yaml[c] \in {0, store[c]}
      BY <1>4, <2>4, <3>1, <3>4
    <3>5. QED BY <3>2, <3>3, <3>4
  <2>5. ASSUME Left' \cap ({"unpack"} \X File) # {}, NEW x \in {"extract"} \X Certificate
        PROVE  x \in Left'
    <3>1. PICK y \in Left' : y \in {"unpack"} \X File
      BY <2>5
    <3>2. y \in Left /\ Stage(y) = 1
      BY <2>1, <2>3, <3>1
    <3>3. x \in Left
      <4>1. Left \cap ({"unpack"} \X File) # {}
        BY <3>1, <3>2
      <4>2. QED BY <1>1, <2>5, <4>1 DEF Extracted
    <3>4. Stage(x) \in {2, 4}
      BY <2>2, <2>5, PairOf
    <3>5. x # Head(todo)
      <4>1. y = Head(todo) \/ Before(Head(todo), y)
        BY <1>1, <3>2, HeadAndTail DEF Left, ProxyTodo
      <4>2. QED BY <3>2, <3>4, <4>1 DEF Before
    <3>6. QED BY <2>1, <3>3, <3>4, <3>5
  <2>6. \A f \in File : <<"save", f>> \in Left' =>
          \A c \in In(f) : <<"extract", c>> \in Left' \/ yaml'[c] \in {0, store'[c]}
    BY <2>4
  <2>7. {"extract"} \X Certificate \subseteq Left' \/ Left' \cap ({"unpack"} \X File) = {}
    BY <2>5
  <2>8. QED BY <2>6, <2>7 DEF Extracted, In, File, FileOf, Certificate
<1>5. QED BY <1>2, <1>3, <1>4

ProxyUnitsFine ==
  /\ unit' \subseteq ProxyUnit
  /\ \A u \in unit' \ stuck' :
       (u \in unit \ stuck /\ mounts'[u] = mounts[u]) \/ mounts'[u] \subseteq Made'
  /\ todo \in Seq(ProxyRemovalSteps) /\ "force" \in flags' =>
       \A u \in unit' \ stuck' :
         u \in unit \ stuck /\ Head(todo) \notin {<<"uninstall", u>>, <<"template", u>>}

LEMMA ProxyKept ==
  ASSUME ProxyHost, ProxyGoes, Made \subseteq Made' \/ unit' = {}, ProxyUnitsFine, Extracted',
         ConfigurationKept'
  PROVE  ProxyHost'
<1>1. UnitsUsable /\ Removed /\ ProxyTodo /\ flags \cap Core = {} /\ (~Idle => gen # 0)
  BY DEF ProxyHost, HostInv, ProxyInv
<1>2. UnitsUsable'
  <2>1. CASE Made \subseteq Made'
    BY <1>1, <2>1, UsableKept DEF ProxyUnitsFine
  <2>2. CASE unit' = {}
    BY <2>2 DEF UnitsUsable
  <2>3. QED BY <2>1, <2>2
<1>3. Removed'
  <2>1. \A x \in ProxySetupSteps : x[1] # "drop"
    BY ProxySetupStepIs
  <2>2. QED BY <1>1, <2>1, ProxyNames, RemovedKept DEF ProxyUnitsFine, ProxyGoes
<1>4. ~Idle' => gen' # 0
  BY <1>1 DEF ProxyGoes, Goes
<1>5. ProxyTodo'
  <2>1. CASE Ended
    <3>1. todo' = <<>>
      BY <1>1, <2>1, ProxyEnds
    <3>2. QED BY <3>1, Few, StagedFew DEF ProxyTodo
  <2>2. CASE ~Ended
    BY <2>2 DEF ProxyGoes, Goes, Advanced, ProxyTodo, ProxySetupSteps, ProxyRemovalSteps
  <2>3. QED BY <2>1, <2>2
<1>6. flags' \cap Core = {}
  <2>1. CASE Ended
    BY <2>1 DEF Ended
  <2>2. CASE ~Ended
    <3>1. flags' \subseteq flags \cup Service
      BY <2>2 DEF ProxyGoes, Goes
    <3>2. QED BY <1>1, <3>1, ProxyNames
  <2>3. QED BY <2>1, <2>2
<1>7. unit' \subseteq ProxyUnit
  BY DEF ProxyUnitsFine
<1>8. HostInv'
  BY <1>2, <1>3, <1>4 DEF HostInv
<1>9. ProxyInv'
  BY <1>5, <1>6, <1>7 DEF ProxyInv, ProxyUnit, Core
<1>10. QED BY <1>8, <1>9 DEF ProxyHost

LEMMA ProxyUnitsSame ==
  ASSUME ProxyInv, UNCHANGED <<unit, mounts, stuck>>, ~At("uninstall"), ~Idle
  PROVE  ProxyUnitsFine
<1>1. unit \subseteq ProxyUnit
  BY DEF ProxyInv
<1>2. ASSUME NEW u PROVE Head(todo) \notin {<<"uninstall", u>>, <<"template", u>>}
               \/ todo \notin Seq(ProxyRemovalSteps)
  <2>1. Head(todo)[1] # "uninstall"
    BY DEF At
  <2>2. todo \in Seq(ProxyRemovalSteps) => Head(todo)[1] # "template"
    <3>1. todo \in Seq(ProxyRemovalSteps) => Head(todo) \in ProxyRemovalSteps
      BY HeadAndTail DEF Idle
    <3>2. QED BY <3>1, ProxyRemovalStepIs
  <2>3. QED BY <2>1, <2>2
<1>3. QED BY <1>1, <1>2 DEF ProxyUnitsFine

\* A step that changes neither a unit, a secret nor a certificate.
LEMMA ProxyQuiet ==
  ASSUME ProxyHost, ProxyGoes, UNCHANGED <<unit, mounts, stuck, store, yaml, given>>,
         unmade \subseteq unmade', ~At("uninstall"), ~At("extract") \/ Ended \/ yaml[Arg] = 0
  PROVE  ProxyHost'
<1>1. ProxyInv /\ ~Idle /\ ConfigurationKept
  BY DEF ProxyHost, ProxyInv, ProxyGoes, Goes
<1>2. Made \subseteq Made'
  BY DEF Made, Present, HasSecret
<1>3. ProxyUnitsFine
  BY <1>1, ProxyUnitsSame
<1>4. Extracted'
  BY <1>1, ExtractedKept
<1>5. ConfigurationKept'
  BY <1>1 DEF ConfigurationKept, Effective, Certificate
<1>6. QED BY <1>2, <1>3, <1>4, <1>5, ProxyKept

LEMMA QuietProxy ==
  ASSUME ProxyHost,
         \/ (PurgeImage \/ NetworkStep \/ DropNetwork \/ DeleteContainer) /\ UNCHANGED proxyVars
         \/ Validate \/ StartPod \/ StopPod \/ PurgeProxyVolumes \/ FetchImage
  PROVE  ProxyHost'
<1>1. ProxyGoes
  BY ProxyMoves DEF ProxyHost, ProxyInv
<1>2. UNCHANGED <<unit, mounts, stuck, store, yaml, given>>
  BY DEF PurgeImage, NetworkStep, DropNetwork, DeleteContainer, Validate, StartPod, StopPod,
         PurgeProxyVolumes, FetchImage, services, files, resources, history, proxyVars
<1>3. unmade \subseteq unmade'
  <2>1. CASE PurgeImage
    BY <2>1 DEF PurgeImage, Abort
  <2>2. CASE NetworkStep
    BY <2>2 DEF NetworkStep, SetupNetwork, Abort
  <2>3. CASE DropNetwork \/ DeleteContainer
    BY <2>3 DEF DropNetwork, DeleteContainer, history
  <2>4. CASE Validate \/ StartPod \/ StopPod \/ PurgeProxyVolumes
    BY <2>4 DEF Validate, StartPod, StopPod, PurgeProxyVolumes, Abort
  <2>5. CASE FetchImage
    BY <2>5 DEF FetchImage, Abort
  <2>6. QED BY <2>1, <2>2, <2>3, <2>4, <2>5
<1>4. ~At("uninstall") /\ ~At("extract")
  BY DEF PurgeImage, NetworkStep, DropNetwork, DeleteContainer, Validate, StartPod, StopPod,
         PurgeProxyVolumes, FetchImage, At
<1>5. QED BY <1>1, <1>2, <1>3, <1>4, ProxyQuiet

\* What Written does to the certificates.
LEMMA WrittenIs ==
  ASSUME NEW f, NEW state, NEW value, Written(f, state, value)
  PROVE  \A c \in Certificate : yaml'[c] = IF c \in In(f) THEN value ELSE yaml[c]
BY DEF Written

LEMMA UnpackKept ==
  ASSUME ProxyHost, ProxyTypeOK, Unpack
  PROVE  ProxyHost'
<1>1. ProxyInv /\ ProxyTodo /\ ConfigurationKept /\ (~Idle => gen # 0)
  BY DEF ProxyHost, HostInv, ProxyInv
<1>2. ProxyGoes /\ ~Idle
  BY <1>1, ProxyMoves DEF ProxyGoes, Goes
<1>3. UNCHANGED <<unit, mounts, stuck, store>> /\ Head(todo)[1] = "unpack"
  BY DEF Unpack, services, resources, At
<1>4. /\ todo \in Seq(ProxySetupSteps) /\ Head(todo) \in Left /\ Head(todo) = <<"unpack", Arg>>
      /\ Arg \in File
  BY <1>1, <1>2, <1>3, ProxyAtSetup, ProxySetupStepIs DEF Arg
<1>5. {"extract"} \X Certificate \subseteq Left
  <2>1. Head(todo) \in {"unpack"} \X File
    BY <1>4
  <2>2. Left \cap ({"unpack"} \X File) # {}
    BY <1>4, <2>1
  <2>3. QED BY <1>1, <2>2 DEF ProxyInv, Extracted
<1>6. Made \subseteq Made'
  <2>1. unmade \subseteq unmade'
    BY DEF Unpack, Abort
  <2>2. QED BY <1>3, <2>1 DEF Made, Present, HasSecret
<1>7. ProxyUnitsFine
  <2>1. ~At("uninstall")
    BY <1>3 DEF At
  <2>2. QED BY <1>1, <1>2, <1>3, <2>1, ProxyUnitsSame
<1>8. Extracted'
  <2>1. CASE Ended
    <3>1. Left' = {}
      BY <1>1, <2>1, ProxyEnds DEF ProxyInv
    <3>2. QED BY <3>1 DEF Extracted
  <2>2. CASE ~Ended
    <3>1. /\ \A x \in Left : x \in Left' \/ x = Head(todo) \/ Stage(x) \notin 1 .. 4
      BY <1>2, <2>2 DEF ProxyGoes, Goes, Advanced
    <3>2. ASSUME NEW c \in Certificate PROVE <<"extract", c>> \in Left'
      <4>1. <<"extract", c>> \in {"extract"} \X Certificate
        OBVIOUS
      <4>2. <<"extract", c>> \in Left /\ <<"extract", c>> # Head(todo)
        BY <1>4, <1>5, <4>1
      <4>3. Stage(<<"extract", c>>) \in 1 .. 4
        BY DEF Stage
      <4>4. QED BY <3>1, <4>2, <4>3
    <3>3. ~At("extract")
      BY <1>3 DEF At
    <3>4. QED BY <1>1, <1>2, <3>2, <3>3, ExtractedKept
  <2>3. QED BY <2>1, <2>2
<1>9. ConfigurationKept'
  <2>1. SUFFICES ASSUME NEW c \in Certificate, given'[c] # 0
                 PROVE  yaml'[c] = given'[c] \/ (yaml'[c] = 0 /\ store'[c] = given'[c])
    BY DEF ConfigurationKept, Effective, Certificate
  <2>2. \/ /\ Written(Arg, "whole", gen)
           /\ given' = [d \in Certificate |-> IF d \in In(Arg) THEN gen ELSE given[d]]
        \/ UNCHANGED <<yaml, given>>
        \/ /\ Written(Arg, "torn", 0)
           /\ given' = [d \in Certificate |-> IF d \in In(Arg) THEN 0 ELSE given[d]]
    BY DEF Unpack, proxyVars
  <2>3. given[c] # 0 => yaml[c] = given[c] \/ (yaml[c] = 0 /\ store[c] = given[c])
    BY <1>1 DEF ConfigurationKept, Effective
  <2>4. \/ yaml'[c] = yaml[c] /\ given'[c] = given[c]
        \/ yaml'[c] = gen /\ given'[c] = gen
        \/ yaml'[c] = 0 /\ given'[c] = 0
    <3>1. CASE UNCHANGED <<yaml, given>>
      BY <3>1
    <3>2. CASE /\ Written(Arg, "whole", gen)
               /\ given' = [d \in Certificate |-> IF d \in In(Arg) THEN gen ELSE given[d]]
      BY <3>2, WrittenIs
    <3>3. CASE /\ Written(Arg, "torn", 0)
               /\ given' = [d \in Certificate |-> IF d \in In(Arg) THEN 0 ELSE given[d]]
      BY <3>3, WrittenIs
    <3>4. QED BY <2>2, <3>1, <3>2, <3>3
  <2>5. store'[c] = store[c]
    BY <1>3
  <2>6. QED BY <2>1, <2>3, <2>4, <2>5
<1>10. QED BY <1>1, <1>2, <1>6, <1>7, <1>8, <1>9, ProxyKept

\* One secret changes: to what it is named for, or it is still to be made.
LEMMA StoredIs ==
  ASSUME HostTypeOK, NEW s \in Secret, NEW value, store' = [store EXCEPT ![s] = value],
         unmade \ {s} \subseteq unmade', value # 0 \/ s \in unmade' \/ s \notin Made
  PROVE  Made \subseteq Made'
<1>1. store \in [Secret -> Generation]
  BY DEF HostTypeOK
<1>2. \A m \in Secret : store'[m] = IF m = s THEN value ELSE store[m]
  BY <1>1
<1>3. ASSUME NEW m \in Made PROVE m \in Made'
  <2>1. CASE m = s
    <3>1. m \in Secret /\ store'[s] = value
      BY <1>2, <2>1
    <3>2. QED BY <1>3, <2>1, <3>1 DEF Made, Present, HasSecret
  <2>2. CASE m # s
    BY <1>2, <1>3, <2>2 DEF Made, Present, HasSecret
  <2>3. QED BY <2>1, <2>2
<1>4. QED BY <1>3

LEMMA ExtractKept ==
  ASSUME ProxyHost, HostTypeOK, Extract
  PROVE  ProxyHost'
<1>1. ProxyInv /\ ProxyTodo /\ ConfigurationKept /\ store \in [Secret -> Generation]
  BY DEF ProxyHost, ProxyInv, HostTypeOK
<1>2. ProxyGoes /\ ~Idle
  BY <1>1, ProxyMoves DEF ProxyGoes, Goes
<1>3. UNCHANGED <<unit, mounts, stuck, yaml, given>> /\ Head(todo)[1] = "extract"
  BY DEF Extract, services, proxyVars, At
<1>4. /\ todo \in Seq(ProxySetupSteps) /\ Head(todo) \in Left /\ Head(todo) = <<"extract", Arg>>
      /\ Arg \in Certificate /\ Arg \in Secret
  BY <1>1, <1>2, <1>3, ProxyAtSetup, ProxySetupStepIs, ProxyNames DEF Arg
<1>5. ProxyUnitsFine
  <2>1. ~At("uninstall")
    BY <1>3 DEF At
  <2>2. QED BY <1>1, <1>2, <1>3, <2>1, ProxyUnitsSame
<1>6. \/ yaml[Arg] = 0 /\ UNCHANGED store /\ unmade \subseteq unmade'
      \/ yaml[Arg] # 0 /\ UNCHANGED store /\ unmade \subseteq unmade' /\ Ended
      \/ /\ yaml[Arg] # 0 /\ store' = [store EXCEPT ![Arg] = yaml[Arg]] /\ unmade' = unmade \ {Arg}
      \/ /\ yaml[Arg] # 0 /\ store' = [store EXCEPT ![Arg] = 0]
         /\ unmade' = unmade \cup Pending /\ Ended
  <2>1. CASE Extracts /\ CreateSecret(yaml[Arg])
    <3>1. yaml[Arg] # 0
      BY <2>1 DEF Extracts
    <3>2. CASE Abort
      <4>1. Ended /\ unmade' = unmade \cup Pending
        BY <3>2, AbortEnds DEF Abort
      <4>2. \/ UNCHANGED store \/ store' = [store EXCEPT ![Arg] = 0]
            \/ store' = [store EXCEPT ![Arg] = yaml[Arg]] /\ unmade' = unmade \ {Arg}
        BY <2>1 DEF CreateSecret
      <4>3. QED BY <3>1, <4>1, <4>2
    <3>3. CASE ~Abort
      BY <2>1, <3>1, <3>3 DEF CreateSecret
    <3>4. QED BY <3>2, <3>3
  <2>2. CASE ~Extracts /\ UNCHANGED <<store, unmade>>
    BY <1>2, <1>3, <2>2 DEF Extracts, At
  <2>3. CASE UNCHANGED store /\ Abort
    BY <2>3, AbortEnds DEF Abort
  <2>4. QED BY <2>1, <2>2, <2>3 DEF Extract
<1>7. CASE UNCHANGED store /\ unmade \subseteq unmade' /\ (yaml[Arg] = 0 \/ Ended)
  <2>1. ~At("uninstall")
    BY <1>3 DEF At
  <2>2. QED BY <1>2, <1>3, <1>7, <2>1, ProxyQuiet
<1>8. CASE yaml[Arg] # 0 /\ store' = [store EXCEPT ![Arg] = yaml[Arg]] /\ unmade' = unmade \ {Arg}
  <2>1. Made \subseteq Made'
    BY <1>4, <1>8, StoredIs
  <2>2. \A m \in Secret : store'[m] = IF m = Arg THEN yaml[Arg] ELSE store[m]
    BY <1>1, <1>8
  <2>3. \A c \in Certificate : yaml'[c] = yaml[c] /\ given'[c] = given[c]
                               /\ store'[c] = IF c = Arg THEN yaml[Arg] ELSE store[c]
    BY <1>3, <2>2, ProxyNames
  <2>4. Extracted'
    <3>1. \A c \in Certificate : yaml[c] \in {0, store[c]} => yaml'[c] \in {0, store'[c]}
      BY <2>3
    <3>2. yaml'[Arg] \in {0, store'[Arg]}
      BY <1>3, <1>4, <2>3
    <3>3. QED BY <1>1, <1>2, <3>1, <3>2, ExtractedKept
  <2>5. ConfigurationKept'
    <3>1. SUFFICES ASSUME NEW c \in Certificate, given'[c] # 0
                   PROVE  yaml'[c] = given'[c] \/ (yaml'[c] = 0 /\ store'[c] = given'[c])
      BY DEF ConfigurationKept, Effective, Certificate
    <3>2. given[c] # 0 => yaml[c] = given[c] \/ (yaml[c] = 0 /\ store[c] = given[c])
      BY <1>1 DEF ConfigurationKept, Effective
    <3>3. QED BY <1>8, <2>3, <3>1, <3>2
  <2>6. QED BY <1>1, <1>2, <1>5, <2>1, <2>4, <2>5, ProxyKept
<1>9. CASE yaml[Arg] # 0 /\ store' = [store EXCEPT ![Arg] = 0] /\ unmade' = unmade \cup Pending /\ Ended
  <2>1. Arg \in Pending
    <3>1. PICK i \in DOMAIN todo : todo[i] = <<"extract", Arg>>
      BY <1>4 DEF Left, Range
    <3>2. QED BY <1>4, <3>1 DEF Pending
  <2>2. Made \subseteq Made'
    BY <1>4, <1>9, <2>1, StoredIs
  <2>3. \A m \in Secret : store'[m] = IF m = Arg THEN 0 ELSE store[m]
    BY <1>1, <1>9
  <2>4. \A c \in Certificate : yaml'[c] = yaml[c] /\ given'[c] = given[c]
                               /\ store'[c] = IF c = Arg THEN 0 ELSE store[c]
    BY <1>3, <2>3, ProxyNames
  <2>5. Extracted'
    <3>1. Left' = {}
      BY <1>1, <1>9, ProxyEnds DEF ProxyInv
    <3>2. QED BY <3>1 DEF Extracted
  <2>6. ConfigurationKept'
    <3>1. SUFFICES ASSUME NEW c \in Certificate, given'[c] # 0
                   PROVE  yaml'[c] = given'[c] \/ (yaml'[c] = 0 /\ store'[c] = given'[c])
      BY DEF ConfigurationKept, Effective, Certificate
    <3>2. given[c] # 0 => yaml[c] = given[c] \/ (yaml[c] = 0 /\ store[c] = given[c])
      BY <1>1 DEF ConfigurationKept, Effective
    <3>3. QED BY <1>9, <2>4, <3>1, <3>2
  <2>7. QED BY <1>1, <1>2, <1>5, <2>2, <2>5, <2>6, ProxyKept
<1>10. QED BY <1>6, <1>7, <1>8, <1>9

\* When a file is saved its keys have been extracted.
LEMMA SavedAfter ==
  ASSUME ProxyInv, ~Idle, Head(todo) = <<"save", Arg>>, Arg \in File
  PROVE  \A c \in In(Arg) : yaml[c] \in {0, store[c]}
<1>1. Extracted /\ ProxyTodo /\ todo # <<>>
  BY DEF ProxyInv, Idle
<1>2. Head(todo) \in Left /\ \A x \in Left : x = Head(todo) \/ Before(Head(todo), x)
  BY <1>1, HeadAndTail DEF Left, ProxyTodo
<1>3. ASSUME NEW c \in In(Arg) PROVE <<"extract", c>> \notin Left
  <2>1. FileOf(c) = Arg
    BY <1>3 DEF In
  <2>2. Stage(Head(todo)) = IF Arg = "config" THEN 3 ELSE 5
    BY DEF Stage
  <2>3. Stage(<<"extract", c>>) = IF c = <<"proxy", "ca">> THEN 2 ELSE 4
    BY DEF Stage
  <2>4. c = <<"proxy", "ca">> <=> Arg = "config"
    BY <2>1 DEF FileOf
  <2>5. <<"extract", c>> # Head(todo)
    OBVIOUS
  <2>6. QED BY <1>2, <2>2, <2>3, <2>4, <2>5 DEF Before
<1>4. QED BY <1>1, <1>2, <1>3 DEF Extracted

LEMMA SaveKept ==
  ASSUME ProxyHost, Save
  PROVE  ProxyHost'
<1>1. ProxyInv /\ ProxyTodo /\ ConfigurationKept
  BY DEF ProxyHost, ProxyInv
<1>2. ProxyGoes /\ ~Idle
  BY <1>1, ProxyMoves DEF ProxyGoes, Goes
<1>3. UNCHANGED <<unit, mounts, stuck, store, given>> /\ Head(todo)[1] = "save"
  BY DEF Save, services, resources, At
<1>4. Head(todo) = <<"save", Arg>> /\ Arg \in File
  BY <1>1, <1>2, <1>3, ProxyAtSetup, ProxySetupStepIs DEF Arg
<1>5. \A c \in Certificate : yaml'[c] = yaml[c] \/ (yaml'[c] = 0 /\ yaml[c] \in {0, store[c]})
  <2>1. \A c \in In(Arg) : yaml[c] \in {0, store[c]}
    BY <1>1, <1>2, <1>4, SavedAfter
  <2>2. Written(Arg, "whole", 0) \/ Written(Arg, "torn", 0) \/ yaml' = yaml
    BY DEF Save
  <2>3. CASE yaml' = yaml
    BY <2>3
  <2>4. CASE Written(Arg, "whole", 0)
    BY <2>1, <2>4, WrittenIs
  <2>5. CASE Written(Arg, "torn", 0)
    BY <2>1, <2>5, WrittenIs
  <2>6. QED BY <2>2, <2>3, <2>4, <2>5
<1>6. Made \subseteq Made'
  <2>1. unmade \subseteq unmade'
    BY DEF Save, Abort
  <2>2. QED BY <1>3, <2>1 DEF Made, Present, HasSecret
<1>7. ProxyUnitsFine
  <2>1. ~At("uninstall")
    BY <1>3 DEF At
  <2>2. QED BY <1>1, <1>2, <1>3, <2>1, ProxyUnitsSame
<1>8. Extracted'
  <2>1. \A c \in Certificate : yaml[c] \in {0, store[c]} => yaml'[c] \in {0, store'[c]}
    BY <1>3, <1>5
  <2>2. ~At("extract")
    BY <1>3 DEF At
  <2>3. QED BY <1>1, <1>2, <2>1, <2>2, ExtractedKept
<1>9. ConfigurationKept'
  <2>1. SUFFICES ASSUME NEW c \in Certificate, given'[c] # 0
                 PROVE  yaml'[c] = given'[c] \/ (yaml'[c] = 0 /\ store'[c] = given'[c])
    BY DEF ConfigurationKept, Effective, Certificate
  <2>2. given[c] # 0 => yaml[c] = given[c] \/ (yaml[c] = 0 /\ store[c] = given[c])
    BY <1>1 DEF ConfigurationKept, Effective
  <2>3. QED BY <1>3, <1>5, <2>1, <2>2
<1>10. QED BY <1>1, <1>2, <1>6, <1>7, <1>8, <1>9, ProxyKept

LEMMA SystemIDKept ==
  ASSUME ProxyHost, HostTypeOK, DropSystemID \/ GetSystemID
  PROVE  ProxyHost'
<1>1. /\ ProxyInv /\ ProxyTodo /\ ConfigurationKept /\ store \in [Secret -> Generation]
      /\ (~Idle => gen # 0)
  BY DEF ProxyHost, HostInv, ProxyInv, HostTypeOK
<1>2. ProxyGoes /\ ~Idle
  BY <1>1, ProxyMoves DEF ProxyGoes, Goes
<1>3. UNCHANGED <<unit, mounts, stuck, yaml, given>> /\ ~At("uninstall") /\ ~At("extract")
  BY DEF DropSystemID, GetSystemID, services, proxyVars, At
<1>4. \/ UNCHANGED store /\ unmade \subseteq unmade'
      \/ /\ store' = [store EXCEPT ![SystemID] = 0]
         /\ unmade' = IF HasSecret(SystemID) THEN unmade \cup {SystemID} ELSE unmade
      \/ store' = [store EXCEPT ![SystemID] = gen] /\ unmade' = unmade \ {SystemID}
  BY DEF DropSystemID, GetSystemID, RemoveSystemID
<1>5. CASE UNCHANGED store /\ unmade \subseteq unmade'
  BY <1>2, <1>3, <1>5, ProxyQuiet
<1>6. CASE ~(UNCHANGED store /\ unmade \subseteq unmade')
  <2>1. PICK value : store' = [store EXCEPT ![SystemID] = value]
    BY <1>4, <1>6
  <2>2. SystemID \in Secret
    BY ProxyNames
  <2>3. Made \subseteq Made'
    <3>1. CASE /\ store' = [store EXCEPT ![SystemID] = 0]
               /\ unmade' = IF HasSecret(SystemID) THEN unmade \cup {SystemID} ELSE unmade
      <4>1. unmade \ {SystemID} \subseteq unmade'
        BY <3>1
      <4>2. SystemID \in unmade' \/ SystemID \notin Made
        BY <3>1 DEF Made, Present
      <4>3. QED BY <2>2, <3>1, <4>1, <4>2, StoredIs
    <3>2. CASE store' = [store EXCEPT ![SystemID] = gen] /\ unmade' = unmade \ {SystemID}
      BY <1>1, <1>2, <2>2, <3>2, StoredIs
    <3>3. QED BY <1>4, <1>6, <3>1, <3>2
  <2>4. \A c \in Certificate : store'[c] = store[c]
    BY <1>1, <2>1, ProxyNames
  <2>5. ProxyUnitsFine
    BY <1>1, <1>2, <1>3, ProxyUnitsSame
  <2>6. Extracted'
    BY <1>1, <1>2, <1>3, <2>4, ExtractedKept
  <2>7. ConfigurationKept'
    BY <1>1, <1>3, <2>4 DEF ConfigurationKept, Effective, Certificate
  <2>8. QED BY <1>2, <2>3, <2>5, <2>6, <2>7, ProxyKept
<1>7. QED BY <1>5, <1>6

LEMMA ProxyMountsAre ==
  ASSUME NEW u \in ProxyUnit
  PROVE  ProxyMounts(u) \subseteq Present
<1>1. u \in {"httpd", "salt-broker", "squid", "ssh", "tftpd", Pod}
  BY ProxyNames DEF ProxyUnit
<1>2. QED BY <1>1 DEF ProxyMounts, HttpdMounts, TftpdMounts, SaltBrokerMounts, SquidMounts, SSHMounts, Pod

LEMMA GenerateKept ==
  ASSUME ProxyHost, HostTypeOK, GenerateService
  PROVE  ProxyHost'
<1>1. ProxyInv /\ ProxyTodo /\ ConfigurationKept /\ mounts \in [Unit -> SUBSET Secret] /\ unit \subseteq ProxyUnit
  BY DEF ProxyHost, ProxyInv, HostTypeOK
<1>2. ProxyGoes /\ ~Idle
  BY <1>1, ProxyMoves DEF ProxyGoes, Goes
<1>3. UNCHANGED <<store, yaml, given>> /\ Head(todo)[1] = "generate" /\ unmade \subseteq unmade'
  BY DEF GenerateService, resources, proxyVars, At, Abort
<1>4. todo \in Seq(ProxySetupSteps) /\ Head(todo) \in ProxySetupSteps /\ Arg \in ProxyUnit
  BY <1>1, <1>2, <1>3, ProxyAtSetup, ProxySetupStepIs DEF Arg
<1>5. ~At("uninstall") /\ ~At("extract")
  BY <1>3 DEF At
<1>6. Made \subseteq Made' /\ Present' = Present
  BY <1>3 DEF Made, Present, HasSecret
<1>7. ProxyUnitsFine
  <2>1. CASE UNCHANGED <<files, stuck>>
    BY <1>1, <1>2, <1>5, <2>1, ProxyUnitsSame DEF files
  <2>2. CASE \E ref : WriteUnit(Arg, ProxyMounts(Arg), ref)
    <3>1. /\ unit' = unit \cup {Arg} /\ stuck' = stuck \ {Arg}
          /\ mounts' = [mounts EXCEPT ![Arg] = ProxyMounts(Arg)]
      BY <2>2 DEF WriteUnit
    <3>2. Arg \in Unit /\ ProxyMounts(Arg) \subseteq Made'
      BY <1>4, <1>6, ProxyMountsAre, ProxyNames DEF Made
    <3>3. unit' \subseteq ProxyUnit /\ unit' \subseteq Unit
      BY <1>1, <1>4, <3>1, ProxyNames
    <3>4. \A u \in Unit : mounts'[u] = IF u = Arg THEN ProxyMounts(Arg) ELSE mounts[u]
      BY <1>1, <3>1
    <3>5. ASSUME NEW u \in unit' \ stuck'
          PROVE  (u \in unit \ stuck /\ mounts'[u] = mounts[u]) \/ mounts'[u] \subseteq Made'
      BY <3>1, <3>2, <3>3, <3>4, <3>5
    <3>6. todo \notin Seq(ProxyRemovalSteps)
      <4>1. ASSUME todo \in Seq(ProxyRemovalSteps) PROVE FALSE
        <5>1. Head(todo) \in ProxyRemovalSteps
          BY <1>2, <4>1, HeadAndTail DEF Idle
        <5>2. QED BY <1>3, <5>1, ProxyRemovalStepIs
      <4>2. QED BY <4>1
    <3>7. QED BY <3>3, <3>5, <3>6 DEF ProxyUnitsFine
  <2>3. QED BY <2>1, <2>2 DEF GenerateService
<1>8. Extracted'
  BY <1>1, <1>2, <1>3, <1>5, ExtractedKept
<1>9. ConfigurationKept'
  BY <1>1, <1>3 DEF ConfigurationKept, Effective, Certificate
<1>10. QED BY <1>2, <1>6, <1>7, <1>8, <1>9, ProxyKept

LEMMA PurgeFolderKept ==
  ASSUME ProxyHost, PurgeFolder
  PROVE  ProxyHost'
<1>1. ProxyInv /\ ProxyTodo /\ ConfigurationKept
  BY DEF ProxyHost, ProxyInv
<1>2. ProxyGoes /\ ~Idle
  BY <1>1, ProxyMoves DEF ProxyGoes, Goes
<1>3. UNCHANGED <<unit, mounts, stuck, store, unmade>> /\ Head(todo)[1] = "folder"
  BY DEF PurgeFolder, services, resources, history, At
<1>4. todo \in Seq(ProxyRemovalSteps)
  BY <1>1, <1>2, <1>3, ProxyAtRemoval
<1>5. ~At("uninstall") /\ ~At("extract")
  BY <1>3 DEF At
<1>6. CASE UNCHANGED proxyVars
  BY <1>2, <1>3, <1>5, <1>6, ProxyQuiet DEF proxyVars
<1>7. CASE /\ yaml' = [c \in Certificate |-> 0]
           /\ given' = [c \in Certificate |-> IF yaml[c] # 0 THEN 0 ELSE given[c]]
  <2>1. Made \subseteq Made'
    BY <1>3 DEF Made, Present, HasSecret
  <2>2. ProxyUnitsFine
    BY <1>1, <1>2, <1>3, <1>5, ProxyUnitsSame
  <2>3. Extracted'
    BY <1>1, <1>2, <1>4, <1>5, ExtractedKept
  <2>4. ConfigurationKept'
    <3>1. SUFFICES ASSUME NEW c \in Certificate, given'[c] # 0
                   PROVE  yaml'[c] = 0 /\ store'[c] = given'[c]
      BY DEF ConfigurationKept, Effective, Certificate
    <3>2. yaml'[c] = 0 /\ given'[c] = (IF yaml[c] # 0 THEN 0 ELSE given[c]) /\ store'[c] = store[c]
      BY <1>3, <1>7
    <3>3. given[c] # 0 => yaml[c] = given[c] \/ (yaml[c] = 0 /\ store[c] = given[c])
      BY <1>1 DEF ConfigurationKept, Effective
    <3>4. QED BY <3>1, <3>2, <3>3
  <2>5. QED BY <1>2, <2>1, <2>2, <2>3, <2>4, ProxyKept
<1>8. QED BY <1>6, <1>7 DEF PurgeFolder

LEMMA ProxyUninstallKept ==
  ASSUME ProxyHost, HostTypeOK, UninstallProxyService
  PROVE  ProxyHost'
<1>1. ProxyInv /\ ProxyTodo /\ ConfigurationKept /\ unit \subseteq ProxyUnit /\ flags \cap Core = {}
  BY DEF ProxyHost, ProxyInv
<1>2. ProxyGoes /\ ~Idle
  BY <1>1, ProxyMoves DEF ProxyGoes, Goes
<1>3. UNCHANGED <<store, unmade, yaml, given>> /\ Head(todo)[1] = "uninstall"
  BY DEF UninstallProxyService, UninstallService, resources, proxyVars, At
<1>4. todo \in Seq(ProxyRemovalSteps) /\ Head(todo) = <<"uninstall", Arg>> /\ Arg \in ProxyUnit
  BY <1>1, <1>2, <1>3, ProxyAtRemoval, ProxyRemovalStepIs DEF Arg
<1>5. ~At("extract") /\ Made' = Made
  BY <1>3 DEF At, Made, Present, HasSecret
<1>6. Arg \in Unit
  BY <1>4, ProxyNames
<1>7. "force" \in flags' => "force" \in flags
  BY <1>2, ProxyNames DEF ProxyGoes, Goes, Ended
<1>8. /\ unit' \subseteq unit
      /\ \A u \in unit' \ stuck' : u \in unit \ stuck /\ mounts'[u] = mounts[u]
      /\ "force" \in flags => \A u \in unit' \ stuck' : u # Arg
  <2>1. CASE "force" \in flags /\ Arg \in unit
    <3>1. \E b : RemoveUnit(Arg, b)
      BY <2>1 DEF UninstallProxyService, UninstallService, Set
    <3>2. /\ unit' \subseteq unit /\ unit' \ stuck' = (unit \ stuck) \ {Arg}
          /\ \A v \in unit' : mounts'[v] = mounts[v]
      BY <1>6, <3>1, RemoveUnitDoes
    <3>3. QED BY <3>2
  <2>2. CASE ~("force" \in flags /\ Arg \in unit)
    <3>1. UNCHANGED <<unit, mounts, stuck>>
      BY <2>2 DEF UninstallProxyService, UninstallService, Set, services
    <3>2. QED BY <2>2, <3>1
  <2>3. QED BY <2>1, <2>2
<1>9. ProxyUnitsFine
  <2>1. unit' \subseteq ProxyUnit
    BY <1>1, <1>8
  <2>2. ASSUME "force" \in flags', NEW u \in unit' \ stuck'
        PROVE  u \in unit \ stuck /\ Head(todo) \notin {<<"uninstall", u>>, <<"template", u>>}
    <3>1. u \in unit \ stuck /\ u # Arg
      BY <1>7, <1>8, <2>2
    <3>2. QED BY <1>4, <3>1
  <2>3. QED BY <1>8, <2>1, <2>2 DEF ProxyUnitsFine
<1>10. Extracted'
  BY <1>1, <1>2, <1>3, <1>5, ExtractedKept
<1>11. ConfigurationKept'
  BY <1>1, <1>3 DEF ConfigurationKept, Effective, Certificate
<1>12. QED BY <1>2, <1>5, <1>9, <1>10, <1>11, ProxyKept

LEMMA DropProxyKept ==
  ASSUME ProxyHost, HostTypeOK, ProxyTypeOK, DropProxySecret
  PROVE  ProxyHost'
<1>1. /\ ProxyInv /\ ProxyTodo /\ ConfigurationKept /\ Removed /\ Staged(todo)
      /\ store \in [Secret -> Generation] /\ given \in [Certificate -> Generation]
  BY DEF ProxyHost, HostInv, ProxyInv, ProxyTodo, HostTypeOK, ProxyTypeOK
<1>2. ProxyGoes /\ ~Idle
  BY <1>1, ProxyMoves DEF ProxyGoes, Goes
<1>3. UNCHANGED <<unit, mounts, stuck, yaml>> /\ Head(todo)[1] = "drop"
  BY DEF DropProxySecret, DropSecret, services, At
<1>4. /\ todo \in Seq(ProxyRemovalSteps) /\ Head(todo) = <<"drop", Arg>> /\ Arg \in ProxySecret
      /\ Arg \in Secret
  BY <1>1, <1>2, <1>3, ProxyAtRemoval, ProxyRemovalStepIs, ProxyNames DEF Arg
<1>5. ~At("extract") /\ ~At("uninstall")
  BY <1>3 DEF At
<1>6. \/ UNCHANGED <<store, unmade>>
      \/ /\ "force" \in flags /\ store' = [store EXCEPT ![Arg] = 0]
         /\ unmade' = IF stuck = {} THEN unmade \ {Arg} ELSE unmade \cup {Arg}
  BY DEF DropProxySecret, DropSecret, Set
<1>7. Made \subseteq Made' \/ unit' = {}
  <2>1. CASE UNCHANGED <<store, unmade>>
    BY <2>1 DEF Made, Present, HasSecret
  <2>2. CASE "force" \in flags /\ stuck = {}
    BY <1>1, <1>2, <1>3, <1>4, <2>2, UnitsGone
  <2>3. CASE store' = [store EXCEPT ![Arg] = 0] /\ unmade' = unmade \cup {Arg}
    BY <1>4, <2>3, StoredIs
  <2>4. QED BY <1>6, <2>1, <2>2, <2>3
<1>8. ProxyUnitsFine
  BY <1>1, <1>2, <1>3, <1>5, ProxyUnitsSame
<1>9. Extracted'
  BY <1>1, <1>2, <1>4, <1>5, ExtractedKept
<1>10. ConfigurationKept'
  <2>1. SUFFICES ASSUME NEW c \in Certificate, given'[c] # 0
                 PROVE  yaml'[c] = given'[c] \/ (yaml'[c] = 0 /\ store'[c] = given'[c])
    BY DEF ConfigurationKept, Effective, Certificate
  <2>2. given[c] # 0 => yaml[c] = given[c] \/ (yaml[c] = 0 /\ store[c] = given[c])
    BY <1>1 DEF ConfigurationKept, Effective
  <2>3. given' = IF Arg \in Certificate /\ "force" \in flags THEN [given EXCEPT ![Arg] = 0] ELSE given
    BY DEF DropProxySecret, Set
  <2>4. c \in Secret
    BY ProxyNames
  <2>5. \/ given'[c] = given[c] /\ store'[c] = store[c]
        \/ given'[c] = 0
    <3>1. CASE UNCHANGED store
      BY <1>1, <2>3, <3>1
    <3>2. CASE "force" \in flags /\ store' = [store EXCEPT ![Arg] = 0] /\ c = Arg
      BY <1>1, <2>3, <3>2
    <3>3. CASE store' = [store EXCEPT ![Arg] = 0] /\ c # Arg
      BY <1>1, <2>3, <2>4, <3>3
    <3>4. QED BY <1>6, <3>1, <3>2, <3>3
  <2>6. QED BY <1>3, <2>1, <2>2, <2>5
<1>11. QED BY <1>2, <1>7, <1>8, <1>9, <1>10, ProxyKept

LEMMA CutProxyKept ==
  ASSUME ProxyHost, HostTypeOK, CutProxyCommand
  PROVE  ProxyHost'
<1>1. /\ ProxyInv /\ ProxyTodo /\ ConfigurationKept /\ store \in [Secret -> Generation]
      /\ flags \cap Core = {}
  BY DEF ProxyHost, ProxyInv, HostTypeOK
<1>2. ProxyGoes /\ ~Idle
  BY <1>1, ProxyMoves DEF ProxyGoes, Goes
<1>3. Interrupt(Extracts)
  BY DEF CutProxyCommand
<1>4. /\ UNCHANGED <<unit, mounts, stuck>> /\ unmade' = unmade \cup Pending /\ flags' = {}
      /\ \/ UNCHANGED store
         \/ Extracts /\ store' = [store EXCEPT ![Arg] = 0]
  BY <1>3 DEF Interrupt, services
<1>5. Left' = {}
  BY <1>1, <1>3, InterruptEnds, ProxyEnds
<1>6. Extracts => Arg \in Certificate /\ Arg \in Secret /\ yaml[Arg] # 0 /\ Arg \in Pending
                  /\ Head(todo)[1] = "extract"
  <2>1. SUFFICES ASSUME Extracts
                 PROVE  Arg \in Certificate /\ Arg \in Secret /\ yaml[Arg] # 0 /\ Arg \in Pending
                        /\ Head(todo)[1] = "extract"
    OBVIOUS
  <2>2. Head(todo)[1] = "extract" /\ yaml[Arg] # 0
    BY <2>1 DEF Extracts, At
  <2>3. /\ Head(todo) \in Left /\ Head(todo) = <<"extract", Arg>> /\ Arg \in Certificate
        /\ Arg \in Secret
    BY <1>1, <1>2, <2>2, ProxyAtSetup, ProxySetupStepIs, ProxyNames DEF Arg
  <2>4. PICK i \in DOMAIN todo : todo[i] = <<"extract", Arg>>
    BY <2>3 DEF Left, Range
  <2>5. Arg \in Pending
    BY <2>3, <2>4 DEF Pending
  <2>6. QED BY <2>2, <2>3, <2>5
<1>7. Made \subseteq Made'
  <2>1. CASE UNCHANGED store
    BY <1>4, <2>1 DEF Made, Present, HasSecret
  <2>2. CASE Extracts /\ store' = [store EXCEPT ![Arg] = 0]
    BY <1>4, <1>6, <2>2, StoredIs
  <2>3. QED BY <1>4, <2>1, <2>2
<1>8. ProxyUnitsFine
  <2>1. unit' \subseteq ProxyUnit /\ "force" \notin flags'
    BY <1>1, <1>4 DEF ProxyInv
  <2>2. QED BY <1>4, <2>1 DEF ProxyUnitsFine
<1>9. Extracted'
  BY <1>5 DEF Extracted
<1>10. ConfigurationKept'
  <2>1. SUFFICES ASSUME NEW c \in Certificate, given'[c] # 0
                 PROVE  yaml'[c] = given'[c] \/ (yaml'[c] = 0 /\ store'[c] = given'[c])
    BY DEF ConfigurationKept, Effective, Certificate
  <2>2. given[c] # 0 => yaml[c] = given[c] \/ (yaml[c] = 0 /\ store[c] = given[c])
    BY <1>1 DEF ConfigurationKept, Effective
  <2>3. c \in Secret
    BY ProxyNames
  <2>4. CASE UNCHANGED proxyVars
    <3>1. yaml'[c] = yaml[c] /\ given'[c] = given[c]
      BY <2>4 DEF proxyVars
    <3>2. store'[c] = store[c] \/ yaml[c] # 0
      BY <1>1, <1>4, <1>6, <2>3
    <3>3. QED BY <2>1, <2>2, <3>1, <3>2
  <2>5. CASE Saves /\ Written(Arg, "torn", 0) /\ UNCHANGED given
    <3>1. Head(todo)[1] = "save"
      BY <2>5 DEF Saves, At
    <3>2. UNCHANGED store
      BY <1>4, <1>6, <3>1
    <3>3. Head(todo) = <<"save", Arg>> /\ Arg \in File
      BY <1>1, <1>2, <3>1, ProxyAtSetup, ProxySetupStepIs DEF Arg
    <3>4. \A d \in In(Arg) : yaml[d] \in {0, store[d]}
      BY <1>1, <1>2, <3>3, SavedAfter
    <3>5. yaml'[c] = IF c \in In(Arg) THEN 0 ELSE yaml[c]
      BY <2>5, WrittenIs
    <3>6. QED BY <2>1, <2>2, <2>5, <3>2, <3>4, <3>5
  <2>6. CASE /\ At("unpack") /\ Written(Arg, "torn", 0)
             /\ given' = [d \in Certificate |-> IF d \in In(Arg) THEN 0 ELSE given[d]]
    <3>1. Head(todo)[1] = "unpack"
      BY <2>6 DEF At
    <3>2. UNCHANGED store
      BY <1>4, <1>6, <3>1
    <3>3. yaml'[c] = (IF c \in In(Arg) THEN 0 ELSE yaml[c]) /\ given'[c] = IF c \in In(Arg) THEN 0 ELSE given[c]
      BY <2>6, WrittenIs
    <3>4. QED BY <2>1, <2>2, <3>2, <3>3
  <2>7. QED BY <2>4, <2>5, <2>6 DEF CutProxyCommand
<1>11. QED BY <1>2, <1>7, <1>8, <1>9, <1>10, ProxyKept

LEMMA ProxyStands ==
  ASSUME ProxyHost, UNCHANGED <<unit, mounts, stuck, store, unmade, todo, flags, gen, yaml, given>>
  PROVE  ProxyHost'
<1>1. /\ Left' = Left /\ Made' = Made /\ (Idle <=> Idle') /\ Present' = Present
  BY DEF Left, Made, Present, HasSecret, Idle
<1>2. HostInv'
  BY <1>1 DEF ProxyHost, HostInv, UnitsUsable, Removed, Made
<1>3. ProxyTodo' /\ unit' \subseteq ProxyUnit /\ flags' \cap Core = {}
  BY DEF ProxyHost, ProxyInv, ProxyTodo
<1>4. Extracted' /\ ConfigurationKept'
  BY <1>1 DEF ProxyHost, ProxyInv, Extracted, ConfigurationKept, Effective
<1>5. QED BY <1>2, <1>3, <1>4 DEF ProxyHost, ProxyInv

-----------------------------------------------------------------------------
(* The commands of the proxy *)

\* A command begins: what there is to show of its steps.
LEMMA ProxyBegins ==
  ASSUME ProxyHost, HostTypeOK, NEW f, NEW s, Begin(f, s),
         UNCHANGED <<unit, mounts, stuck, store, unmade, yaml, given>>,
         s \in Seq(ProxySetupSteps) \/ s \in Seq(ProxyRemovalSteps), Staged(s), f \cap Core = {},
         "force" \in f => \A u \in unit : <<"uninstall", u>> \in Range(s),
         \/ {"extract"} \X Certificate \subseteq Range(s)
         \/ \A x \in Range(s) : x[1] \notin {"save", "unpack"}
  PROVE  ProxyHost'
<1>1. /\ todo' = s /\ flags' = f /\ gen' = gen + 1 /\ gen \in Nat
  BY HostAssumption DEF Begin, HostTypeOK, Generation
<1>2. Left' = Range(s)
  BY <1>1 DEF Left
<1>3. Present' = Present /\ Made' = Made
  BY DEF Present, HasSecret, Made
<1>4. ProxyTodo'
  BY <1>1 DEF ProxyTodo, ProxySetupSteps, ProxyRemovalSteps
<1>5. UnitsUsable'
  BY <1>3 DEF ProxyHost, HostInv, UnitsUsable, Made
<1>6. Removed'
  BY <1>1, <1>2 DEF Removed
<1>7. ~Idle' => gen' # 0
  BY <1>1
<1>8. unit' \subseteq ProxyUnit /\ flags' \cap Core = {}
  BY <1>1 DEF ProxyHost, ProxyInv
<1>9. Extracted'
  <2>1. CASE {"extract"} \X Certificate \subseteq Range(s)
    <3>1. ASSUME NEW c \in Certificate PROVE <<"extract", c>> \in Left'
      <4>1. <<"extract", c>> \in {"extract"} \X Certificate
        OBVIOUS
      <4>2. QED BY <1>2, <2>1, <4>1
    <3>2. \A g : In(g) \subseteq Certificate
      BY DEF In
    <3>3. QED BY <1>2, <2>1, <3>1, <3>2 DEF Extracted, In, File, FileOf, Certificate
  <2>2. CASE \A x \in Range(s) : x[1] \notin {"save", "unpack"}
    <3>1. ASSUME NEW g, <<"save", g>> \in Left' PROVE FALSE
      BY <1>2, <2>2, <3>1
    <3>2. ASSUME NEW x \in Left', x \in {"unpack"} \X File PROVE FALSE
      BY <1>2, <2>2, <3>2, PairOf
    <3>3. QED BY <3>1, <3>2 DEF Extracted
  <2>3. QED BY <2>1, <2>2
<1>10. ConfigurationKept'
  BY DEF ProxyHost, ProxyInv, ConfigurationKept, Effective, Certificate
<1>11. HostInv'
  BY <1>5, <1>6, <1>7 DEF HostInv
<1>12. ProxyInv'
  BY <1>4, <1>8, <1>9, <1>10 DEF ProxyInv, ProxyUnit, Core
<1>13. QED BY <1>11, <1>12 DEF ProxyHost

LEMMA Widened ==
  \A s, S, T, a, b : Piece(s, S, a, b) /\ S \subseteq T => Piece(s, T, a, b)
BY DEF Piece

\* The steps that do not touch the configuration.
Untouching == {x \in ProxySetupSteps : x[1] \notin {"save", "unpack"}}

LEMMA ServicesInOrder ==
  \A us \in SUBSET Service : InOrderProxy(us) \in Seq(us) /\ Range(InOrderProxy(us)) = us
<1>1. ServiceOrder \in Seq({"httpd", "salt-broker", "squid", "ssh", "tftpd"})
  BY DEF ServiceOrder
<1>2. Service \subseteq Range(ServiceOrder)
  BY ProxyAssumption
<1>3. QED BY <1>1, <1>2, ChosenFrom DEF InOrderProxy

LEMMA PodAndServices ==
  /\ <<Pod>> \o InOrderProxy(Service) \in Seq(ProxyUnit)
  /\ Range(<<Pod>> \o InOrderProxy(Service)) = ProxyUnit
<1> DEFINE p == <<Pod>>
           s == InOrderProxy(Service)
<1>1. p \in Seq(ProxyUnit) /\ Range(p) = {Pod}
  BY Few DEF ProxyUnit
<1>2. s \in Seq(Service) /\ Range(s) = Service
  BY ServicesInOrder
<1>3. Service \subseteq ProxyUnit
  BY DEF ProxyUnit
<1> HIDE DEF p, s
<1>4. s \in Seq(ProxyUnit)
  BY <1>2, <1>3, SeqOfRange
<1>5. p \o s \in Seq(ProxyUnit) /\ Range(p \o s) = Range(p) \cup Range(s)
  BY <1>1, <1>4, Concat
<1>6. QED BY <1>1, <1>2, <1>5 DEF p, s, ProxyUnit

LEMMA ProxyPieces ==
  ASSUME NEW k \in Nat
  PROVE  /\ \A op \in {"validate", "forget", "systemid", "network", "startpod", "stoppod"} :
              Piece(Step(op, Pod), Untouching, k, k)
         /\ \A us \in SUBSET Service : Piece(Steps("fetch", InOrderProxy(us)), Untouching, k, k)
         /\ Piece(Units, Untouching, k, k)
<1>1. ASSUME NEW op \in {"validate", "forget", "systemid", "network", "startpod", "stoppod"}
      PROVE  Piece(Step(op, Pod), Untouching, k, k)
  <2>1. <<op, Pod>> \in ProxySetupSteps
    BY Zenon DEF ProxySetupSteps
  <2>2. <<op, Pod>> \in Untouching /\ Stage(<<op, Pod>>) = 0
    BY <2>1 DEF Untouching, Stage
  <2>3. QED BY <2>2, OneStep
<1>2. ASSUME NEW op \in {"fetch", "generate"}, NEW A, NEW args \in Seq(A),
             {op} \X A \subseteq ProxySetupSteps
      PROVE  Piece(Steps(op, args), Untouching, k, k)
  <2>1. Steps(op, args) \in Seq({op} \X A)
    BY StepsAre
  <2>2. ASSUME NEW x \in {op} \X A PROVE x \in Untouching /\ Stage(x) = 0
    <3>1. x[1] = op /\ x \in ProxySetupSteps
      BY <1>2, <2>2, PairOf
    <3>2. QED BY <3>1 DEF Untouching, Stage
  <2>3. \A x \in Range(Steps(op, args)) : x \in {op} \X A
    BY <2>1 DEF Range
  <2>4. Steps(op, args) \in Seq(Untouching)
    BY <2>1, <2>2, <2>3, SeqOfRange
  <2>5. QED BY <2>2, <2>3, <2>4, PieceOf
<1>3. {"fetch"} \X Service \subseteq ProxySetupSteps /\ {"generate"} \X ProxyUnit \subseteq ProxySetupSteps
  BY Zenon DEF ProxySetupSteps
<1>4. ASSUME NEW us \in SUBSET Service
      PROVE  Piece(Steps("fetch", InOrderProxy(us)), Untouching, k, k)
  <2>1. InOrderProxy(us) \in Seq(Service)
    <3>1. InOrderProxy(us) \in Seq(us) /\ Range(InOrderProxy(us)) = us
      BY ServicesInOrder
    <3>2. QED BY <3>1, SeqOfRange
  <2>2. QED BY <1>2, <1>3, <2>1
<1>5. Piece(Units, Untouching, k, k)
  BY <1>2, <1>3, PodAndServices DEF Units
<1>6. QED BY <1>1, <1>4, <1>5

\* ExtractSecrets
LEMMA ExtractStepsAre ==
  /\ Piece(ExtractSteps, ProxySetupSteps, 2, 5)
  /\ {"extract"} \X Certificate \subseteq Range(ExtractSteps)
<1> DEFINE S == ProxySetupSteps
           ca == <<"proxy", "ca">>
           cert == <<"proxy", "cert">>
           key == <<"proxy", "key">>
           pair == <<cert, key>>
           a == Step("extract", ca)
           b == Step("save", "config")
           c == Steps("extract", pair)
           d == Step("save", "httpd")
<1>1. {"extract"} \X Certificate \subseteq S /\ {"save"} \X File \subseteq S
  BY Zenon DEF ProxySetupSteps
<1>2. Certificate = {ca, cert, key} /\ cert # ca /\ key # ca
  BY DEF Certificate
<1>3. pair \in Seq({cert, key}) /\ Range(pair) = {cert, key}
  BY DEF Range
<1>4. /\ <<"extract", ca>> \in S /\ <<"save", "config">> \in S /\ <<"save", "httpd">> \in S
  BY <1>1, <1>2 DEF File
<1>5. /\ Stage(<<"extract", ca>>) = 2 /\ Stage(<<"save", "config">>) = 3
      /\ Stage(<<"save", "httpd">>) = 5
  BY DEF Stage
<1>6. /\ Piece(a, S, 2, 2) /\ Range(a) = {<<"extract", ca>>}
      /\ Piece(b, S, 3, 3) /\ Piece(d, S, 5, 5)
  BY <1>4, <1>5, OneStep
<1> HIDE DEF pair
<1>7. Piece(c, S, 4, 4) /\ Range(c) = {<<"extract", x>> : x \in {cert, key}}
  <2>1. Steps("extract", pair) \in Seq({"extract"} \X {cert, key})
        /\ Range(Steps("extract", pair)) = {<<"extract", x>> : x \in Range(pair)}
    BY <1>3, StepsAre
  <2>2. ASSUME NEW x \in {"extract"} \X {cert, key} PROVE x \in S /\ Stage(x) = 4
    <3>1. x[1] = "extract" /\ x[2] \in {cert, key} /\ x = <<x[1], x[2]>>
      BY <2>2, PairOf
    <3>2. x \in {"extract"} \X Certificate
      BY <1>2, <3>1
    <3>3. Stage(x) = 4
      BY <1>2, <3>1 DEF Stage
    <3>4. QED BY <1>1, <3>2, <3>3
  <2>3. \A x \in Range(c) : x \in {"extract"} \X {cert, key}
    BY <2>1 DEF Range
  <2>4. c \in Seq(S)
    BY <2>1, <2>2, <2>3, SeqOfRange
  <2> HIDE DEF c
  <2>5. Piece(c, S, 4, 4)
    BY <2>2, <2>3, <2>4, PieceOf
  <2>6. QED BY <1>3, <2>1, <2>5 DEF c
<1>8. ExtractSteps = ((a \o b) \o c) \o d
  BY DEF ExtractSteps, pair
<1> HIDE DEF S, a, b, c, d
<1>9. Piece(a \o b, S, 2, 3) /\ Range(a) \subseteq Range(a \o b)
  <2>1. Piece(a, S, 2, 2) /\ Piece(b, S, 3, 3)
    BY <1>6
  <2>2. Piece(a \o b, S, 2, 3) /\ Range(a \o b) = Range(a) \cup Range(b)
    BY <2>1, Appended
  <2>3. QED BY <2>2
<1>10. Piece((a \o b) \o c, S, 2, 4) /\ Range(a) \cup Range(c) \subseteq Range((a \o b) \o c)
  <2> DEFINE e == a \o b
  <2>1. Piece(e, S, 2, 3) /\ Range(a) \subseteq Range(e)
    BY <1>9
  <2>2. Piece(c, S, 4, 4)
    BY <1>7
  <2> HIDE DEF e
  <2>3. Piece(e \o c, S, 2, 4) /\ Range(e \o c) = Range(e) \cup Range(c)
    BY <2>1, <2>2, Appended
  <2>4. QED BY <2>1, <2>3 DEF e
<1>11. Piece(((a \o b) \o c) \o d, S, 2, 5)
       /\ Range(a) \cup Range(c) \subseteq Range(((a \o b) \o c) \o d)
  <2> DEFINE e == (a \o b) \o c
  <2>1. Piece(e, S, 2, 4) /\ Range(a) \cup Range(c) \subseteq Range(e)
    BY <1>10
  <2>2. Piece(d, S, 5, 5)
    BY <1>6
  <2> HIDE DEF e
  <2>3. Piece(e \o d, S, 2, 5) /\ Range(e \o d) = Range(e) \cup Range(d)
    BY <2>1, <2>2, Appended
  <2>4. QED BY <2>1, <2>3 DEF e
<1>12. {"extract"} \X Certificate \subseteq Range(a) \cup Range(c)
  <2>1. ASSUME NEW x \in {"extract"} \X Certificate PROVE x \in Range(a) \cup Range(c)
    <3>1. x = <<"extract", x[2]>> /\ x[2] \in Certificate
      BY <2>1, PairOf
    <3>2. QED BY <1>2, <1>6, <1>7, <3>1
  <2>2. QED BY <2>1
<1>13. QED BY <1>8, <1>11, <1>12 DEF S

\* A longer command: steps after the ones of s that leave the configuration as it is.
LEMMA Lengthened ==
  \A s, t : \A a \in 0 .. 5 :
    Piece(s, ProxySetupSteps, a, 5) /\ Piece(t, Untouching, 5, 5) =>
      Piece(s \o t, ProxySetupSteps, a, 5) /\ Range(s) \subseteq Range(s \o t)
<1> TAKE s, t
<1> TAKE a \in 0 .. 5
<1> HAVE Piece(s, ProxySetupSteps, a, 5) /\ Piece(t, Untouching, 5, 5)
<1>1. Untouching \subseteq ProxySetupSteps
  BY DEF Untouching
<1>2. Piece(t, ProxySetupSteps, 5, 5)
  BY <1>1, Widened
<1> DEFINE S == ProxySetupSteps
<1>3. Piece(s, S, a, 5) /\ Piece(t, S, 5, 5)
  BY <1>2
<1> HIDE DEF S
<1>4. Piece(s \o t, S, a, 5) /\ Range(s \o t) = Range(s) \cup Range(t)
  BY <1>3, Appended
<1>5. QED BY <1>4 DEF S

LEMMA Prefixed ==
  \A S, s, t : Piece(s, S, 1, 1) /\ Piece(t, S, 2, 5) =>
    Piece(s \o t, S, 1, 5) /\ Range(s \o t) = Range(s) \cup Range(t)
<1> TAKE S, s, t
<1> HAVE Piece(s, S, 1, 1) /\ Piece(t, S, 2, 5)
<1>1. \A a, b, c, d \in Nat :
        Piece(s, S, a, b) /\ Piece(t, S, c, d) /\ a <= b /\ b <= c /\ c <= d =>
          Piece(s \o t, S, a, d) /\ Range(s \o t) = Range(s) \cup Range(t)
  BY Joined
<1>2. QED BY <1>1

LEMMA SystemIDStepsAre ==
  ASSUME NEW minion \in BOOLEAN, NEW k \in Nat
  PROVE  /\ Piece(SystemIDSteps(minion), Untouching, k, k)
         /\ Piece(Unless(~minion, Step("forget", Pod)), Untouching, k, k)
<1>1. Piece(Step("systemid", Pod), Untouching, k, k) /\ Piece(Step("forget", Pod), Untouching, k, k)
  BY ProxyPieces
<1>2. (~minion) \in BOOLEAN
  BY Zenon
<1>3. Piece(Unless(~minion, Step("systemid", Pod)), Untouching, k, k)
  BY <1>1, <1>2, PerhapsPiece
<1>4. Piece(Unless(~minion, Step("forget", Pod)), Untouching, k, k)
  BY <1>1, <1>2, PerhapsPiece
<1>5. QED BY <1>3, <1>4, Zenon DEF SystemIDSteps

LEMMA ImagesAre ==
  ASSUME NEW k \in Nat
  PROVE  Piece(Images, Untouching, k, k)
BY ProxyPieces DEF Images

\* installForPodman
LEMMA ProxyInstallStepsAre ==
  ASSUME NEW tarball \in BOOLEAN, NEW minion \in BOOLEAN
  PROVE  /\ Piece(ProxyInstallSteps(tarball, minion), ProxySetupSteps, 1, 5)
         /\ {"extract"} \X Certificate \subseteq Range(ProxyInstallSteps(tarball, minion))
<1> DEFINE S == ProxySetupSteps
           both == <<"config", "httpd">>
           u == Unless(~tarball, Steps("unpack", both))
           v == Step("validate", Pod)
           x == ExtractSteps
           f == Step("forget", Pod)
           i == SystemIDSteps(minion)
           n == Step("network", Pod)
           p == Step("startpod", Pod)
           s2 == u \o v
           s3 == s2 \o x
           s4 == s3 \o f
           s5 == s4 \o i
           s6 == s5 \o Images
           s7 == s6 \o n
           s8 == s7 \o Units
<1>1. Piece(u, S, 1, 1)
  <2>1. Steps("unpack", both) \in Seq({"unpack"} \X File)
    <3>1. both \in Seq(File)
      BY DEF File
    <3> HIDE DEF both
    <3>2. QED BY <3>1, StepsAre
  <2>2. \A y \in Range(Steps("unpack", both)) : y \in {"unpack"} \X File
    BY <2>1 DEF Range
  <2>3. {"unpack"} \X File \subseteq S
    BY Zenon DEF ProxySetupSteps
  <2>4. \A y \in {"unpack"} \X File : Stage(y) = 1
    BY PairOf DEF Stage
  <2> HIDE DEF both, S
  <2>5. Steps("unpack", both) \in Seq(S)
    BY <2>1, <2>2, <2>3, SeqOfRange
  <2>6. Piece(Steps("unpack", both), S, 1, 1)
    BY <2>2, <2>4, <2>5, PieceOf
  <2>7. (~tarball) \in BOOLEAN
    BY Zenon
  <2>8. Piece(Unless(~tarball, Steps("unpack", both)), S, 1, 1)
    BY <2>6, <2>7, PerhapsPiece
  <2>9. QED BY <2>8
<1>2. Piece(v, S, 1, 1)
  <2>1. Piece(v, Untouching, 1, 1)
    BY ProxyPieces
  <2>2. Untouching \subseteq S
    BY DEF Untouching
  <2>3. QED BY <2>1, <2>2, Widened
<1>3. Piece(x, S, 2, 5) /\ {"extract"} \X Certificate \subseteq Range(x)
  BY ExtractStepsAre
<1>4. /\ Piece(f, Untouching, 5, 5) /\ Piece(n, Untouching, 5, 5) /\ Piece(p, Untouching, 5, 5)
      /\ Piece(Units, Untouching, 5, 5)
  BY ProxyPieces
<1>5. Piece(i, Untouching, 5, 5) /\ Piece(Images, Untouching, 5, 5)
  BY SystemIDStepsAre, ImagesAre
<1>6. ProxyInstallSteps(tarball, minion) = s8 \o p
  BY DEF ProxyInstallSteps
<1> HIDE DEF u, v, x, f, i, n, p, S
<1>7. Piece(s2, S, 1, 1)
  BY <1>1, <1>2, Alike
<1> HIDE DEF s2
<1>8. Piece(s3, S, 1, 5) /\ Range(x) \subseteq Range(s3)
  <2>1. Piece(s2, S, 1, 1) /\ Piece(x, S, 2, 5)
    BY <1>3, <1>7
  <2>2. Piece(s2 \o x, S, 1, 5) /\ Range(s2 \o x) = Range(s2) \cup Range(x)
    BY <2>1, Prefixed
  <2>3. QED BY <2>2
<1> HIDE DEF s3
<1>9. ASSUME NEW s, NEW t, Piece(s, ProxySetupSteps, 1, 5), Piece(t, Untouching, 5, 5)
      PROVE  Piece(s \o t, ProxySetupSteps, 1, 5) /\ Range(s) \subseteq Range(s \o t)
  <2>1. 1 \in 0 .. 5
    OBVIOUS
  <2>2. QED BY <1>9, <2>1, Lengthened
<1>10. Piece(s3, ProxySetupSteps, 1, 5)
  BY <1>8 DEF S
<1>11. Piece(s4, ProxySetupSteps, 1, 5) /\ Range(s3) \subseteq Range(s4)
  BY <1>4, <1>9, <1>10
<1> HIDE DEF s4
<1>12. Piece(s5, ProxySetupSteps, 1, 5) /\ Range(s4) \subseteq Range(s5)
  BY <1>5, <1>9, <1>11
<1> HIDE DEF s5
<1>13. Piece(s6, ProxySetupSteps, 1, 5) /\ Range(s5) \subseteq Range(s6)
  BY <1>5, <1>9, <1>12
<1> HIDE DEF s6
<1>14. Piece(s7, ProxySetupSteps, 1, 5) /\ Range(s6) \subseteq Range(s7)
  BY <1>4, <1>9, <1>13
<1> HIDE DEF s7
<1>15. Piece(s8, ProxySetupSteps, 1, 5) /\ Range(s7) \subseteq Range(s8)
  BY <1>4, <1>9, <1>14
<1> HIDE DEF s8
<1>16. Piece(s8 \o p, ProxySetupSteps, 1, 5) /\ Range(s8) \subseteq Range(s8 \o p)
  BY <1>4, <1>9, <1>15
<1>17. Range(x) \subseteq Range(s8 \o p)
  BY <1>8, <1>11, <1>12, <1>13, <1>14, <1>15, <1>16
<1>18. QED BY <1>3, <1>6, <1>16, <1>17

\* Upgrade
LEMMA ProxyUpgradeStepsAre ==
  ASSUME NEW minion \in BOOLEAN
  PROVE  /\ Piece(ProxyUpgradeSteps(minion), ProxySetupSteps, 1, 5)
         /\ {"extract"} \X Certificate \subseteq Range(ProxyUpgradeSteps(minion))
<1> DEFINE S == ProxySetupSteps
           v == Step("stoppod", Pod)
           x == ExtractSteps
           f == Unless(~minion, Step("forget", Pod))
           i == SystemIDSteps(minion)
           p == Step("startpod", Pod)
           s3 == v \o x
           s4 == s3 \o f
           s5 == s4 \o i
           s6 == s5 \o Images
           s8 == s6 \o Units
<1>2. Piece(v, S, 1, 1)
  <2>1. Piece(v, Untouching, 1, 1)
    BY ProxyPieces
  <2>2. Untouching \subseteq S
    BY DEF Untouching
  <2>3. QED BY <2>1, <2>2, Widened
<1>3. Piece(x, S, 2, 5) /\ {"extract"} \X Certificate \subseteq Range(x)
  BY ExtractStepsAre
<1>4. /\ Piece(p, Untouching, 5, 5) /\ Piece(Units, Untouching, 5, 5)
  BY ProxyPieces
<1>5. Piece(f, Untouching, 5, 5) /\ Piece(i, Untouching, 5, 5) /\ Piece(Images, Untouching, 5, 5)
  BY SystemIDStepsAre, ImagesAre
<1>6. ProxyUpgradeSteps(minion) = s8 \o p
  BY DEF ProxyUpgradeSteps
<1> HIDE DEF v, x, f, i, p, S
<1>8. Piece(s3, S, 1, 5) /\ Range(x) \subseteq Range(s3)
  <2>1. Piece(v, S, 1, 1) /\ Piece(x, S, 2, 5)
    BY <1>2, <1>3
  <2>2. Piece(v \o x, S, 1, 5) /\ Range(v \o x) = Range(v) \cup Range(x)
    BY <2>1, Prefixed
  <2>3. QED BY <2>2
<1> HIDE DEF s3
<1>9. ASSUME NEW s, NEW t, Piece(s, ProxySetupSteps, 1, 5), Piece(t, Untouching, 5, 5)
      PROVE  Piece(s \o t, ProxySetupSteps, 1, 5) /\ Range(s) \subseteq Range(s \o t)
  <2>1. 1 \in 0 .. 5
    OBVIOUS
  <2>2. QED BY <1>9, <2>1, Lengthened
<1>10. Piece(s3, ProxySetupSteps, 1, 5)
  BY <1>8 DEF S
<1>11. Piece(s4, ProxySetupSteps, 1, 5) /\ Range(s3) \subseteq Range(s4)
  BY <1>5, <1>9, <1>10
<1> HIDE DEF s4
<1>12. Piece(s5, ProxySetupSteps, 1, 5) /\ Range(s4) \subseteq Range(s5)
  BY <1>5, <1>9, <1>11
<1> HIDE DEF s5
<1>13. Piece(s6, ProxySetupSteps, 1, 5) /\ Range(s5) \subseteq Range(s6)
  BY <1>5, <1>9, <1>12
<1> HIDE DEF s6
<1>14. Piece(s8, ProxySetupSteps, 1, 5) /\ Range(s6) \subseteq Range(s8)
  BY <1>4, <1>9, <1>13
<1> HIDE DEF s8
<1>15. Piece(s8 \o p, ProxySetupSteps, 1, 5) /\ Range(s8) \subseteq Range(s8 \o p)
  BY <1>4, <1>9, <1>14
<1>16. Range(x) \subseteq Range(s8 \o p)
  BY <1>8, <1>11, <1>12, <1>13, <1>14, <1>15
<1>17. QED BY <1>3, <1>6, <1>15, <1>16

\* ptfForPodman
LEMMA PTFStepsAre ==
  ASSUME NEW found \in SUBSET Service
  PROVE  Piece(PTFSteps(found), Untouching, 0, 0)
<1> DEFINE v == Step("stoppod", Pod)
           i == Steps("fetch", InOrderProxy(found))
           p == Step("startpod", Pod)
           s2 == v \o i
           s3 == s2 \o Units
<1>1. /\ Piece(v, Untouching, 0, 0) /\ Piece(p, Untouching, 0, 0) /\ Piece(Units, Untouching, 0, 0)
      /\ Piece(i, Untouching, 0, 0)
  BY ProxyPieces
<1>2. PTFSteps(found) = s3 \o p
  BY DEF PTFSteps
<1> HIDE DEF v, i, p
<1>3. Piece(s2, Untouching, 0, 0)
  BY <1>1, Alike
<1> HIDE DEF s2
<1>4. Piece(s3, Untouching, 0, 0)
  BY <1>1, <1>3, Alike
<1> HIDE DEF s3
<1>5. Piece(s3 \o p, Untouching, 0, 0)
  BY <1>1, <1>4, Alike
<1>6. QED BY <1>2, <1>5

LEMMA Removals ==
  \A S, s, t : Piece(s, S, 1, 1) /\ Piece(t, S, 1, 1) => Piece(s \o t, S, 1, 1)
<1> TAKE S, s, t
<1> HAVE Piece(s, S, 1, 1) /\ Piece(t, S, 1, 1)
<1>1. \A k \in 0 .. 7 :
        Piece(s, S, k, k) /\ Piece(t, S, k, k) =>
          Piece(s \o t, S, k, k) /\ Range(s \o t) = Range(s) \cup Range(t)
  BY Alike
<1>2. QED BY <1>1

\* uninstallForPodman: all the units first, then the secrets.
LEMMA ProxyUninstallStepsAre ==
  ASSUME NEW g
  PROVE  /\ Piece(ProxyUninstallSteps(g), ProxyRemovalSteps, 1, 2)
         /\ \A u \in ProxyUnit : <<"uninstall", u>> \in Range(ProxyUninstallSteps(g))
<1> DEFINE S == ProxyRemovalSteps
           all == <<Pod>> \o InOrderProxy(Service)
           secrets == <<SystemID, <<"proxy", "ca">>, <<"proxy", "cert">>, <<"proxy", "key">> >>
           purged == Purged(InOrderProxy(Service))
           a == Steps("uninstall", all)
           k == Steps("kill", InOrderProxy(Service))
           vf == Step("volumes", Pod) \o Step("folder", Pod)
           v == Unless("volumes" \notin g, vf)
           i == Unless("images" \notin g, Steps("purge", purged))
           n == Step("dropnetwork", Pod)
           d == Steps("drop", secrets)
           s2 == a \o k
           s3 == s2 \o v
           s4 == s3 \o i
           s5 == s4 \o n
<1>1. ASSUME NEW op \in {"uninstall", "kill", "purge"}, NEW A, NEW args \in Seq(A),
             {op} \X A \subseteq S
      PROVE  Piece(Steps(op, args), S, 1, 1)
  <2>1. Steps(op, args) \in Seq({op} \X A)
    BY StepsAre
  <2>2. ASSUME NEW x \in {op} \X A PROVE x \in S /\ Stage(x) \in {0, 1}
    <3>1. x[1] \in {"uninstall", "kill", "purge"}
      BY <2>2, PairOf
    <3>2. Stage(x) \in {0, 1}
      BY <3>1 DEF Stage
    <3>3. QED BY <1>1, <2>2, <3>2
  <2>3. \A x \in Range(Steps(op, args)) : x \in {op} \X A
    BY <2>1 DEF Range
  <2> HIDE DEF S
  <2>4. Steps(op, args) \in Seq(S)
    BY <2>1, <2>2, <2>3, SeqOfRange
  <2>5. QED BY <2>2, <2>3, <2>4, PieceOf
<1>2. /\ {"uninstall"} \X ProxyUnit \subseteq S /\ {"kill"} \X Service \subseteq S
      /\ {"purge"} \X Service \subseteq S /\ {"drop"} \X ProxySecret \subseteq S
      /\ <<"volumes", Pod>> \in S /\ <<"folder", Pod>> \in S /\ <<"dropnetwork", Pod>> \in S
  BY Zenon DEF ProxyRemovalSteps
<1>3. all \in Seq(ProxyUnit) /\ Range(all) = ProxyUnit
  BY PodAndServices
<1>4. InOrderProxy(Service) \in Seq(Service)
  BY ServicesInOrder
<1>5. purged \in Seq(Service)
  BY <1>4, ChosenElems DEF Purged
<1> HIDE DEF all, purged, S, secrets, vf
<1>6. Piece(a, S, 1, 1) /\ Range(a) = {<<"uninstall", u>> : u \in ProxyUnit}
  <2>1. Piece(Steps("uninstall", all), S, 1, 1)
    BY <1>1, <1>2, <1>3
  <2>2. Range(Steps("uninstall", all)) = {<<"uninstall", u>> : u \in Range(all)}
    <3>1. all \in Seq(ProxyUnit)
      BY <1>3
    <3>2. QED BY <3>1, StepsAre
  <2>3. QED BY <1>3, <2>1, <2>2
<1>7. Piece(k, S, 1, 1)
  BY <1>1, <1>2, <1>4
<1>8. Piece(v, S, 1, 1)
  <2> DEFINE v1 == Step("volumes", Pod)
             v2 == Step("folder", Pod)
  <2>1. Stage(<<"volumes", Pod>>) = 0 /\ Stage(<<"folder", Pod>>) = 0
    BY DEF Stage
  <2>2. Piece(v1, S, 1, 1) /\ Piece(v2, S, 1, 1)
    BY <1>2, <2>1, OneStep
  <2> HIDE DEF v1, v2
  <2>3. Piece(v1 \o v2, S, 1, 1)
    BY <2>2, Removals
  <2>4. Piece(vf, S, 1, 1)
    BY <2>3 DEF v1, v2, vf
  <2>5. ("volumes" \notin g) \in BOOLEAN
    BY Zenon
  <2>6. Piece(Unless("volumes" \notin g, vf), S, 1, 1)
    BY <2>4, <2>5, PerhapsPiece
  <2>7. QED BY <2>6
<1>9. Piece(i, S, 1, 1)
  <2>1. Piece(Steps("purge", purged), S, 1, 1)
    BY <1>1, <1>2, <1>5
  <2>2. ("images" \notin g) \in BOOLEAN
    BY Zenon
  <2>3. Piece(Unless("images" \notin g, Steps("purge", purged)), S, 1, 1)
    BY <2>1, <2>2, PerhapsPiece
  <2>4. QED BY <2>3
<1>10. Piece(n, S, 1, 1)
  <2>1. Stage(<<"dropnetwork", Pod>>) = 0
    BY DEF Stage
  <2>2. QED BY <1>2, <2>1, OneStep
<1>11. Piece(d, S, 2, 2)
  <2>1. secrets \in Seq(ProxySecret)
    <3>1. /\ SystemID \in ProxySecret /\ <<"proxy", "ca">> \in ProxySecret
          /\ <<"proxy", "cert">> \in ProxySecret /\ <<"proxy", "key">> \in ProxySecret
      BY DEF ProxySecret, Certificate
    <3> DEFINE ca == <<"proxy", "ca">>
               cert == <<"proxy", "cert">>
               key == <<"proxy", "key">>
    <3>2. SystemID \in ProxySecret /\ ca \in ProxySecret /\ cert \in ProxySecret /\ key \in ProxySecret
      BY <3>1
    <3> HIDE DEF ca, cert, key
    <3>3. <<SystemID, ca, cert, key>> \in Seq(ProxySecret)
      BY <3>2
    <3>4. QED BY <3>3 DEF ca, cert, key, secrets
  <2>2. Steps("drop", secrets) \in Seq({"drop"} \X ProxySecret)
    BY <2>1, StepsAre
  <2>3. \A x \in Range(Steps("drop", secrets)) : x \in {"drop"} \X ProxySecret
    BY <2>2 DEF Range
  <2>4. Steps("drop", secrets) \in Seq(S)
    BY <1>2, <2>2, <2>3, SeqOfRange
  <2>5. \A x \in {"drop"} \X ProxySecret : Stage(x) = 2
    BY PairOf DEF Stage
  <2>6. Piece(Steps("drop", secrets), S, 2, 2)
    BY <2>3, <2>4, <2>5, PieceOf
  <2>7. QED BY <2>6
<1>12. ProxyUninstallSteps(g) = s5 \o d
  BY DEF ProxyUninstallSteps, all, purged, secrets, vf
<1> HIDE DEF a, k, v, i, n, d
<1>13. Piece(a, S, 1, 1)
  BY <1>6
<1>14. Piece(s2, S, 1, 1) /\ Range(a) \subseteq Range(s2)
  <2>1. Piece(a \o k, S, 1, 1)
    BY <1>7, <1>13, Removals
  <2>2. a \in Seq(S) /\ k \in Seq(S)
    BY <1>7, <1>13 DEF Piece
  <2>3. QED BY <2>1, <2>2, Concat
<1> HIDE DEF s2
<1>15. Piece(s3, S, 1, 1) /\ Range(s2) \subseteq Range(s3)
  <2>1. Piece(s2 \o v, S, 1, 1)
    BY <1>8, <1>14, Removals
  <2>2. s2 \in Seq(S) /\ v \in Seq(S)
    BY <1>8, <1>14 DEF Piece
  <2>3. QED BY <2>1, <2>2, Concat
<1> HIDE DEF s3
<1>16. Piece(s4, S, 1, 1) /\ Range(s3) \subseteq Range(s4)
  <2>1. Piece(s3 \o i, S, 1, 1)
    BY <1>9, <1>15, Removals
  <2>2. s3 \in Seq(S) /\ i \in Seq(S)
    BY <1>9, <1>15 DEF Piece
  <2>3. QED BY <2>1, <2>2, Concat
<1> HIDE DEF s4
<1>17. Piece(s5, S, 1, 1) /\ Range(s4) \subseteq Range(s5)
  <2>1. Piece(s4 \o n, S, 1, 1)
    BY <1>10, <1>16, Removals
  <2>2. s4 \in Seq(S) /\ n \in Seq(S)
    BY <1>10, <1>16 DEF Piece
  <2>3. QED BY <2>1, <2>2, Concat
<1> HIDE DEF s5
<1>18. Piece(s5 \o d, S, 1, 2) /\ Range(s5) \subseteq Range(s5 \o d)
  BY <1>11, <1>17, Appended
<1>19. Range(a) \subseteq Range(s5 \o d)
  BY <1>14, <1>15, <1>16, <1>17, <1>18
<1>20. QED BY <1>6, <1>12, <1>18, <1>19 DEF S

LEMMA BeginProxyKept ==
  ASSUME ProxyHost, HostTypeOK,
         BeginProxyInstall \/ BeginProxyUpgrade \/ BeginPTF \/ BeginProxyUninstall
  PROVE  ProxyHost'
<1>1. UNCHANGED <<unit, mounts, stuck, store, unmade, yaml, given>> /\ unit \subseteq ProxyUnit
  BY DEF BeginProxyInstall, BeginProxyUpgrade, BeginPTF, BeginProxyUninstall, services, resources,
         history, proxyVars, ProxyHost, ProxyInv
<1>2. CASE BeginProxyInstall
  <2>1. PICK tarball, minion \in BOOLEAN : Begin({"install"}, ProxyInstallSteps(tarball, minion))
    BY <1>2 DEF BeginProxyInstall
  <2> DEFINE s == ProxyInstallSteps(tarball, minion)
  <2>2. Piece(s, ProxySetupSteps, 1, 5) /\ {"extract"} \X Certificate \subseteq Range(s)
    BY ProxyInstallStepsAre
  <2>3. s \in Seq(ProxySetupSteps) /\ Staged(s)
    BY <2>2 DEF Piece
  <2> HIDE DEF s
  <2>4. {"install"} \cap Core = {} /\ "force" \notin {"install"}
    BY DEF Core
  <2>5. Begin({"install"}, s)
    BY <2>1 DEF s
  <2>6. QED BY <1>1, <2>2, <2>3, <2>4, <2>5, ProxyBegins
<1>3. CASE BeginProxyUpgrade
  <2>1. PICK minion \in BOOLEAN : Begin({}, ProxyUpgradeSteps(minion))
    BY <1>3 DEF BeginProxyUpgrade
  <2> DEFINE s == ProxyUpgradeSteps(minion)
  <2>2. Piece(s, ProxySetupSteps, 1, 5) /\ {"extract"} \X Certificate \subseteq Range(s)
    BY ProxyUpgradeStepsAre
  <2>3. s \in Seq(ProxySetupSteps) /\ Staged(s)
    BY <2>2 DEF Piece
  <2> HIDE DEF s
  <2>4. Begin({}, s)
    BY <2>1 DEF s
  <2>5. QED BY <1>1, <2>2, <2>3, <2>4, ProxyBegins
<1>4. CASE BeginPTF
  <2>1. PICK found \in SUBSET {u \in Service : image[u] # "none"} : Begin(Service \ found, PTFSteps(found))
    BY <1>4 DEF BeginPTF
  <2> DEFINE s == PTFSteps(found)
  <2>2. Piece(s, Untouching, 0, 0)
    BY PTFStepsAre
  <2>3. Untouching \subseteq ProxySetupSteps /\ \A x \in Untouching : x[1] \notin {"save", "unpack"}
    BY DEF Untouching
  <2> HIDE DEF s
  <2>4. s \in Seq(ProxySetupSteps) /\ Staged(s) /\ \A x \in Range(s) : x[1] \notin {"save", "unpack"}
    <3>1. s \in Seq(Untouching) /\ Staged(s)
      BY <2>2 DEF Piece
    <3>2. \A x \in Range(s) : x \in Untouching
      BY <3>1 DEF Range
    <3>3. s \in Seq(ProxySetupSteps)
      BY <2>3, <3>1, <3>2, SeqOfRange
    <3>4. QED BY <2>3, <3>1, <3>2, <3>3
  <2>5. (Service \ found) \cap Core = {} /\ "force" \notin Service \ found
    BY ProxyNames
  <2>6. Begin(Service \ found, s)
    BY <2>1 DEF s
  <2>7. QED BY <1>1, <2>4, <2>5, <2>6, ProxyBegins
<1>5. CASE BeginProxyUninstall
  <2>1. PICK f \in SUBSET {"force", "volumes", "images"} : Begin(f, ProxyUninstallSteps(f))
    BY <1>5 DEF BeginProxyUninstall
  <2> DEFINE s == ProxyUninstallSteps(f)
  <2>2. Piece(s, ProxyRemovalSteps, 1, 2) /\ \A u \in ProxyUnit : <<"uninstall", u>> \in Range(s)
    BY ProxyUninstallStepsAre
  <2> HIDE DEF s
  <2>3. s \in Seq(ProxyRemovalSteps) /\ Staged(s)
    BY <2>2 DEF Piece
  <2>4. \A x \in Range(s) : x[1] \notin {"save", "unpack"}
    <3>1. \A x \in Range(s) : x \in ProxyRemovalSteps
      BY <2>3 DEF Range
    <3>2. QED BY <3>1, ProxyRemovalStepIs
  <2>5. f \cap Core = {}
    BY DEF Core
  <2>6. Begin(f, s)
    BY <2>1 DEF s
  <2>7. \A u \in unit : <<"uninstall", u>> \in Range(s)
    BY <1>1, <2>2
  <2>8. QED BY <1>1, <2>3, <2>4, <2>5, <2>6, <2>7, ProxyBegins
<1>6. QED BY <1>2, <1>3, <1>4, <1>5

LEMMA ProxyStays ==
  ASSUME ProxyHost, HostTypeOK, ProxyTypeOK, ProxyNext
  PROVE  ProxyHost'
<1>1. CASE \/ (PurgeImage \/ NetworkStep \/ DropNetwork \/ DeleteContainer) /\ UNCHANGED proxyVars
           \/ Validate \/ StartPod \/ StopPod \/ PurgeProxyVolumes \/ FetchImage
  BY <1>1, QuietProxy
<1>2. CASE Unpack
  BY <1>2, UnpackKept
<1>3. CASE Extract
  BY <1>3, ExtractKept
<1>4. CASE Save
  BY <1>4, SaveKept
<1>5. CASE DropSystemID \/ GetSystemID
  BY <1>5, SystemIDKept
<1>6. CASE GenerateService
  BY <1>6, GenerateKept
<1>7. CASE PurgeFolder
  BY <1>7, PurgeFolderKept
<1>8. CASE UninstallProxyService
  BY <1>8, ProxyUninstallKept
<1>9. CASE DropProxySecret
  BY <1>9, DropProxyKept
<1>10. CASE BeginProxyInstall \/ BeginProxyUpgrade \/ BeginPTF \/ BeginProxyUninstall
  BY <1>10, BeginProxyKept
<1>11. CASE Serve \/ Halt
  <2>1. UNCHANGED <<unit, mounts, stuck, store, unmade, todo, flags, gen, yaml, given>>
    BY <1>11 DEF Serve, Halt, files, resources, call, history, proxyVars
  <2>2. QED BY <2>1, ProxyStands
<1>12. CASE CutProxyCommand
  BY <1>12, CutProxyKept
<1>13. QED BY <1>1, <1>2, <1>3, <1>4, <1>5, <1>6, <1>7, <1>8, <1>9, <1>10, <1>11, <1>12 DEF ProxyNext

-----------------------------------------------------------------------------
(* The types of the proxy *)

LEMMA ProxyArg ==
  ASSUME ProxyTodo, ~Idle
  PROVE  /\ Head(todo)[1] \notin {"put", "template"}
         /\ Head(todo)[1] \in {"unpack", "save"} => Arg \in File
         /\ Head(todo)[1] = "extract" => Arg \in Certificate /\ Arg \in Secret
         /\ Head(todo)[1] = "fetch" => Arg \in Service /\ Arg \in Unit
         /\ Head(todo)[1] = "generate" => Arg \in ProxyUnit /\ Arg \in Unit
         /\ Head(todo)[1] = "drop" => Arg \in Secret
<1>1. CASE todo \in Seq(ProxySetupSteps)
  <2>1. Head(todo) \in ProxySetupSteps
    BY <1>1, HeadAndTail DEF Idle
  <2>2. /\ Head(todo)[1] \notin {"put", "template", "drop"}
        /\ Head(todo)[1] \in {"unpack", "save"} => Arg \in File
        /\ Head(todo)[1] = "extract" => Arg \in Certificate
        /\ Head(todo)[1] = "fetch" => Arg \in Service
        /\ Head(todo)[1] = "generate" => Arg \in ProxyUnit
    BY <2>1, ProxySetupStepIs DEF Arg
  <2>3. QED BY <2>2, ProxyNames
<1>2. CASE todo \in Seq(ProxyRemovalSteps)
  <2>1. Head(todo) \in ProxyRemovalSteps
    BY <1>2, HeadAndTail DEF Idle
  <2>2. /\ Head(todo)[1] = "drop" => Arg \in ProxySecret
        /\ Head(todo)[1] \in {"volumes", "folder", "dropnetwork", "uninstall", "kill", "purge", "drop"}
    BY <2>1, ProxyRemovalStepIs DEF Arg
  <2>3. QED BY <2>2, ProxyNames
<1>3. QED BY <1>1, <1>2 DEF ProxyTodo

\* The proxy's own steps.
LEMMA ProxyCounts ==
  ASSUME HostTypeOK,
         \/ Unpack \/ Validate \/ Extract \/ Save \/ DropSystemID \/ GetSystemID \/ FetchImage
         \/ GenerateService \/ StartPod \/ StopPod \/ PurgeProxyVolumes \/ PurgeFolder
         \/ BeginProxyInstall \/ BeginProxyUpgrade \/ BeginPTF \/ BeginProxyUninstall
         \/ Serve \/ Halt
  PROVE  gen' \in Generation /\ faults' \in 0 .. MaxFaults
<1>1. gen \in Generation /\ faults \in 0 .. MaxFaults /\ MaxFaults \in Nat /\ MaxGeneration \in Nat
  BY HostAssumption DEF HostTypeOK
<1>2. CASE Continue \/ Abort \/ \E r : Overlook(r)
  BY <1>2, CountsTyped
<1>3. CASE Unpack \/ Validate \/ Save \/ GenerateService \/ StartPod \/ StopPod
  <2>1. Continue \/ Abort
    BY <1>3 DEF Unpack, Validate, Save, GenerateService, StartPod, StopPod
  <2>2. QED BY <1>2, <2>1
<1>4. CASE Extract \/ DropSystemID \/ GetSystemID \/ PurgeProxyVolumes \/ PurgeFolder
  <2>1. Continue \/ Abort \/ \E r : Overlook(r)
    BY <1>4 DEF Extract, CreateSecret, DropSystemID, GetSystemID, PurgeProxyVolumes, PurgeFolder, Pretend
  <2>2. QED BY <1>2, <2>1
<1>5. CASE FetchImage
  <2>1. Continue \/ Abort \/ UNCHANGED <<gen, faults>>
    BY <1>5 DEF FetchImage
  <2>2. QED BY <1>1, <1>2, <2>1
<1>6. CASE BeginProxyInstall \/ BeginProxyUpgrade \/ BeginPTF \/ BeginProxyUninstall
  <2>1. \E f, s : Begin(f, s)
    BY <1>6 DEF BeginProxyInstall, BeginProxyUpgrade, BeginPTF, BeginProxyUninstall
  <2>2. QED BY <1>1, <2>1 DEF Begin, Generation
<1>7. CASE Serve \/ Halt
  BY <1>1, <1>7 DEF Serve, Halt, call
<1>8. QED BY <1>3, <1>4, <1>5, <1>6, <1>7

LEMMA ProxyResources ==
  ASSUME HostTypeOK, ProxyTypeOK, ProxyTodo,
         \/ Unpack \/ Validate \/ Extract \/ Save \/ DropSystemID \/ GetSystemID \/ FetchImage
         \/ GenerateService \/ StartPod \/ StopPod \/ PurgeProxyVolumes \/ PurgeFolder
         \/ BeginProxyInstall \/ BeginProxyUpgrade \/ BeginPTF \/ BeginProxyUninstall
         \/ Serve \/ Halt
  PROVE  /\ store' \in [Secret -> Generation] /\ unmade' \subseteq Secret
         /\ names' \in [Unit -> SUBSET Ref] /\ net' \in NetState
<1>1. /\ store \in [Secret -> Generation] /\ unmade \subseteq Secret /\ Pending \subseteq Secret
      /\ names \in [Unit -> SUBSET Ref] /\ net \in NetState /\ gen \in Generation /\ 0 \in Generation
      /\ yaml \in [Certificate -> Generation]
  BY HostAssumption DEF HostTypeOK, ProxyTypeOK, Pending, Generation
<1>2. CASE Extract
  <2>1. Arg \in Secret /\ Arg \in Certificate
    BY <1>2, ProxyArg DEF Extract, At
  <2>2. yaml[Arg] \in Generation
    BY <1>1, <2>1
  <2>3. names' = names /\ net' = net
    BY <1>2 DEF Extract
  <2>4. \E v \in Generation : store' = [store EXCEPT ![Arg] = v] \/ store' = store
    BY <1>1, <1>2, <2>2 DEF Extract, CreateSecret
  <2>5. unmade' \subseteq unmade \cup Pending
    BY <1>2 DEF Extract, CreateSecret, Abort
  <2>6. store' \in [Secret -> Generation]
    BY <1>1, <2>4
  <2>7. QED BY <1>1, <2>3, <2>5, <2>6
<1>3. CASE DropSystemID \/ GetSystemID
  <2>1. SystemID \in Secret
    BY ProxyNames
  <2>2. names' = names /\ net' = net
    BY <1>3 DEF DropSystemID, GetSystemID
  <2>3. \E v \in Generation : store' = [store EXCEPT ![SystemID] = v] \/ store' = store
    BY <1>1, <1>3 DEF DropSystemID, GetSystemID, RemoveSystemID
  <2>4. unmade' \subseteq unmade \cup {SystemID}
    BY <1>3 DEF DropSystemID, GetSystemID, RemoveSystemID
  <2>5. store' \in [Secret -> Generation]
    BY <1>1, <2>3
  <2>6. QED BY <1>1, <2>1, <2>2, <2>4, <2>5
<1>4. CASE FetchImage
  <2>1. store' = store /\ net' = net /\ unmade' \subseteq unmade \cup Pending
    BY <1>4 DEF FetchImage, Abort
  <2>2. Arg \in Unit
    BY <1>4, ProxyArg DEF FetchImage, At
  <2>3. PICK policy \in Policy : \E i \in PrepareImage(Arg, policy, TRUE) : names' = [names EXCEPT ![Arg] = i.local]
    BY <1>4 DEF FetchImage
  <2>4. PICK i \in PrepareImage(Arg, policy, TRUE) : names' = [names EXCEPT ![Arg] = i.local]
    BY <2>3
  <2>5. i.local \subseteq Ref
    BY <2>2, PrepareIs
  <2>6. names' \in [Unit -> SUBSET Ref]
    BY <1>1, <2>4, <2>5
  <2>7. QED BY <1>1, <2>1, <2>6
<1>5. CASE \/ PurgeFolder \/ Serve \/ Halt
           \/ BeginProxyInstall \/ BeginProxyUpgrade \/ BeginPTF \/ BeginProxyUninstall
  BY <1>1, <1>5
  DEF PurgeFolder, Serve, Halt, BeginProxyInstall, BeginProxyUpgrade, BeginPTF, BeginProxyUninstall,
      resources, history
<1>6. CASE \/ Unpack \/ Validate \/ Save \/ GenerateService \/ StartPod \/ StopPod \/ PurgeProxyVolumes
  <2>1. UNCHANGED <<store, names, net>>
    BY <1>6 DEF Unpack, Validate, Save, GenerateService, StartPod, StopPod, PurgeProxyVolumes, resources
  <2>2. unmade' = unmade \/ Abort
    BY <1>6 DEF Unpack, Validate, Save, GenerateService, StartPod, StopPod, PurgeProxyVolumes
  <2>3. unmade' \subseteq unmade \cup Pending
    BY <2>2 DEF Abort
  <2>4. QED BY <1>1, <2>1, <2>3
<1>7. QED BY <1>2, <1>3, <1>4, <1>5, <1>6

LEMMA ProxyFiles ==
  ASSUME HostTypeOK, ProxyTodo,
         \/ Unpack \/ Validate \/ Extract \/ Save \/ DropSystemID \/ GetSystemID \/ FetchImage
         \/ GenerateService \/ StartPod \/ StopPod \/ PurgeProxyVolumes \/ PurgeFolder
         \/ BeginProxyInstall \/ BeginProxyUpgrade \/ BeginPTF \/ BeginProxyUninstall
         \/ Serve \/ Halt
  PROVE  /\ unit' \subseteq Unit /\ mounts' \in [Unit -> SUBSET Secret] /\ stuck' \subseteq Unit
         /\ image' \in [Unit -> Ref \cup {"none", "absent"}]
         /\ enabled' \subseteq Unit /\ running' \subseteq Unit
<1>1. /\ unit \subseteq Unit /\ mounts \in [Unit -> SUBSET Secret] /\ stuck \subseteq Unit
      /\ image \in [Unit -> Ref \cup {"none", "absent"}] /\ names \in [Unit -> SUBSET Ref]
      /\ enabled \subseteq Unit /\ running \subseteq Unit
  BY DEF HostTypeOK
<1>2. CASE GenerateService
  <2>1. Arg \in ProxyUnit /\ Arg \in Unit
    BY <1>2, ProxyArg DEF GenerateService, At
  <2>2. ProxyMounts(Arg) \subseteq Secret
    BY <2>1, ProxyMountsAre DEF Present
  <2>3. image[Arg] \in Ref \cup {"none", "absent"} /\ names[Arg] \subseteq Ref
    BY <1>1, <2>1
  <2>4. ImagesOf(Arg) \subseteq Ref \cup {"none", "absent"}
    BY <2>3 DEF ImagesOf
  <2>5. UNCHANGED <<enabled, running>>
    BY <1>2 DEF GenerateService
  <2>6. CASE UNCHANGED <<files, stuck>>
    BY <1>1, <2>5, <2>6 DEF files
  <2>7. CASE \E r \in Ref \cup {"none", "absent"} : WriteUnit(Arg, ProxyMounts(Arg), r)
    BY <1>1, <2>1, <2>2, <2>5, <2>7, WriteUnitTyped
  <2>8. \/ UNCHANGED <<files, stuck>>
        \/ \E r \in Ref \cup {"none", "absent"} : WriteUnit(Arg, ProxyMounts(Arg), r)
    BY <1>2, <2>3, <2>4 DEF GenerateService
  <2>9. QED BY <2>6, <2>7, <2>8
<1>3. CASE StartPod \/ StopPod \/ Serve \/ Halt
  <2>1. UNCHANGED <<unit, mounts, image, stuck>>
    BY <1>3 DEF StartPod, StopPod, Serve, Halt, files, history
  <2>2. PodUp \subseteq Unit /\ Pod \in Unit
    BY ProxyNames DEF PodUp
  <2>3. enabled' \subseteq enabled \cup {Pod} /\ running' \subseteq running \cup PodUp
    BY <1>3 DEF StartPod, StopPod, Serve, Halt
  <2>4. QED BY <1>1, <2>1, <2>2, <2>3
<1>4. CASE \/ Unpack \/ Validate \/ Extract \/ Save \/ DropSystemID \/ GetSystemID \/ FetchImage
           \/ PurgeProxyVolumes \/ PurgeFolder
           \/ BeginProxyInstall \/ BeginProxyUpgrade \/ BeginPTF \/ BeginProxyUninstall
  <2>1. UNCHANGED <<services, stuck>>
    BY <1>4 DEF Unpack, Validate, Extract, Save, DropSystemID, GetSystemID, FetchImage,
                PurgeProxyVolumes, PurgeFolder, BeginProxyInstall, BeginProxyUpgrade, BeginPTF,
                BeginProxyUninstall, history
  <2>2. QED BY <1>1, <2>1 DEF services
<1>5. QED BY <1>2, <1>3, <1>4

LEMMA ProxyHostTyped ==
  ASSUME HostTypeOK, ProxyTypeOK, ProxyTodo, ProxyNext
  PROVE  HostTypeOK'
<1>1. CASE \/ (PurgeImage \/ NetworkStep \/ DropNetwork \/ DeleteContainer) /\ UNCHANGED proxyVars
           \/ UninstallProxyService \/ DropProxySecret \/ CutProxyCommand
  <2>1. /\ At("put") \/ At("drop") => Arg \in Secret
        /\ At("template") => Arg \in Unit
    BY ProxyArg DEF At
  <2>2. \/ PurgeImage \/ NetworkStep \/ DropNetwork \/ DeleteContainer \/ DropSecret
        \/ (\E b : UninstallService(b)) \/ \E r : Interrupt(r)
    BY <1>1, Zenon DEF UninstallProxyService, DropProxySecret, CutProxyCommand
  <2>3. QED BY <2>1, <2>2, HostTyped
<1>2. CASE \/ Unpack \/ Validate \/ Extract \/ Save \/ DropSystemID \/ GetSystemID \/ FetchImage
           \/ GenerateService \/ StartPod \/ StopPod \/ PurgeProxyVolumes \/ PurgeFolder
           \/ BeginProxyInstall \/ BeginProxyUpgrade \/ BeginPTF \/ BeginProxyUninstall
           \/ Serve \/ Halt
  <2>1. gen' \in Generation /\ faults' \in 0 .. MaxFaults
    BY <1>2, ProxyCounts
  <2>2. /\ store' \in [Secret -> Generation] /\ unmade' \subseteq Secret
        /\ names' \in [Unit -> SUBSET Ref] /\ net' \in NetState
    BY <1>2, ProxyResources
  <2>3. /\ unit' \subseteq Unit /\ mounts' \in [Unit -> SUBSET Secret] /\ stuck' \subseteq Unit
        /\ image' \in [Unit -> Ref \cup {"none", "absent"}]
        /\ enabled' \subseteq Unit /\ running' \subseteq Unit
    BY <1>2, ProxyFiles
  <2>4. QED BY <2>1, <2>2, <2>3 DEF HostTypeOK, Generation
<1>3. QED BY <1>1, <1>2 DEF ProxyNext

LEMMA WrittenTyped ==
  ASSUME ProxyTypeOK, NEW f \in File, NEW state \in {"none", "whole", "torn"}, NEW value \in Generation,
         Written(f, state, value)
  PROVE  folder' \in [File -> {"none", "whole", "torn"}] /\ yaml' \in [Certificate -> Generation]
BY DEF ProxyTypeOK, Written

LEMMA ProxyTyped ==
  ASSUME HostTypeOK, ProxyTypeOK, ProxyTodo, ProxyNext
  PROVE  ProxyTypeOK'
<1>1. /\ folder \in [File -> {"none", "whole", "torn"}] /\ yaml \in [Certificate -> Generation]
      /\ given \in [Certificate -> Generation] /\ gen \in Generation /\ 0 \in Generation
  BY HostAssumption DEF HostTypeOK, ProxyTypeOK, Generation
<1>2. \/ Unpack \/ Save \/ PurgeFolder \/ DropProxySecret \/ CutProxyCommand \/ UNCHANGED proxyVars
  BY DEF ProxyNext, Validate, Extract, DropSystemID, GetSystemID, FetchImage, GenerateService, StartPod,
         StopPod, PurgeProxyVolumes, UninstallProxyService, BeginProxyInstall, BeginProxyUpgrade, BeginPTF,
         BeginProxyUninstall, Serve, Halt
<1>3. folder' \in [File -> {"none", "whole", "torn"}] /\ yaml' \in [Certificate -> Generation]
  <2>1. \/ /\ At("unpack") \/ At("save")
           /\ Written(Arg, "whole", gen) \/ Written(Arg, "whole", 0) \/ Written(Arg, "torn", 0)
        \/ UNCHANGED <<folder, yaml>>
        \/ folder' = [f \in File |-> "none"] /\ yaml' = [c \in Certificate |-> 0]
    BY <1>2 DEF Unpack, Save, Saves, PurgeFolder, DropProxySecret, CutProxyCommand, proxyVars
  <2>2. At("unpack") \/ At("save") => Arg \in File
    BY ProxyArg DEF At
  <2>3. CASE UNCHANGED <<folder, yaml>>
    BY <1>1, <2>3
  <2>4. CASE folder' = [f \in File |-> "none"] /\ yaml' = [c \in Certificate |-> 0]
    BY <1>1, <2>4
  <2>5. CASE /\ At("unpack") \/ At("save")
             /\ Written(Arg, "whole", gen) \/ Written(Arg, "whole", 0) \/ Written(Arg, "torn", 0)
    BY <1>1, <2>2, <2>5, WrittenTyped
  <2>6. QED BY <2>1, <2>3, <2>4, <2>5
<1>4. given' \in [Certificate -> Generation]
  <2>1. \/ given' = given
        \/ \E A : \/ given' = [c \in Certificate |-> IF c \in A THEN gen ELSE given[c]]
                  \/ given' = [c \in Certificate |-> IF c \in A THEN 0 ELSE given[c]]
        \/ given' = [c \in Certificate |-> IF yaml[c] # 0 THEN 0 ELSE given[c]]
        \/ given' = [given EXCEPT ![Arg] = 0]
    <3>1. CASE Unpack
      BY <3>1 DEF Unpack, proxyVars
    <3>2. CASE Save \/ UNCHANGED proxyVars
      BY <3>2 DEF Save, proxyVars
    <3>3. CASE PurgeFolder
      BY <3>3 DEF PurgeFolder, proxyVars
    <3>4. CASE DropProxySecret
      BY <3>4 DEF DropProxySecret
    <3>5. CASE CutProxyCommand
      BY <3>5 DEF CutProxyCommand, proxyVars
    <3>6. QED BY <1>2, <3>1, <3>2, <3>3, <3>4, <3>5
  <2>2. QED BY <1>1, <2>1
<1>5. QED BY <1>3, <1>4 DEF ProxyTypeOK, Generation, Certificate, File

LEMMA ProxyStarts ==
  ASSUME ProxyInit
  PROVE  HostTypeOK /\ ProxyTypeOK /\ ProxyHost
<1>1. NoCommand /\ BareHost /\ NoProxy
  BY DEF ProxyInit
<1>2. HostTypeOK
  BY <1>1, BareTyped
<1>3. /\ folder = [f \in File |-> "none"] /\ yaml = [c \in Certificate |-> 0]
      /\ given = [c \in Certificate |-> 0] /\ 0 \in Generation
  BY <1>1, HostAssumption DEF NoProxy, Generation
<1>4. ProxyTypeOK
  BY <1>3 DEF ProxyTypeOK
<1>5. todo = <<>> /\ flags = {} /\ unit = {} /\ Idle
  BY <1>1 DEF NoCommand, BareHost, Idle
<1>6. Left = {}
  BY <1>5, AtRest
<1>7. HostInv
  BY <1>5 DEF HostInv, UnitsUsable, Removed
<1>8. ProxyTodo
  BY <1>5, Few, StagedFew DEF ProxyTodo
<1>9. Extracted /\ ConfigurationKept
  BY <1>3, <1>6 DEF Extracted, ConfigurationKept
<1>10. QED BY <1>2, <1>4, <1>5, <1>7, <1>8, <1>9 DEF ProxyHost, ProxyInv


-----------------------------------------------------------------------------
(* The theorems *)

LEMMA BothTyped ==
  /\ NoServer => ServerTypeOK
  /\ NoProxy => ProxyTypeOK
<1>1. 0 \in Generation
  BY HostAssumption DEF Generation
<1>2. ASSUME NoServer PROVE ServerTypeOK
  <2>1. data = 0 /\ conf = 0 /\ legacy = {}
    BY <1>2 DEF NoServer
  <2>2. env = FALSE /\ kept = FALSE
    BY <1>2 DEF NoServer
  <2>3. env \in BOOLEAN /\ kept \in BOOLEAN
    BY <2>2, Zenon
  <2>4. data \in Generation /\ conf \in Generation /\ legacy \subseteq Legacy
    BY <1>1, <2>1
  <2>5. QED BY <2>3, <2>4, Zenon DEF ServerTypeOK
<1>3. ASSUME NoProxy PROVE ProxyTypeOK
  BY <1>1, <1>3 DEF NoProxy, ProxyTypeOK
<1>4. QED BY <1>2, <1>3

LEMMA InitInv == Init => Inv
<1>1. ASSUME role = "server", ServerInit, NoProxy PROVE Inv
  <2>1. HostTypeOK /\ ServerTypeOK /\ HostInv /\ ServerInv
    BY <1>1, ServerStarts DEF ServerHost
  <2>2. ProxyTypeOK
    BY <1>1, BothTyped
  <2>3. role \in {"server", "proxy"} /\ role # "proxy"
    BY <1>1
  <2>4. TypeOK
    BY <2>1, <2>2, <2>3, Zenon DEF TypeOK
  <2>5. QED BY <1>1, <2>1, <2>3, <2>4, Zenon DEF Inv
<1>2. ASSUME role = "proxy", ProxyInit, NoServer PROVE Inv
  <2>1. HostTypeOK /\ ProxyTypeOK /\ HostInv /\ ProxyInv
    BY <1>2, ProxyStarts DEF ProxyHost
  <2>2. ServerTypeOK
    BY <1>2, BothTyped
  <2>3. role \in {"server", "proxy"} /\ role # "server"
    BY <1>2
  <2>4. TypeOK
    BY <2>1, <2>2, <2>3, Zenon DEF TypeOK
  <2>5. QED BY <1>2, <2>1, <2>3, <2>4, Zenon DEF Inv
<1>3. QED BY <1>1, <1>2, Zenon DEF Init

LEMMA ServerKeeps ==
  ASSUME Inv, role = "server", ServerNext, UNCHANGED <<proxyVars, role>>
  PROVE  Inv'
<1>1. /\ HostTypeOK /\ ServerTypeOK /\ ProxyTypeOK /\ role \in {"server", "proxy"}
      /\ HostInv /\ ServerInv /\ NoProxy
  BY Zenon DEF Inv, TypeOK
<1>2. ServerHost /\ ServerTodo
  BY <1>1, Zenon DEF ServerHost, ServerInv
<1>3. ServerHost'
  BY <1>1, <1>2, ServerStays
<1>4. ServerTypeOK'
  BY <1>1, ServerTyped
<1>5. HostTypeOK'
  BY <1>1, <1>2, ServerHostTyped
<1>6. UNCHANGED proxyVars /\ role' = role
  BY Zenon
<1>7. NoProxy' /\ ProxyTypeOK'
  BY <1>1, <1>6 DEF NoProxy, ProxyTypeOK, proxyVars, File, Certificate, Generation
<1>8. role' \in {"server", "proxy"} /\ role' # "proxy" /\ role' = "server"
  BY <1>6
<1>9. TypeOK'
  BY <1>4, <1>5, <1>7, <1>8, Zenon DEF TypeOK
<1>10. HostInv' /\ ServerInv'
  BY <1>3, Zenon DEF ServerHost
<1>11. QED BY <1>7, <1>8, <1>9, <1>10, Zenon DEF Inv

LEMMA ProxyKeeps ==
  ASSUME Inv, role = "proxy", ProxyNext, UNCHANGED <<serverVars, role>>
  PROVE  Inv'
<1>1. /\ HostTypeOK /\ ServerTypeOK /\ ProxyTypeOK /\ role \in {"server", "proxy"}
      /\ HostInv /\ ProxyInv /\ NoServer
  BY Zenon DEF Inv, TypeOK
<1>2. ProxyHost /\ ProxyTodo
  BY <1>1, Zenon DEF ProxyHost, ProxyInv
<1>3. ProxyHost'
  BY <1>1, <1>2, ProxyStays
<1>4. ProxyTypeOK'
  BY <1>1, <1>2, ProxyTyped
<1>5. HostTypeOK'
  BY <1>1, <1>2, ProxyHostTyped
<1>6. UNCHANGED serverVars /\ role' = role
  BY Zenon
<1>7. NoServer'
  BY <1>1, <1>6, Zenon DEF NoServer, serverVars
<1>8. ServerTypeOK'
  BY <1>1, <1>6, Zenon DEF ServerTypeOK, serverVars
<1>9. role' \in {"server", "proxy"} /\ role' # "server" /\ role' = "proxy"
  BY <1>6
<1>10. TypeOK'
  BY <1>4, <1>5, <1>8, <1>9, Zenon DEF TypeOK
<1>11. HostInv' /\ ProxyInv'
  BY <1>3, Zenon DEF ProxyHost
<1>12. QED BY <1>7, <1>9, <1>10, <1>11, Zenon DEF Inv

LEMMA Stutters ==
  ASSUME Inv, UNCHANGED vars
  PROVE  Inv'
<1>1. UNCHANGED <<services, resources, call, history>> /\ UNCHANGED serverVars
      /\ UNCHANGED proxyVars /\ role' = role
  BY DEF vars, host
<1>2. /\ UNCHANGED <<unit, mounts, image, enabled, running>> /\ UNCHANGED <<store, names, net>>
      /\ UNCHANGED <<todo, flags, gen, faults>> /\ UNCHANGED <<unmade, stuck>>
  BY <1>1 DEF services, resources, call, history
<1>3. /\ unit' = unit /\ mounts' = mounts /\ image' = image /\ enabled' = enabled
      /\ running' = running /\ store' = store /\ names' = names /\ net' = net /\ todo' = todo
      /\ flags' = flags /\ gen' = gen /\ faults' = faults /\ unmade' = unmade /\ stuck' = stuck
      /\ data' = data /\ conf' = conf /\ env' = env /\ legacy' = legacy /\ kept' = kept
      /\ folder' = folder /\ yaml' = yaml /\ given' = given /\ role' = role
  BY <1>1, <1>2 DEF serverVars, proxyVars
<1>4. Left' = Left /\ Present' = Present
  BY <1>3 DEF Left, Present, HasSecret, Range
<1>5. Made' = Made
  BY <1>3, <1>4 DEF Made
<1>6. Due' = Due
  BY <1>4, <1>5 DEF Due
<1>7. Inv => TypeOK /\ HostInv
  BY Zenon DEF Inv
<1>8. TypeOK'
  <2>1. HostTypeOK /\ ServerTypeOK /\ ProxyTypeOK /\ role \in {"server", "proxy"}
    BY <1>7, Zenon DEF TypeOK
  <2>2. HostTypeOK'
    BY <2>1, <1>3 DEF HostTypeOK
  <2>3. ServerTypeOK'
    BY <2>1, <1>3, Zenon DEF ServerTypeOK
  <2>4. ProxyTypeOK'
    BY <2>1, <1>3 DEF ProxyTypeOK
  <2>5. role' \in {"server", "proxy"}
    BY <2>1, <1>3
  <2>6. QED BY <2>2, <2>3, <2>4, <2>5, Zenon DEF TypeOK
<1>9. HostInv'
  <2>1. UnitsUsable'
    BY <1>3, <1>4, <1>7, Zenon DEF HostInv, UnitsUsable
  <2>2. Removed'
    BY <1>3, <1>4, <1>7, Zenon DEF HostInv, Removed
  <2>3. (~Idle => gen # 0)'
    BY <1>3, <1>7, Zenon DEF HostInv, Idle
  <2>4. QED BY <2>1, <2>2, <2>3, Zenon DEF HostInv
<1>10. ASSUME ServerInv PROVE ServerInv'
  <2>1. ServerTodo'
    BY <1>3, <1>10 DEF ServerInv, ServerTodo, Staged
  <2>2. (unit \subseteq ServerUnit)' /\ ("force" \in flags => kept)'
    BY <1>3, <1>10, Zenon DEF ServerInv
  <2>3. Supplied'
    BY <1>4, <1>6, <1>10, Zenon DEF ServerInv, Supplied
  <2>4. AllPaired'
    <3>1. ASSUME NEW c, Paired(c) PROVE Paired(c)'
      BY <1>4, <1>6, <3>1, Zenon DEF Paired
    <3>2. QED BY <1>3, <1>4, <1>10, <3>1, Zenon DEF ServerInv, AllPaired
  <2>5. PutInPairs'
    BY <1>4, <1>6, <1>10, Zenon DEF ServerInv, PutInPairs
  <2>6. Certified'
    BY <1>3, <1>6, <1>10, Zenon DEF ServerInv, Certified
  <2>7. Known'
    BY <1>3, <1>4, <1>10, Zenon DEF ServerInv, Known
  <2>8. Inspects'
    BY <1>3, <1>4, <1>10, Zenon DEF ServerInv, Inspects
  <2>9. Login1'
    BY <1>3, <1>4, <1>10, Zenon DEF ServerInv, Login1, HasSecret
  <2>10. QED BY <2>1, <2>2, <2>3, <2>4, <2>5, <2>6, <2>7, <2>8, <2>9, Zenon DEF ServerInv
<1>11. ASSUME ProxyInv PROVE ProxyInv'
  <2>1. ProxyTodo'
    BY <1>3, <1>11 DEF ProxyInv, ProxyTodo, Staged
  <2>2. (unit \subseteq ProxyUnit)' /\ (flags \cap Core = {})'
    BY <1>3, <1>11, Zenon DEF ProxyInv
  <2>3. Extracted'
    BY <1>3, <1>4, <1>11, Zenon DEF ProxyInv, Extracted
  <2>4. ConfigurationKept'
    BY <1>3, <1>11, Zenon DEF ProxyInv, ConfigurationKept, Effective
  <2>5. QED BY <2>1, <2>2, <2>3, <2>4, Zenon DEF ProxyInv
<1>12. NoProxy => NoProxy'
  BY <1>3, Zenon DEF NoProxy
<1>13. NoServer => NoServer'
  BY <1>3, Zenon DEF NoServer
<1>14. /\ role' = "server" => ServerInv /\ NoProxy
       /\ role' = "proxy" => ProxyInv /\ NoServer
  BY <1>3, Zenon DEF Inv
<1>15. QED BY <1>8, <1>9, <1>10, <1>11, <1>12, <1>13, <1>14, Zenon DEF Inv

\* The inductive invariant: the steps of a command come in stages, what is still to be
\* done tells what has been done, and the credentials fit.
THEOREM Invariant == Spec => []Inv
<1>1. Inv /\ [Next]_vars => Inv'
  <2>1. ASSUME Inv, Next PROVE Inv'
    BY <2>1, ServerKeeps, ProxyKeeps, Zenon DEF Next
  <2>2. QED BY <2>1, Stutters, Zenon
<1>2. QED BY <1>1, InitInv, PTL DEF Spec

\* The variables keep their types through every command, failure and interruption.
THEOREM Typed == Spec => []TypeOK
<1>1. Inv => TypeOK
  BY Zenon DEF Inv
<1>2. QED BY <1>1, Invariant, PTL

\* A unit file never names a podman secret that is not there, except one whose making
\* failed, or if the file could not be removed: on the server and on the proxy, whatever
\* is installed, upgraded, repeated, cut or removed, for any units and secrets.
THEOREM UnitsStayUsable == Spec => []UnitsUsable
<1>1. Inv => UnitsUsable
  BY Zenon DEF Inv, HostInv
<1>2. QED BY <1>1, Invariant, PTL

\* The password in the secrets is the one of the database through every upgrade, failure
\* and removal, but not any more from an installation that finds a database or a
\* configuration, as one that is repeated after a cut one does, or from a forced
\* uninstallation on; and not for a server of a release without secrets.  Each certificate
\* of a proxy is in its file or in its secret until an uninstallation, or a dry run of one,
\* takes it away.
THEOREM CredentialsStay == Spec => []CredentialsKept
<1>1. ASSUME Inv, role = "server" PROVE CredentialsKept
  <2>1. Login1 /\ NoProxy
    BY <1>1, Zenon DEF Inv, ServerInv
  <2>2. ConfigurationKept
    BY <2>1 DEF ConfigurationKept, NoProxy
  <2>3. ASSUME data # 0, ~kept, HasSecret(Login) PROVE store[Login] = data
    <3>1. store[Login] \in {data, conf} /\ (conf # 0 => data = conf) /\ store[Login] # 0
      BY <2>1, <2>3 DEF Login1, HasSecret
    <3>2. QED BY <2>3, <3>1
  <2>4. QED BY <2>2, <2>3, Zenon DEF CredentialsKept, LoginFits
<1>2. ASSUME Inv, role = "proxy" PROVE CredentialsKept
  <2>1. ProxyInv /\ NoServer
    BY <1>2, Zenon DEF Inv
  <2>2. LoginFits
    BY <2>1 DEF LoginFits, NoServer
  <2>3. QED BY <2>1, <2>2, Zenon DEF CredentialsKept, ProxyInv
<1>3. Inv => role \in {"server", "proxy"}
  BY Zenon DEF Inv, TypeOK
<1>4. Inv => CredentialsKept
  BY <1>1, <1>2, <1>3
<1>5. QED BY <1>4, Invariant, PTL


=============================================================================
