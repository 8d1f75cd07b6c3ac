------------------------ MODULE ServerServicesProofs ------------------------
(***************************************************************************)
(* Proofs about ServerServices, for any number of replicas.                *)
(*                                                                         *)
(* What a command has done is told by what it has left: a unit that is to  *)
(* be stopped and runs has its stop among the steps to come, and likewise  *)
(* for starting and disabling.  The order of the steps does the rest.      *)
(***************************************************************************)
EXTENDS ServerServices, WellFoundedInduction, TLAPS

Elems(s) == {s[k] : k \in DOMAIN s}
Left == Elems(todo)

\* In s no step of B comes before one of A.
Precedes(s, A, B) == \A i, j \in DOMAIN s : s[i] \in A /\ s[j] \in B => i < j

Stops == {"stop"} \X Unit
Starts == {"start"} \X Unit
Check == <<"check", Nothing>>
Export == <<"export", Nothing>>
Extras == <<"extras", Nothing>>

\* The backups that stop the services.
Cold == {"backup", "backup --norestart"}

\* The steps of each command.
StepsOf(c) ==
  CASE c = "none" -> {}
    [] c = "start" -> Starts
    [] c = "stop" -> Stops
    [] c = "restart" -> {<<"reload", Nothing>>} \cup ({"restart"} \X Unit)
    [] c = "enable" -> {"enable"} \X (Unit \cap installed)
    [] c = "disable" -> {"disable"} \X Unit
    [] c = "scale" -> {"enable --now", "disable --now", "restart"} \X ReplicaUnits
    [] c = "backup --skipdatabase" -> {"prepare", "export", "extras"} \X {Nothing}
    [] c \in Cold -> Stops \cup Starts
                       \cup ({"prepare", "check", "export", "extras"} \X {Nothing})

Host ==
  /\ installed \in {Unit, Unit \ {DB}}
  /\ enabled \subseteq installed /\ active \subseteq installed
  /\ again \subseteq installed

\* Everything is stopped before the check, which comes before the export, which comes
\* before the rest; and the server is stopped before the database.
InOrder(s) ==
  /\ Precedes(s, Stops, {Check, Export} \cup Starts)
  /\ Precedes(s, {Check}, {Export})
  /\ Precedes(s, {Export}, {Extras} \cup Starts)
  /\ Precedes(s, {<<"stop", Server>>}, {<<"stop", DB>>})

Fitting == Left \subseteq StepsOf(cmd)
Ordered == InOrder(todo)

\* A backup that has something to stop, or failed to, checks before it exports.
Checked ==
  cmd \in Cold =>
    /\ Stops \cap Left # {} => {Check, Export} \subseteq Left
    /\ failed /\ Export \in Left => Check \in Left

Halting == cmd = "stop" \/ (cmd \in Cold /\ Export \in Left)

StopProgress ==
  Halting /\ ~failed /\ ~died =>
    /\ \A u \in (Counted \cup {Server, DB}) \cap active : <<"stop", u>> \in Left
    /\ active \cap Instance("saline") # {} => <<"stop", Server>> \in Left

StartProgress ==
  cmd \in {"start", "backup"} /\ ~failed /\ ~died =>
    \A u \in Counted \cup ({Server, DB} \cap installed) :
      <<"start", u>> \in Left \/ (u \in active /\ Stops \cap Left = {})

\* Nothing that would count is enabled.
Quiet(on) ==
  on \cap {Server, DB, TFTP} = {} /\ \A k \in DOMAIN Replicated : <<Replicated[k], 0>> \notin on

DisableProgress ==
  cmd = "disable" /\ ~failed => Quiet({u \in enabled : <<"disable", u>> \notin Left})

Off == off = "all" => cmd \notin {"enable", "scale"} /\ Quiet(enabled)

\* Only a restart that is under way leaves units to start again.
Restarting ==
  again # {} => cmd \in {"restart", "scale"} /\ todo # <<>> /\ Head(todo)[1] = "restart"

Inv ==
  /\ TypeOK /\ Host /\ Restarting /\ Fitting /\ Ordered /\ Checked
  /\ StopProgress /\ StartProgress /\ DisableProgress /\ Off

-----------------------------------------------------------------------------
(* Sequences of steps *)

\* What a step leaves.
LEMMA ElemsTail ==
  ASSUME NEW S, NEW s \in Seq(S), s # <<>>
  PROVE  /\ Head(s) \in S /\ Tail(s) \in Seq(S)
         /\ Elems(s) = {Head(s)} \cup Elems(Tail(s))
<1>1. /\ DOMAIN s = 1 .. Len(s) /\ Len(s) \in Nat \ {0} /\ Head(s) = s[1]
      /\ DOMAIN Tail(s) = 1 .. (Len(s) - 1)
      /\ \A i \in 1 .. (Len(s) - 1) : Tail(s)[i] = s[i + 1]
      /\ Head(s) \in S /\ Tail(s) \in Seq(S)
  OBVIOUS
<1>2. ASSUME NEW x \in Elems(s) PROVE x = Head(s) \/ x \in Elems(Tail(s))
  <2>1. PICK i \in 1 .. Len(s) : x = s[i]
    BY <1>1, <1>2 DEF Elems
  <2>2. CASE i = 1
    BY <1>1, <2>1, <2>2
  <2>3. CASE i # 1
    <3>1. i - 1 \in DOMAIN Tail(s) /\ Tail(s)[i - 1] = x
      BY <1>1, <2>1, <2>3
    <3>2. QED BY <3>1 DEF Elems
  <2>4. QED BY <2>2, <2>3
<1>3. ASSUME NEW x \in Elems(Tail(s)) PROVE x \in Elems(s)
  <2>1. PICK i \in 1 .. (Len(s) - 1) : x = Tail(s)[i]
    BY <1>1, <1>3 DEF Elems
  <2>2. i + 1 \in DOMAIN s /\ s[i + 1] = x
    BY <1>1, <2>1
  <2>3. QED BY <2>2 DEF Elems
<1>4. Head(s) \in Elems(s)
  BY <1>1 DEF Elems
<1>5. QED BY <1>1, <1>2, <1>3, <1>4

\* One sequence after another, and what a sequence of few steps has.
LEMMA ElemsConcat ==
  ASSUME NEW S, NEW s \in Seq(S), NEW t \in Seq(S)
  PROVE  s \o t \in Seq(S) /\ Elems(s \o t) = Elems(s) \cup Elems(t)
<1>1. /\ DOMAIN s = 1 .. Len(s) /\ DOMAIN t = 1 .. Len(t)
      /\ Len(s) \in Nat /\ Len(t) \in Nat
      /\ DOMAIN (s \o t) = 1 .. Len(s) + Len(t)
      /\ \A i \in 1 .. Len(s) + Len(t) :
           (s \o t)[i] = IF i <= Len(s) THEN s[i] ELSE t[i - Len(s)]
      /\ s \o t \in Seq(S)
  OBVIOUS
<1>2. ASSUME NEW x \in Elems(s \o t) PROVE x \in Elems(s) \cup Elems(t)
  <2>1. PICK i \in 1 .. Len(s) + Len(t) : x = (s \o t)[i]
    BY <1>1, <1>2 DEF Elems
  <2>2. CASE i <= Len(s)
    <3>1. i \in DOMAIN s /\ s[i] = x BY <1>1, <2>1, <2>2
    <3>2. QED BY <3>1 DEF Elems
  <2>3. CASE i > Len(s)
    <3>1. i - Len(s) \in DOMAIN t /\ t[i - Len(s)] = x BY <1>1, <2>1, <2>3
    <3>2. QED BY <3>1 DEF Elems
  <2>4. QED BY <1>1, <2>2, <2>3
<1>3. ASSUME NEW x \in Elems(s) PROVE x \in Elems(s \o t)
  <2>1. PICK i \in 1 .. Len(s) : x = s[i]
    BY <1>1, <1>3 DEF Elems
  <2>2. i \in DOMAIN (s \o t) /\ (s \o t)[i] = x BY <1>1, <2>1
  <2>3. QED BY <2>2 DEF Elems
<1>4. ASSUME NEW x \in Elems(t) PROVE x \in Elems(s \o t)
  <2>1. PICK i \in 1 .. Len(t) : x = t[i]
    BY <1>1, <1>4 DEF Elems
  <2>2. i + Len(s) \in DOMAIN (s \o t) /\ (s \o t)[i + Len(s)] = x BY <1>1, <2>1
  <2>3. QED BY <2>2 DEF Elems
<1>5. QED BY <1>1, <1>2, <1>3, <1>4

LEMMA ElemsConcat3 ==
  ASSUME NEW S, NEW s \in Seq(S), NEW t \in Seq(S), NEW u \in Seq(S)
  PROVE  s \o t \o u \in Seq(S)
         /\ Elems(s \o t \o u) = Elems(s) \cup Elems(t) \cup Elems(u)
<1> DEFINE st == s \o t
<1>1. st \in Seq(S) /\ Elems(st) = Elems(s) \cup Elems(t)
  BY ElemsConcat
<1> HIDE DEF st
<1>2. st \o u \in Seq(S) /\ Elems(st \o u) = Elems(st) \cup Elems(u)
  BY <1>1, ElemsConcat
<1>3. QED BY <1>1, <1>2 DEF st

LEMMA ElemsFew ==
  ASSUME NEW S
  PROVE  /\ <<>> \in Seq(S) /\ Elems(<<>>) = {}
         /\ \A x \in S : <<x>> \in Seq(S) /\ Elems(<<x>>) = {x}
<1>1. <<>> \in Seq(S) /\ DOMAIN <<>> = {}
  OBVIOUS
<1>2. ASSUME NEW x \in S PROVE <<x>> \in Seq(S) /\ Elems(<<x>>) = {x}
  <2>1. <<x>> \in Seq(S) /\ DOMAIN <<x>> = {1} /\ <<x>>[1] = x
    OBVIOUS
  <2>2. QED BY <2>1 DEF Elems
<1>3. QED BY <1>1, <1>2 DEF Elems

\* A step that has to come after others has none of them before it.
LEMMA PrecedesTail ==
  ASSUME NEW S, NEW s \in Seq(S), s # <<>>, NEW A, NEW B, Precedes(s, A, B)
  PROVE  /\ Precedes(Tail(s), A, B)
         /\ Head(s) \in B => Elems(s) \cap A = {}
<1>1. /\ DOMAIN s = 1 .. Len(s) /\ Len(s) \in Nat \ {0} /\ Head(s) = s[1]
      /\ DOMAIN Tail(s) = 1 .. (Len(s) - 1)
      /\ \A i \in 1 .. (Len(s) - 1) : Tail(s)[i] = s[i + 1]
  OBVIOUS
<1>2. ASSUME NEW i \in DOMAIN Tail(s), NEW j \in DOMAIN Tail(s),
             Tail(s)[i] \in A, Tail(s)[j] \in B
      PROVE i < j
  <2>1. /\ i \in Nat /\ j \in Nat /\ i + 1 \in DOMAIN s /\ j + 1 \in DOMAIN s
        /\ s[i + 1] \in A /\ s[j + 1] \in B
    BY <1>1, <1>2
  <2>2. i + 1 < j + 1
    BY <2>1 DEF Precedes
  <2>3. QED BY <2>1, <2>2
<1>3. ASSUME Head(s) \in B, NEW x \in Elems(s) \cap A PROVE FALSE
  <2>1. PICK i \in DOMAIN s : x = s[i]
    BY <1>3 DEF Elems
  <2>2. 1 \in DOMAIN s /\ s[1] \in B /\ s[i] \in A
    BY <1>1, <1>3, <2>1
  <2>3. i < 1
    BY <2>1, <2>2 DEF Precedes
  <2>4. QED BY <1>1, <2>1, <2>3
<1>4. QED BY <1>2, <1>3 DEF Precedes

LEMMA PrecedesNone ==
  ASSUME NEW s, NEW A, NEW B, Elems(s) \cap A = {} \/ Elems(s) \cap B = {}
  PROVE  Precedes(s, A, B)
<1>1. ASSUME NEW i \in DOMAIN s, NEW j \in DOMAIN s, s[i] \in A, s[j] \in B
      PROVE FALSE
  <2>1. s[i] \in Elems(s) /\ s[j] \in Elems(s)
    BY DEF Elems
  <2>2. QED BY <1>1, <2>1
<1>2. QED BY <1>1 DEF Precedes

LEMMA PrecedesConcat ==
  ASSUME NEW S, NEW s \in Seq(S), NEW t \in Seq(S), NEW A, NEW B,
         Precedes(s, A, B), Precedes(t, A, B),
         Elems(t) \cap A = {} \/ Elems(s) \cap B = {}
  PROVE  Precedes(s \o t, A, B)
<1>1. /\ DOMAIN s = 1 .. Len(s) /\ DOMAIN t = 1 .. Len(t)
      /\ Len(s) \in Nat /\ Len(t) \in Nat
      /\ DOMAIN (s \o t) = 1 .. Len(s) + Len(t)
      /\ \A i \in 1 .. Len(s) + Len(t) :
           (s \o t)[i] = IF i <= Len(s) THEN s[i] ELSE t[i - Len(s)]
  OBVIOUS
<1>2. ASSUME NEW i \in 1 .. Len(s) + Len(t), NEW j \in 1 .. Len(s) + Len(t),
             (s \o t)[i] \in A, (s \o t)[j] \in B
      PROVE i < j
  <2>1. CASE i <= Len(s) /\ j <= Len(s)
    <3>1. i \in DOMAIN s /\ j \in DOMAIN s /\ s[i] \in A /\ s[j] \in B
      BY <1>1, <1>2, <2>1
    <3>2. QED BY <3>1 DEF Precedes
  <2>2. CASE i > Len(s) /\ j > Len(s)
    <3>1. /\ i - Len(s) \in DOMAIN t /\ j - Len(s) \in DOMAIN t
          /\ t[i - Len(s)] \in A /\ t[j - Len(s)] \in B
      BY <1>1, <1>2, <2>2
    <3>2. i - Len(s) < j - Len(s)
      BY <3>1 DEF Precedes
    <3>3. QED BY <1>1, <3>1, <3>2
  <2>3. CASE i > Len(s) /\ j <= Len(s)
    <3>1. /\ i - Len(s) \in DOMAIN t /\ j \in DOMAIN s
          /\ t[i - Len(s)] \in A /\ s[j] \in B
      BY <1>1, <1>2, <2>3
    <3>2. t[i - Len(s)] \in Elems(t) /\ s[j] \in Elems(s)
      BY <3>1 DEF Elems
    <3>3. QED BY <3>1, <3>2
  <2>4. QED BY <1>1, <2>1, <2>2, <2>3
<1>3. QED BY <1>1, <1>2 DEF Precedes


-----------------------------------------------------------------------------
(* Units *)

Kind == {"attestation", "hub", "saline"}

LEMMA Kinds ==
  /\ \A k \in DOMAIN Replicated : Replicated[k] \in Kind
  /\ \A s \in Kind : \E k \in DOMAIN Replicated : Replicated[k] = s
  /\ Replicated[1] = "attestation" /\ DOMAIN Replicated = 1 .. 3
<1>1. /\ DOMAIN Replicated = 1 .. 3
      /\ Replicated[1] = "attestation" /\ Replicated[2] = "hub" /\ Replicated[3] = "saline"
  BY DEF Replicated
<1>2. \A k \in 1 .. 3 : k = 1 \/ k = 2 \/ k = 3
  OBVIOUS
<1>3. QED BY <1>1, <1>2 DEF Kind

LEMMA ReplicasOf ==
  /\ ReplicaUnits = {<<s, k>> : s \in Kind, k \in Index}
  /\ \A s \in Kind : Instance(s) = {<<s, k>> : k \in Index}
<1>1. ASSUME NEW u \in ReplicaUnits PROVE u \in {<<s, k>> : s \in Kind, k \in Index}
  <2>1. PICK k \in DOMAIN Replicated : u \in Instance(Replicated[k])
    BY <1>1 DEF ReplicaUnits
  <2>2. QED BY <2>1, Kinds DEF Instance
<1>2. ASSUME NEW s \in Kind, NEW k \in Index PROVE <<s, k>> \in ReplicaUnits
  <2>1. PICK i \in DOMAIN Replicated : Replicated[i] = s
    BY Kinds
  <2>2. <<s, k>> \in Instance(Replicated[i])
    BY <2>1 DEF Instance
  <2>3. QED BY <2>2 DEF ReplicaUnits
<1>3. QED BY <1>1, <1>2 DEF Instance

LEMMA UnitNames ==
  /\ Server[1] = "server" /\ DB[1] = "db" /\ TFTP[1] = "tftp"
  /\ Server # DB /\ Server # TFTP /\ DB # TFTP
  /\ \A s \in Kind, k \in Index :
       <<s, k>> # Server /\ <<s, k>> # DB /\ <<s, k>> # TFTP /\ <<s, k>>[1] = s
         /\ <<s, k>>[2] = k /\ <<s, k>> # Nothing
  /\ Nothing \notin Unit
<1>1. /\ Server[1] = "server" /\ DB[1] = "db" /\ TFTP[1] = "tftp" /\ Nothing[1] = "none"
  BY DEF Server, DB, TFTP, Nothing
<1>2. \A s \in Kind, k \in Index :
        <<s, k>>[1] = s /\ <<s, k>>[2] = k
          /\ s # "server" /\ s # "db" /\ s # "tftp" /\ s # "none"
  BY DEF Kind
<1>3. Nothing \notin Unit
  BY <1>1, <1>2, ReplicasOf DEF Unit
<1>4. QED BY <1>1, <1>2, <1>3

\* What stops with a unit, and what starts with it.
LEMMA BoundUnits ==
  /\ RequiredBy(Server) = Instance("saline")
  /\ \A u \in Unit : u # Server => RequiredBy(u) = {}
  /\ \A u \in Unit : Pulled(u) \subseteq {Server, DB}
<1>1. \A u \in Unit : Requires(u) = IF u \in Instance("saline") THEN {Server} ELSE {}
  <2>1. ASSUME NEW u \in Unit PROVE u[1] = "saline" <=> u \in Instance("saline")
    BY <2>1, ReplicasOf, UnitNames DEF Unit, Kind
  <2>2. QED BY <2>1 DEF Requires
<1>2. Instance("saline") \subseteq Unit
  BY ReplicasOf DEF Unit, Kind
<1>3. \A u \in Unit : Wants(u) \subseteq {Server, DB}
  BY DEF Wants
<1>4. Server \in Unit /\ DB \in Unit
  BY DEF Unit
<1>5. QED
  BY <1>1, <1>2, <1>3, <1>4 DEF RequiredBy, Pulled

\* CurrentReplicaCount ends at the first replica that is not enabled.
LEMMA CountDefined ==
  ASSUME NEW E \in SUBSET Index
  PROVE  /\ CurrentReplicaCount(E) \in 0 .. MaxReplicas
         /\ CurrentReplicaCount(E) \notin E
         /\ FirstReplicas(CurrentReplicaCount(E)) \subseteq E
<1> DEFINE Holes == {n \in Nat : n \notin E}
<1> USE MaxReplicasAssumption
<1>1. MaxReplicas \in Holes
  BY DEF Index
<1>2. PICK n \in Holes : \A k \in Holes : ~ (<<k, n>> \in OpToRel(<, Nat))
  BY <1>1, NatLessThanWellFounded, WFMin
<1>3. \A k \in Holes : ~ (k < n)
  BY <1>2 DEF OpToRel
<1>4. n \in 0 .. MaxReplicas /\ FirstReplicas(n) \subseteq E
  BY <1>1, <1>3 DEF FirstReplicas
<1>5. \E m \in 0 .. MaxReplicas : m \notin E /\ FirstReplicas(m) \subseteq E
  BY <1>4
<1>6. QED
  BY <1>5, Zenon DEF CurrentReplicaCount

\* The replicas that are counted are enabled, and none other if there is no hole.
LEMMA CountedReplicas ==
  ASSUME NEW s \in Kind
  PROVE  /\ ReplicaCount(s) \in 0 .. MaxReplicas
         /\ 0 .. ReplicaCount(s) - 1 \subseteq Index
         /\ \A k \in 0 .. ReplicaCount(s) - 1 : <<s, k>> \in enabled
         /\ <<s, ReplicaCount(s)>> \notin enabled \/ ReplicaCount(s) = MaxReplicas
<1> DEFINE E == {k \in Index : <<s, k>> \in enabled}
<1>1. E \in SUBSET Index /\ ReplicaCount(s) = CurrentReplicaCount(E)
  BY DEF ReplicaCount
<1>2. /\ ReplicaCount(s) \in 0 .. MaxReplicas /\ ReplicaCount(s) \notin E
      /\ FirstReplicas(ReplicaCount(s)) \subseteq E
  BY <1>1, CountDefined
<1>3. QED
  BY <1>2, MaxReplicasAssumption DEF FirstReplicas, Index

\* Without holes everything that is enabled is counted.
LEMMA CountedEnabled ==
  /\ Counted \subseteq enabled
  /\ AllCounted /\ enabled \subseteq Unit => Counted = enabled
<1>1. ASSUME NEW u \in Counted PROVE u \in enabled
  <2>1. CASE u \in ReplicaUnits /\ u[2] < ReplicaCount(u[1])
    <3>1. PICK s \in Kind, k \in Index : u = <<s, k>>
      BY <2>1, ReplicasOf
    <3>2. u[1] = s /\ u[2] = k
      BY <3>1, UnitNames
    <3>3. k < ReplicaCount(s)
      BY <2>1, <3>2, Zenon
    <3>4. ReplicaCount(s) \in 0 .. MaxReplicas
      BY CountedReplicas, Zenon
    <3>5. k \in 0 .. ReplicaCount(s) - 1
      BY <3>3, <3>4, MaxReplicasAssumption DEF Index
    <3>6. QED BY <3>1, <3>5, CountedReplicas, Zenon
  <2>2. QED BY <1>1, <2>1 DEF Counted
<1>2. ASSUME AllCounted, NEW u \in enabled, u \in Unit PROVE u \in Counted
  <2>1. CASE u \in {Server, DB, TFTP}
    BY <1>2, <2>1 DEF Counted
  <2>2. CASE u \in ReplicaUnits
    <3>1. PICK s \in Kind, k \in Index : u = <<s, k>>
      BY <2>2, ReplicasOf
    <3>2. NoHole(s)
      BY <1>2, Kinds DEF AllCounted
    <3>3. k \in FirstReplicas(ReplicaCount(s))
      BY <1>2, <3>1, <3>2 DEF NoHole, IsPrefix, ReplicaCount
    <3>4. u[1] = s /\ u[2] = k
      BY <3>1, UnitNames
    <3>5. k < ReplicaCount(s)
      <4>1. ReplicaCount(s) \in 0 .. MaxReplicas
        BY CountedReplicas, Zenon
      <4>2. QED BY <3>3, <4>1 DEF FirstReplicas
    <3>6. QED BY <2>2, <3>4, <3>5 DEF Counted
  <2>3. QED BY <1>2, <2>1, <2>2 DEF Unit
<1>3. QED BY <1>1, <1>2


-----------------------------------------------------------------------------
(* The steps of the commands *)

AnyStep == Deed \X (Unit \cup {Nothing})

\* Step d for each counted replica of s.
EachCounted(d, s) == {<<d, <<s, k>>>> : k \in 0 .. ReplicaCount(s) - 1}

LEMMA EachReplicas ==
  ASSUME NEW d \in Deed, NEW s \in Kind,
         NEW from \in 0 .. MaxReplicas, NEW to \in 0 .. MaxReplicas
  PROVE  /\ Each(d, Replicas(s, from, to)) \in Seq(AnyStep)
         /\ Elems(Each(d, Replicas(s, from, to))) = {<<d, <<s, k>>>> : k \in from .. to - 1}
<1> USE MaxReplicasAssumption
<1> DEFINE e == Each(d, Replicas(s, from, to))
           n == IF to >= from THEN to - from ELSE 0
<1>1. n \in Nat /\ 1 .. to - from = 1 .. n
  OBVIOUS
<1>2. e = [k \in 1 .. n |-> <<d, <<s, from + k - 1>>>>]
  BY <1>1 DEF Each, Replicas
<1>3. \A k \in 1 .. n : from + k - 1 \in from .. to - 1 /\ from + k - 1 \in Index
  BY <1>1 DEF Index
<1>4. \A k \in Index : <<s, k>> \in Unit
  BY ReplicasOf DEF Unit
<1>5. \A k \in 1 .. n : <<d, <<s, from + k - 1>>>> \in AnyStep
  BY <1>3, <1>4 DEF AnyStep
<1>6. e \in [1 .. n -> AnyStep]
  BY <1>2, <1>5, Zenon
<1>7. e \in Seq(AnyStep)
  BY <1>1, <1>6
<1>8. ASSUME NEW x \in Elems(e) PROVE x \in {<<d, <<s, k>>>> : k \in from .. to - 1}
  <2>1. PICK k \in 1 .. n : x = <<d, <<s, from + k - 1>>>>
    BY <1>2, <1>8 DEF Elems
  <2>2. QED BY <1>3, <2>1
<1>9. ASSUME NEW k \in from .. to - 1 PROVE <<d, <<s, k>>>> \in Elems(e)
  <2>1. k - from + 1 \in 1 .. n /\ from + (k - from + 1) - 1 = k
    OBVIOUS
  <2>2. e[k - from + 1] = <<d, <<s, k>>>> /\ k - from + 1 \in DOMAIN e
    BY <1>2, <2>1
  <2>3. QED BY <2>2, Zenon DEF Elems
<1>10. QED BY <1>7, <1>8, <1>9

LEMMA EachReplica ==
  ASSUME NEW d \in Deed, NEW s \in Kind
  PROVE  Each(d, Replica(s)) \in Seq(AnyStep) /\ Elems(Each(d, Replica(s))) = EachCounted(d, s)
<1>1. ReplicaCount(s) \in 0 .. MaxReplicas /\ 0 \in 0 .. MaxReplicas
  <2>1. ReplicaCount(s) \in 0 .. MaxReplicas
    BY CountedReplicas, Zenon
  <2>2. QED BY <2>1, MaxReplicasAssumption
<1>2. QED BY <1>1, EachReplicas DEF Replica, EachCounted

LEMMA IfSteps ==
  ASSUME NEW cond \in BOOLEAN, NEW x \in Seq(AnyStep)
  PROVE  /\ If(cond, x) \in Seq(AnyStep)
         /\ Elems(If(cond, x)) = IF cond THEN Elems(x) ELSE {}
<1>1. CASE cond
  BY <1>1 DEF If
<1>2. CASE ~cond
  BY <1>2, ElemsFew DEF If
<1>3. QED BY <1>1, <1>2

\* A step for one unit.
LEMMA OneStep ==
  ASSUME NEW d \in Deed, NEW u \in Unit \cup {Nothing}
  PROVE  <<<<d, u>>>> \in Seq(AnyStep) /\ Elems(<<<<d, u>>>>) = {<<d, u>>}
<1>1. <<d, u>> \in AnyStep
  BY DEF AnyStep
<1>2. QED BY <1>1, ElemsFew, Zenon

LEMMA CountedSplit ==
  ASSUME NEW u \in Counted
  PROVE  \/ u \in {Server, DB, TFTP} /\ u \in enabled
         \/ \E s \in Kind : \E k \in 0 .. ReplicaCount(s) - 1 : u = <<s, k>>
<1>1. CASE u \in ReplicaUnits /\ u[2] < ReplicaCount(u[1])
  <2>1. PICK s \in Kind, k \in Index : u = <<s, k>>
    BY <1>1, ReplicasOf
  <2>2. u[1] = s /\ u[2] = k
    BY <2>1, UnitNames
  <2>3. k < ReplicaCount(s)
    BY <1>1, <2>2, Zenon
  <2>4. ReplicaCount(s) \in 0 .. MaxReplicas
    BY CountedReplicas, Zenon
  <2>5. k \in 0 .. ReplicaCount(s) - 1
    BY <2>3, <2>4, MaxReplicasAssumption DEF Index
  <2>6. QED BY <2>1, <2>5
<1>2. QED BY <1>1 DEF Counted

\* Steps for the core services, TFTP and the counted replicas are for all that counts.
LEMMA Covers ==
  ASSUME Host, NEW d, NEW E, \A s \in Kind : EachCounted(d, s) \subseteq E, <<d, Server>> \in E,
         DB \in installed => <<d, DB>> \in E, TFTP \in enabled => <<d, TFTP>> \in E
  PROVE  \A u \in Counted \cup {Server} \cup ({DB} \cap installed) : <<d, u>> \in E
<1>1. ASSUME NEW u \in Counted PROVE <<d, u>> \in E
  <2>1. CASE u \in {Server, DB, TFTP} /\ u \in enabled
    BY <2>1 DEF Host
  <2>2. CASE \E s \in Kind : \E k \in 0 .. ReplicaCount(s) - 1 : u = <<s, k>>
    BY <2>2 DEF EachCounted
  <2>3. QED BY <2>1, <2>2, CountedSplit
<1>2. QED BY <1>1


\* The steps of StopServices: all that counts, and the server before the database.
LEMMA StopStepsOf ==
  ASSUME Host
  PROVE  /\ StopSteps \in Seq(AnyStep) /\ Elems(StopSteps) \subseteq Stops
         /\ \A u \in Counted \cup {Server} \cup ({DB} \cap installed) :
              <<"stop", u>> \in Elems(StopSteps)
         /\ Precedes(StopSteps, {<<"stop", Server>>}, {<<"stop", DB>>})
<1> DEFINE R(s) == Each("stop", Replica(s))
           a == R("attestation")
           h == R("hub")
           l == R("saline")
           v == <<<<"stop", Server>>>>
           d == If(DB \in installed, <<<<"stop", DB>>>>)
           t == If(TFTP \in enabled, <<<<"stop", TFTP>>>>)
           A == {<<"stop", Server>>}
           B == {<<"stop", DB>>}
<1>1. "stop" \in Deed /\ Server \in Unit /\ DB \in Unit /\ TFTP \in Unit
  BY DEF Deed, Unit
<1>2. \A s \in Kind : R(s) \in Seq(AnyStep) /\ Elems(R(s)) = EachCounted("stop", s)
  BY <1>1, EachReplica
<1>3. v \in Seq(AnyStep) /\ Elems(v) = A
  BY <1>1, OneStep
<1>4. d \in Seq(AnyStep) /\ Elems(d) = IF DB \in installed THEN B ELSE {}
  <2>1. <<<<"stop", DB>>>> \in Seq(AnyStep) /\ Elems(<<<<"stop", DB>>>>) = B
    BY <1>1, OneStep, Zenon
  <2>2. (DB \in installed) \in BOOLEAN
    OBVIOUS
  <2>3. QED BY <2>1, <2>2, IfSteps, Zenon
<1>5. t \in Seq(AnyStep) /\ Elems(t) = IF TFTP \in enabled THEN {<<"stop", TFTP>>} ELSE {}
  <2>1. <<<<"stop", TFTP>>>> \in Seq(AnyStep) /\ Elems(<<<<"stop", TFTP>>>>) = {<<"stop", TFTP>>}
    BY <1>1, OneStep, Zenon
  <2>2. (TFTP \in enabled) \in BOOLEAN
    OBVIOUS
  <2>3. QED BY <2>1, <2>2, IfSteps, Zenon
<1>6. \A s \in Kind : EachCounted("stop", s) \subseteq Stops \ (A \cup B)
  <2>1. ASSUME NEW s \in Kind, NEW k \in 0 .. ReplicaCount(s) - 1
        PROVE <<"stop", <<s, k>>>> \in Stops \ (A \cup B)
    <3>1. k \in Index
      BY CountedReplicas, Zenon
    <3>2. <<s, k>> \in Unit /\ <<s, k>> # Server /\ <<s, k>> # DB
      BY <3>1, ReplicasOf, UnitNames DEF Unit
    <3>3. QED BY <3>2 DEF Stops
  <2>2. QED BY <2>1 DEF EachCounted
<1>7. /\ {"attestation", "hub", "saline"} = Kind
      /\ <<"stop", Server>> # <<"stop", DB>> /\ <<"stop", TFTP>> \notin A \cup B
      /\ A \cup B \cup {<<"stop", TFTP>>} \subseteq Stops
  BY <1>1, UnitNames DEF Kind, Stops
<1>8. /\ a \in Seq(AnyStep) /\ Elems(a) = EachCounted("stop", "attestation")
      /\ h \in Seq(AnyStep) /\ Elems(h) = EachCounted("stop", "hub")
      /\ l \in Seq(AnyStep) /\ Elems(l) = EachCounted("stop", "saline")
  BY <1>2, <1>7
<1>9. StopSteps = a \o h \o l \o v \o d \o l \o t
  BY DEF StopSteps
<1> HIDE DEF a, h, l, v, d, t
<1> DEFINE s3 == a \o h \o l
<1>10. /\ s3 \in Seq(AnyStep)
       /\ Elems(s3) = Elems(a) \cup Elems(h) \cup Elems(l)
  BY <1>8, ElemsConcat3
<1>11. Elems(s3) \cap (A \cup B) = {}
  BY <1>6, <1>7, <1>8, <1>10
<1> HIDE DEF s3
<1> DEFINE s4 == s3 \o v
<1>12. s4 \in Seq(AnyStep) /\ Elems(s4) = Elems(s3) \cup A
  BY <1>3, <1>10, ElemsConcat
<1>13. Elems(s4) \cap B = {}
  BY <1>7, <1>11, <1>12
<1> HIDE DEF s4
<1> DEFINE s5 == s4 \o d
<1>14. s5 \in Seq(AnyStep) /\ Elems(s5) = Elems(s4) \cup Elems(d)
  BY <1>4, <1>12, ElemsConcat
<1>15. Precedes(s5, A, B)
  <2>1. Elems(d) \cap A = {}
    BY <1>4, <1>7
  <2>2. Precedes(s4, A, B) /\ Precedes(d, A, B)
    BY <1>13, <2>1, PrecedesNone
  <2>3. QED BY <1>4, <1>12, <2>1, <2>2, PrecedesConcat
<1> HIDE DEF s5
<1> DEFINE s6 == s5 \o l
<1>16. s6 \in Seq(AnyStep) /\ Elems(s6) = Elems(s5) \cup Elems(l)
  BY <1>8, <1>14, ElemsConcat
<1>17. Precedes(s6, A, B)
  <2>1. Elems(l) \cap A = {} /\ Elems(l) \cap B = {}
    BY <1>6, <1>7, <1>8
  <2>2. Precedes(l, A, B)
    BY <2>1, PrecedesNone
  <2>3. QED BY <1>8, <1>14, <1>15, <2>1, <2>2, PrecedesConcat
<1> HIDE DEF s6
<1>18. StopSteps \in Seq(AnyStep) /\ Elems(StopSteps) = Elems(s6) \cup Elems(t)
  <2>1. StopSteps = s6 \o t
    BY <1>9 DEF s3, s4, s5, s6
  <2>2. QED BY <1>5, <1>16, <2>1, ElemsConcat
<1>19. Precedes(StopSteps, A, B)
  <2>1. Elems(t) \cap A = {}
    BY <1>5, <1>7
  <2>2. Precedes(t, A, B)
    BY <2>1, PrecedesNone
  <2>3. Precedes(s6 \o t, A, B)
    BY <1>5, <1>16, <1>17, <2>1, <2>2, PrecedesConcat
  <2>4. QED BY <1>9, <2>3 DEF s3, s4, s5, s6
<1>20. Elems(StopSteps) \subseteq Stops
  BY <1>3, <1>4, <1>5, <1>6, <1>7, <1>8, <1>10, <1>12, <1>14, <1>16, <1>18
<1>21. \A s \in Kind : EachCounted("stop", s) \subseteq Elems(StopSteps)
  BY <1>7, <1>8, <1>10, <1>12, <1>14, <1>16, <1>18
<1>22. /\ <<"stop", Server>> \in Elems(StopSteps)
       /\ DB \in installed => <<"stop", DB>> \in Elems(StopSteps)
       /\ TFTP \in enabled => <<"stop", TFTP>> \in Elems(StopSteps)
  BY <1>4, <1>5, <1>12, <1>14, <1>16, <1>18
<1>23. QED
  BY <1>18, <1>19, <1>20, <1>21, <1>22, Covers


\* The parts of the other commands.
LEMMA Parts ==
  ASSUME NEW do \in Deed
  PROVE  /\ \A s \in Kind : /\ Each(do, Replica(s)) \in Seq(AnyStep)
                            /\ Elems(Each(do, Replica(s))) = EachCounted(do, s)
                            /\ EachCounted(do, s) \subseteq {do} \X Unit
         /\ \A u \in {Server, DB, TFTP} :
              /\ <<<<do, u>>>> \in Seq(AnyStep) /\ Elems(<<<<do, u>>>>) = {<<do, u>>}
              /\ <<do, u>> \in {do} \X Unit
              /\ \A cond \in BOOLEAN :
                   /\ If(cond, <<<<do, u>>>>) \in Seq(AnyStep)
                   /\ Elems(If(cond, <<<<do, u>>>>)) = IF cond THEN {<<do, u>>} ELSE {}
<1>1. ASSUME NEW s \in Kind
      PROVE  /\ Each(do, Replica(s)) \in Seq(AnyStep)
             /\ Elems(Each(do, Replica(s))) = EachCounted(do, s)
             /\ EachCounted(do, s) \subseteq {do} \X Unit
  <2>1. ASSUME NEW k \in 0 .. ReplicaCount(s) - 1
        PROVE <<do, <<s, k>>>> \in {do} \X Unit
    <3>1. k \in Index
      BY CountedReplicas, Zenon
    <3>2. <<s, k>> \in Unit
      BY <3>1, ReplicasOf DEF Unit
    <3>3. QED BY <3>2
  <2>2. EachCounted(do, s) \subseteq {do} \X Unit
    BY <2>1 DEF EachCounted
  <2>3. QED BY <2>2, EachReplica
<1>2. ASSUME NEW u \in {Server, DB, TFTP}
      PROVE  /\ <<<<do, u>>>> \in Seq(AnyStep) /\ Elems(<<<<do, u>>>>) = {<<do, u>>}
             /\ <<do, u>> \in {do} \X Unit
  BY OneStep DEF Unit
<1>3. ASSUME NEW u \in {Server, DB, TFTP}, NEW cond \in BOOLEAN
      PROVE  /\ If(cond, <<<<do, u>>>>) \in Seq(AnyStep)
             /\ Elems(If(cond, <<<<do, u>>>>)) = IF cond THEN {<<do, u>>} ELSE {}
  <2>1. <<<<do, u>>>> \in Seq(AnyStep) /\ Elems(<<<<do, u>>>>) = {<<do, u>>}
    BY <1>2
  <2>2. QED BY <2>1, IfSteps
<1>4. QED BY <1>1, <1>2, <1>3

\* The steps of StartServices.
LEMMA StartStepsOf ==
  ASSUME Host
  PROVE  /\ StartSteps \in Seq(AnyStep) /\ Elems(StartSteps) \subseteq Starts
         /\ \A u \in Counted \cup {Server} \cup ({DB} \cap installed) :
              <<"start", u>> \in Elems(StartSteps)
<1> DEFINE R(s) == Each("start", Replica(s))
           a == R("attestation")
           h == R("hub")
           l == R("saline")
           v == <<<<"start", Server>>>>
           d == If(DB \in installed, <<<<"start", DB>>>>)
           t == If(TFTP \in enabled, <<<<"start", TFTP>>>>)
<1>1. "start" \in Deed /\ (DB \in installed) \in BOOLEAN /\ (TFTP \in enabled) \in BOOLEAN
      /\ {"attestation", "hub", "saline"} = Kind
  BY DEF Deed, Kind
<1>2. /\ a \in Seq(AnyStep) /\ Elems(a) = EachCounted("start", "attestation")
      /\ h \in Seq(AnyStep) /\ Elems(h) = EachCounted("start", "hub")
      /\ l \in Seq(AnyStep) /\ Elems(l) = EachCounted("start", "saline")
      /\ \A s \in Kind : EachCounted("start", s) \subseteq Starts
  BY <1>1, Parts DEF Starts
<1>3. /\ v \in Seq(AnyStep) /\ Elems(v) = {<<"start", Server>>}
      /\ {<<"start", Server>>, <<"start", DB>>, <<"start", TFTP>>} \subseteq Starts
  BY <1>1, Parts DEF Starts
<1>4. d \in Seq(AnyStep) /\ Elems(d) = IF DB \in installed THEN {<<"start", DB>>} ELSE {}
  BY <1>1, Parts
<1>5. t \in Seq(AnyStep) /\ Elems(t) = IF TFTP \in enabled THEN {<<"start", TFTP>>} ELSE {}
  BY <1>1, Parts
<1>6. StartSteps = d \o a \o h \o l \o v \o t \o l
  BY DEF StartSteps
<1> HIDE DEF a, h, l, v, d, t
<1> DEFINE s3 == d \o a \o h
           s5 == s3 \o l \o v
           s7 == s5 \o t \o l
<1>7. s3 \in Seq(AnyStep) /\ Elems(s3) = Elems(d) \cup Elems(a) \cup Elems(h)
  BY <1>2, <1>4, ElemsConcat3
<1> HIDE DEF s3
<1>8. s5 \in Seq(AnyStep) /\ Elems(s5) = Elems(s3) \cup Elems(l) \cup Elems(v)
  BY <1>2, <1>3, <1>7, ElemsConcat3
<1> HIDE DEF s5
<1>9. s7 \in Seq(AnyStep) /\ Elems(s7) = Elems(s5) \cup Elems(t) \cup Elems(l)
  BY <1>2, <1>5, <1>8, ElemsConcat3
<1>10. StartSteps = s7
  BY <1>6 DEF s3, s5
<1> HIDE DEF s7
<1>11. Elems(s7) \subseteq Starts
  BY <1>1, <1>2, <1>3, <1>4, <1>5, <1>7, <1>8, <1>9
<1>12. /\ \A s \in Kind : EachCounted("start", s) \subseteq Elems(s7)
       /\ <<"start", Server>> \in Elems(s7)
       /\ DB \in installed => <<"start", DB>> \in Elems(s7)
       /\ TFTP \in enabled => <<"start", TFTP>> \in Elems(s7)
  BY <1>1, <1>2, <1>3, <1>4, <1>5, <1>7, <1>8, <1>9
<1>13. QED
  BY <1>9, <1>10, <1>11, <1>12, Covers

\* The steps of DisableServices.
LEMMA DisableStepsOf ==
  ASSUME Host
  PROVE  /\ DisableSteps \in Seq(AnyStep) /\ Elems(DisableSteps) \subseteq {"disable"} \X Unit
         /\ \A u \in Counted \cup {Server} \cup ({DB} \cap installed) :
              <<"disable", u>> \in Elems(DisableSteps)
<1> DEFINE R(s) == Each("disable", Replica(s))
           a == R("attestation")
           h == R("hub")
           l == R("saline")
           v == <<<<"disable", Server>>>>
           d == If(DB \in installed, <<<<"disable", DB>>>>)
           t == If(TFTP \in enabled, <<<<"disable", TFTP>>>>)
           D == {"disable"} \X Unit
<1>1. "disable" \in Deed /\ (DB \in installed) \in BOOLEAN /\ (TFTP \in enabled) \in BOOLEAN
      /\ {"attestation", "hub", "saline"} = Kind
  BY DEF Deed, Kind
<1>2. /\ a \in Seq(AnyStep) /\ Elems(a) = EachCounted("disable", "attestation")
      /\ h \in Seq(AnyStep) /\ Elems(h) = EachCounted("disable", "hub")
      /\ l \in Seq(AnyStep) /\ Elems(l) = EachCounted("disable", "saline")
      /\ \A s \in Kind : EachCounted("disable", s) \subseteq D
  BY <1>1, Parts
<1>3. /\ v \in Seq(AnyStep) /\ Elems(v) = {<<"disable", Server>>}
      /\ {<<"disable", Server>>, <<"disable", DB>>, <<"disable", TFTP>>} \subseteq D
  BY <1>1, Parts
<1>4. d \in Seq(AnyStep) /\ Elems(d) = IF DB \in installed THEN {<<"disable", DB>>} ELSE {}
  BY <1>1, Parts
<1>5. t \in Seq(AnyStep) /\ Elems(t) = IF TFTP \in enabled THEN {<<"disable", TFTP>>} ELSE {}
  BY <1>1, Parts
<1>6. DisableSteps = t \o a \o h \o l \o v \o d
  BY DEF DisableSteps
<1> HIDE DEF a, h, l, v, d, t, D
<1> DEFINE s3 == t \o a \o h
           s5 == s3 \o l \o v
           s6 == s5 \o d
<1>7. s3 \in Seq(AnyStep) /\ Elems(s3) = Elems(t) \cup Elems(a) \cup Elems(h)
  BY <1>2, <1>5, ElemsConcat3
<1> HIDE DEF s3
<1>8. s5 \in Seq(AnyStep) /\ Elems(s5) = Elems(s3) \cup Elems(l) \cup Elems(v)
  BY <1>2, <1>3, <1>7, ElemsConcat3
<1> HIDE DEF s5
<1>9. s6 \in Seq(AnyStep) /\ Elems(s6) = Elems(s5) \cup Elems(d)
  BY <1>4, <1>8, ElemsConcat
<1>10. DisableSteps = s6
  BY <1>6 DEF s3, s5
<1> HIDE DEF s6
<1>11. Elems(s6) \subseteq D
  BY <1>1, <1>2, <1>3, <1>4, <1>5, <1>7, <1>8, <1>9
<1>12. /\ \A s \in Kind : EachCounted("disable", s) \subseteq Elems(s6)
       /\ <<"disable", Server>> \in Elems(s6)
       /\ DB \in installed => <<"disable", DB>> \in Elems(s6)
       /\ TFTP \in enabled => <<"disable", TFTP>> \in Elems(s6)
  BY <1>1, <1>2, <1>3, <1>4, <1>5, <1>7, <1>8, <1>9
<1>13. QED
  BY <1>9, <1>10, <1>11, <1>12, Covers DEF D


\* The steps of EnableServices.
LEMMA EnableStepsOf ==
  ASSUME Host
  PROVE  EnableSteps \in Seq(AnyStep) /\ Elems(EnableSteps) \subseteq {"enable"} \X (Unit \cap installed)
<1> DEFINE v == <<<<"enable", Server>>>>
           d == If(DB \in installed, <<<<"enable", DB>>>>)
<1>1. "enable" \in Deed /\ (DB \in installed) \in BOOLEAN
  BY DEF Deed
<1>2. v \in Seq(AnyStep) /\ Elems(v) = {<<"enable", Server>>}
  BY <1>1, Parts
<1>3. d \in Seq(AnyStep) /\ Elems(d) = IF DB \in installed THEN {<<"enable", DB>>} ELSE {}
  BY <1>1, Parts
<1>4. EnableSteps = v \o d
  BY DEF EnableSteps
<1>5. Server \in Unit \cap installed /\ DB \in Unit
  BY UnitNames DEF Host, Unit
<1> HIDE DEF v, d
<1>6. EnableSteps \in Seq(AnyStep) /\ Elems(EnableSteps) = Elems(v) \cup Elems(d)
  BY <1>2, <1>3, <1>4, ElemsConcat
<1>7. QED
  BY <1>2, <1>3, <1>5, <1>6

\* The steps of podmanRestart.
LEMMA RestartStepsOf ==
  /\ RestartSteps \in Seq(AnyStep)
  /\ Elems(RestartSteps) \subseteq {<<"reload", Nothing>>} \cup ({"restart"} \X Unit)
<1> DEFINE b == <<<<"reload", Nothing>>, <<"restart", DB>>, <<"restart", Server>>>>
           a == Each("restart", Replica("attestation"))
           h == Each("restart", Replica("hub"))
<1>1. /\ "restart" \in Deed /\ "reload" \in Deed
      /\ "attestation" \in Kind /\ "hub" \in Kind /\ DB \in Unit /\ Server \in Unit
  BY DEF Deed, Kind, Unit
<1>2. b \in Seq(AnyStep) /\ Elems(b) \subseteq {<<"reload", Nothing>>} \cup ({"restart"} \X Unit)
  <2> DEFINE x == <<"reload", Nothing>>
             y == <<"restart", DB>>
             z == <<"restart", Server>>
  <2>1. /\ x \in AnyStep /\ y \in AnyStep /\ z \in AnyStep
        /\ y \in {"restart"} \X Unit /\ z \in {"restart"} \X Unit
    BY <1>1 DEF AnyStep
  <2> HIDE DEF x, y, z
  <2>2. <<x, y, z>> \in Seq(AnyStep) /\ DOMAIN <<x, y, z>> = 1 .. 3
        /\ <<x, y, z>>[1] = x /\ <<x, y, z>>[2] = y /\ <<x, y, z>>[3] = z
    BY <2>1
  <2>3. \A k \in 1 .. 3 : k = 1 \/ k = 2 \/ k = 3
    OBVIOUS
  <2>4. Elems(<<x, y, z>>) \subseteq {x, y, z}
    BY <2>2, <2>3 DEF Elems
  <2>5. QED BY <2>1, <2>2, <2>4 DEF x, y, z
<1>3. /\ a \in Seq(AnyStep) /\ Elems(a) \subseteq {"restart"} \X Unit
      /\ h \in Seq(AnyStep) /\ Elems(h) \subseteq {"restart"} \X Unit
  <2>1. \A s \in Kind : /\ Each("restart", Replica(s)) \in Seq(AnyStep)
                        /\ Elems(Each("restart", Replica(s))) = EachCounted("restart", s)
                        /\ EachCounted("restart", s) \subseteq {"restart"} \X Unit
    BY <1>1, Parts, Zenon
  <2>2. QED BY <1>1, <2>1
<1>4. RestartSteps = b \o a \o h
  BY DEF RestartSteps
<1> HIDE DEF a, b, h
<1>5. /\ RestartSteps \in Seq(AnyStep)
      /\ Elems(RestartSteps) = Elems(b) \cup Elems(a) \cup Elems(h)
  BY <1>2, <1>3, <1>4, ElemsConcat3
<1>6. QED BY <1>2, <1>3, <1>5

\* The steps of ScaleService are about replicas.
LEMMA ScaledPart ==
  ASSUME NEW D \in SUBSET Deed, NEW do \in D, NEW s \in Kind,
         NEW i \in 0 .. MaxReplicas, NEW j \in 0 .. MaxReplicas
  PROVE  /\ Each(do, Replicas(s, i, j)) \in Seq(AnyStep)
         /\ Elems(Each(do, Replicas(s, i, j))) \subseteq D \X ReplicaUnits
<1>1. /\ Each(do, Replicas(s, i, j)) \in Seq(AnyStep)
      /\ Elems(Each(do, Replicas(s, i, j))) = {<<do, <<s, k>>>> : k \in i .. j - 1}
  BY EachReplicas
<1>2. ASSUME NEW k \in i .. j - 1 PROVE <<do, <<s, k>>>> \in D \X ReplicaUnits
  <2>1. k \in Index
    BY MaxReplicasAssumption DEF Index
  <2>2. <<s, k>> \in ReplicaUnits
    BY <2>1, ReplicasOf
  <2>3. QED BY <2>2
<1>3. QED BY <1>1, <1>2

LEMMA ScaleStepsOf ==
  ASSUME NEW s \in Kind, NEW n \in 0 .. MaxReplicas
  PROVE  /\ ScaleSteps(s, n) \in Seq(AnyStep)
         /\ Elems(ScaleSteps(s, n))
              \subseteq {"enable --now", "disable --now", "restart"} \X ReplicaUnits
<1> USE MaxReplicasAssumption
<1> DEFINE c == ReplicaCount(s)
           m == ScaledCount(s, n)
           e == Each("enable --now", Replicas(s, c, n))
           d == Each("disable --now", Replicas(s, n, c))
           r == Each("restart", Replicas(s, 0, m))
           D == {"enable --now", "disable --now", "restart"}
<1>1. c \in 0 .. MaxReplicas
  BY CountedReplicas, Zenon
<1>2. m \in 0 .. MaxReplicas
  <2> DEFINE E == ({k \in Index : <<s, k>> \in enabled} \cup (c .. n - 1)) \ (n .. c - 1)
  <2>1. E \in SUBSET Index
    BY <1>1 DEF Index
  <2>2. CurrentReplicaCount(E) \in 0 .. MaxReplicas
    BY <2>1, CountDefined
  <2>3. QED BY <2>2 DEF ScaledCount
<1> HIDE DEF c, m
<1>3. 0 \in 0 .. MaxReplicas /\ D \subseteq Deed
  BY DEF Deed
<1>4. \A do \in D : \A i, j \in 0 .. MaxReplicas :
        /\ Each(do, Replicas(s, i, j)) \in Seq(AnyStep)
        /\ Elems(Each(do, Replicas(s, i, j))) \subseteq D \X ReplicaUnits
  BY <1>3, ScaledPart
<1>5. e \in Seq(AnyStep) /\ Elems(e) \subseteq D \X ReplicaUnits
  BY <1>1, <1>4
<1>6. d \in Seq(AnyStep) /\ Elems(d) \subseteq D \X ReplicaUnits
  BY <1>1, <1>4
<1>7. r \in Seq(AnyStep) /\ Elems(r) \subseteq D \X ReplicaUnits
  BY <1>2, <1>3, <1>4
<1>8. ScaleSteps(s, n) = e \o d \o r
  BY DEF ScaleSteps, c, m
<1> HIDE DEF e, d, r, D
<1>9. /\ e \o d \o r \in Seq(AnyStep)
      /\ Elems(e \o d \o r) = Elems(e) \cup Elems(d) \cup Elems(r)
  BY <1>5, <1>6, <1>7, ElemsConcat3
<1>10. QED
  BY <1>5, <1>6, <1>7, <1>8, <1>9 DEF D

\* Appending what need not come before, or prepending what need not come after.
LEMMA PrecedesAppend ==
  ASSUME NEW S, NEW s \in Seq(S), NEW t \in Seq(S), NEW A, NEW B,
         \/ Precedes(s, A, B) /\ Elems(t) \cap A = {}
         \/ Elems(s) \cap B = {} /\ Precedes(t, A, B)
  PROVE  Precedes(s \o t, A, B)
<1>1. CASE Precedes(s, A, B) /\ Elems(t) \cap A = {}
  BY <1>1, PrecedesNone, PrecedesConcat
<1>2. CASE Elems(s) \cap B = {} /\ Precedes(t, A, B)
  BY <1>2, PrecedesNone, PrecedesConcat
<1>3. QED BY <1>1, <1>2


\* The steps of Create.
LEMMA BackupStepsOf ==
  ASSUME Host, NEW c \in Backups
  PROVE  /\ BackupSteps(c) \in Seq(AnyStep) /\ Elems(BackupSteps(c)) \subseteq StepsOf(c)
         /\ InOrder(BackupSteps(c))
         /\ c \in Cold => Elems(StopSteps) \cup {Check, Export} \subseteq Elems(BackupSteps(c))
         /\ c = "backup" => Elems(StartSteps) \subseteq Elems(BackupSteps(c))
<1> DEFINE Prepare == <<"prepare", Nothing>>
           p == <<Prepare>>
           k == StopSteps \o <<Check>>
           m == If(c # "backup --skipdatabase", k)
           e == <<Export, Extras>>
           r == If(c = "backup", StartSteps)
           b == BackupSteps(c)
           v == {<<"stop", Server>>}
           w == {<<"stop", DB>>}
<1>1. /\ {Prepare, Extras, Check, Export} \subseteq AnyStep
      /\ Prepare # Check /\ Prepare # Export /\ Extras # Check /\ Extras # Export
      /\ Check # Export
      /\ {Prepare, Extras, Check, Export} \cap (Stops \cup Starts) = {}
      /\ Stops \cap Starts = {} /\ v \subseteq Stops /\ w \subseteq Stops
      /\ {Prepare, Extras, Export} \subseteq {"prepare", "export", "extras"} \X {Nothing}
      /\ {Prepare, Extras, Check, Export} \subseteq {"prepare", "check", "export", "extras"} \X {Nothing}
  <2>1. {Prepare, Extras, Check, Export} \subseteq AnyStep
    <3>1. {"prepare", "extras", "check", "export"} \subseteq Deed
      BY DEF Deed
    <3>2. \A d \in Deed : <<d, Nothing>> \in AnyStep
      BY DEF AnyStep
    <3>3. QED BY <3>1, <3>2 DEF Check, Export, Extras
  <2>2. /\ Prepare # Check /\ Prepare # Export /\ Extras # Check /\ Extras # Export
        /\ Check # Export
    BY DEF Check, Export, Extras
  <2>3. {Prepare, Extras, Check, Export} \cap (Stops \cup Starts) = {}
    BY DEF Check, Export, Extras, Stops, Starts
  <2>4. Stops \cap Starts = {}
    BY DEF Stops, Starts
  <2>5. v \subseteq Stops /\ w \subseteq Stops
    BY DEF Stops, Unit
  <2>6. /\ {Prepare, Extras, Export} \subseteq {"prepare", "export", "extras"} \X {Nothing}
        /\ {Prepare, Extras, Check, Export} \subseteq {"prepare", "check", "export", "extras"} \X {Nothing}
    BY DEF Check, Export, Extras
  <2>7. QED BY <2>1, <2>2, <2>3, <2>4, <2>5, <2>6
<1> HIDE DEF Prepare, v, w
<1>2. p \in Seq(AnyStep) /\ Elems(p) = {Prepare}
  BY <1>1, ElemsFew
<1>3. <<Check>> \in Seq(AnyStep) /\ Elems(<<Check>>) = {Check}
  BY <1>1, ElemsFew
<1>4. e \in Seq(AnyStep) /\ Elems(e) = {Export, Extras}
  <2>1. e \in Seq(AnyStep) /\ DOMAIN e = 1 .. 2 /\ e[1] = Export /\ e[2] = Extras
    BY <1>1
  <2>2. \A i \in 1 .. 2 : i = 1 \/ i = 2
    OBVIOUS
  <2>3. QED BY <2>1, <2>2 DEF Elems
<1>5. /\ StopSteps \in Seq(AnyStep) /\ Elems(StopSteps) \subseteq Stops
      /\ Precedes(StopSteps, v, w)
  BY StopStepsOf DEF v, w
<1>6. StartSteps \in Seq(AnyStep) /\ Elems(StartSteps) \subseteq Starts
  BY StartStepsOf
<1>7. k \in Seq(AnyStep) /\ Elems(k) = Elems(StopSteps) \cup {Check}
  <2>1. k \in Seq(AnyStep) /\ Elems(k) = Elems(StopSteps) \cup Elems(<<Check>>)
    BY <1>3, <1>5, ElemsConcat
  <2>2. QED BY <1>3, <2>1
<1>8. Precedes(k, Stops, {Check, Export} \cup Starts)
  <2>1. Elems(StopSteps) \cap ({Check, Export} \cup Starts) = {} /\ Elems(<<Check>>) \cap Stops = {}
    BY <1>1, <1>3, <1>5
  <2>2. Precedes(StopSteps, Stops, {Check, Export} \cup Starts)
    BY <2>1, PrecedesNone
  <2>3. QED BY <1>3, <1>5, <2>1, <2>2, PrecedesAppend
<1>9. Precedes(k, v, w)
  <2>1. Elems(<<Check>>) \cap v = {}
    BY <1>1, <1>3
  <2>2. QED BY <1>3, <1>5, <2>1, PrecedesAppend
<1> HIDE DEF p, k, e
<1>10. /\ m \in Seq(AnyStep)
       /\ Elems(m) = IF c # "backup --skipdatabase" THEN Elems(StopSteps) \cup {Check} ELSE {}
       /\ Precedes(m, Stops, {Check, Export} \cup Starts) /\ Precedes(m, v, w)
  <2>1. CASE c # "backup --skipdatabase"
    <3>1. m = k BY <2>1 DEF If
    <3>2. QED BY <2>1, <3>1, <1>7, <1>8, <1>9
  <2>2. CASE ~ (c # "backup --skipdatabase")
    <3>1. m = <<>> BY <2>2 DEF If
    <3>2. m \in Seq(AnyStep) /\ Elems(m) = {}
      BY <3>1, ElemsFew
    <3>3. QED BY <2>2, <3>2, PrecedesNone
  <2>3. QED BY <2>1, <2>2
<1>11. r \in Seq(AnyStep) /\ Elems(r) = IF c = "backup" THEN Elems(StartSteps) ELSE {}
  BY <1>6, IfSteps
<1>12. b = p \o m \o e \o r
  BY DEF BackupSteps, p, m, e, r, k, Prepare, Extras, Check, Export
<1> HIDE DEF m, r, b
<1> DEFINE pm == p \o m
           pme == pm \o e
<1>13. pm \in Seq(AnyStep) /\ Elems(pm) = {Prepare} \cup Elems(m)
  <2>1. m \in Seq(AnyStep)
    BY <1>10
  <2>2. p \o m \in Seq(AnyStep) /\ Elems(p \o m) = Elems(p) \cup Elems(m)
    BY <1>2, <2>1, ElemsConcat
  <2>3. QED BY <1>2, <2>2
<1>14. Precedes(pm, Stops, {Check, Export} \cup Starts) /\ Precedes(pm, v, w)
  <2>1. Elems(p) \cap ({Check, Export} \cup Starts) = {} /\ Elems(p) \cap w = {}
    BY <1>1, <1>2
  <2>2. QED BY <1>2, <1>10, <2>1, PrecedesAppend
<1> HIDE DEF pm
<1>15. pme \in Seq(AnyStep) /\ Elems(pme) = Elems(pm) \cup {Export, Extras}
  BY <1>4, <1>13, ElemsConcat
<1>16. /\ Precedes(pme, Stops, {Check, Export} \cup Starts)
       /\ Precedes(pme, v, w) /\ Precedes(pme, {Check}, {Export})
  <2>1. Elems(e) \cap Stops = {} /\ Elems(e) \cap v = {} /\ Elems(e) \cap {Check} = {}
    BY <1>1, <1>4
  <2>2. Elems(pm) \cap {Export} = {}
    BY <1>1, <1>5, <1>10, <1>13
  <2>3. Precedes(pm, {Check}, {Export})
    BY <2>2, PrecedesNone
  <2>4. QED BY <1>4, <1>13, <1>14, <2>1, <2>3, PrecedesAppend
<1> HIDE DEF pme
<1>17. b \in Seq(AnyStep) /\ Elems(b) = Elems(pme) \cup Elems(r)
  <2>1. b = pme \o r
    BY <1>12 DEF pm, pme
  <2>2. QED BY <1>11, <1>15, <2>1, ElemsConcat
<1>18. InOrder(b)
  <2>1. Elems(r) \subseteq Starts
    BY <1>6, <1>11
  <2>2. /\ Elems(r) \cap Stops = {} /\ Elems(r) \cap v = {} /\ Elems(r) \cap {Check} = {}
        /\ Elems(r) \cap {Export} = {}
    BY <1>1, <2>1
  <2>3. Elems(pm) \cap ({Extras} \cup Starts) = {} /\ Elems(e) \cap Starts = {}
    <3>1. Elems(pm) \subseteq {Prepare, Check} \cup Stops
      <4>1. Elems(m) \subseteq Elems(StopSteps) \cup {Check}
        BY <1>10
      <4>2. QED BY <1>5, <1>13, <4>1
    <3>2. Prepare # Extras /\ Check # Extras
      BY DEF Prepare, Check, Extras
    <3>3. QED BY <1>1, <1>4, <3>1, <3>2
  <2>4. Precedes(pme, {Export}, {Extras} \cup Starts)
    <3>1. Precedes(e, {Export}, {Extras} \cup Starts)
      <4>1. DOMAIN e = 1 .. 2 /\ e[1] = Export /\ e[2] = Extras
        BY <1>1 DEF e
      <4>2. QED BY <1>1, <4>1 DEF Precedes
    <3>2. QED BY <1>4, <1>13, <2>3, <3>1, PrecedesAppend DEF pme
  <2>5. b = pme \o r
    BY <1>12 DEF pm, pme
  <2>6. QED
    BY <1>11, <1>15, <1>16, <2>2, <2>4, <2>5, PrecedesAppend DEF InOrder, v, w
<1>19. Elems(b) \subseteq StepsOf(c)
  <2>1. CASE c = "backup --skipdatabase"
    <3>1. Elems(b) = {Prepare, Export, Extras}
      BY <1>10, <1>11, <1>13, <1>15, <1>17, <2>1
    <3>2. StepsOf(c) = {"prepare", "export", "extras"} \X {Nothing}
      BY <2>1 DEF StepsOf, Cold
    <3>3. QED BY <1>1, <3>1, <3>2
  <2>2. CASE c \in Cold
    <3>1. Elems(b) \subseteq {Prepare, Export, Extras, Check} \cup Stops \cup Starts
      BY <1>5, <1>6, <1>10, <1>11, <1>13, <1>15, <1>17
    <3>2. StepsOf(c) = Stops \cup Starts
                         \cup ({"prepare", "check", "export", "extras"} \X {Nothing})
      BY <2>2 DEF StepsOf, Cold
    <3>3. QED BY <1>1, <3>1, <3>2
  <2>3. QED BY <2>1, <2>2 DEF Backups, Cold
<1>20. c \in Cold => Elems(StopSteps) \cup {Check, Export} \subseteq Elems(b)
  BY <1>10, <1>13, <1>15, <1>17 DEF Cold
<1>21. c = "backup" => Elems(StartSteps) \subseteq Elems(b)
  BY <1>11, <1>17
<1>22. QED
  BY <1>17, <1>18, <1>19, <1>20, <1>21 DEF b


-----------------------------------------------------------------------------
(* The beginning of a command *)

LEMMA StepsOfEach ==
  /\ StepsOf("none") = {} /\ StepsOf("start") = Starts /\ StepsOf("stop") = Stops
  /\ StepsOf("restart") = {<<"reload", Nothing>>} \cup ({"restart"} \X Unit)
  /\ StepsOf("enable") = {"enable"} \X (Unit \cap installed)
  /\ StepsOf("disable") = {"disable"} \X Unit
  /\ StepsOf("scale") = {"enable --now", "disable --now", "restart"} \X ReplicaUnits
  /\ StepsOf("backup --skipdatabase") = {"prepare", "export", "extras"} \X {Nothing}
  /\ \A c \in Cold : StepsOf(c) = Stops \cup Starts
                       \cup ({"prepare", "check", "export", "extras"} \X {Nothing})
  /\ Backups = Cold \cup {"backup --skipdatabase"}
<1>1. StepsOf("none") = {} /\ StepsOf("start") = Starts /\ StepsOf("stop") = Stops
  BY DEF StepsOf, Cold
<1>2. /\ StepsOf("restart") = {<<"reload", Nothing>>} \cup ({"restart"} \X Unit)
      /\ StepsOf("enable") = {"enable"} \X (Unit \cap installed)
      /\ StepsOf("disable") = {"disable"} \X Unit
  BY DEF StepsOf, Cold
<1>3. /\ StepsOf("scale") = {"enable --now", "disable --now", "restart"} \X ReplicaUnits
      /\ StepsOf("backup --skipdatabase") = {"prepare", "export", "extras"} \X {Nothing}
  BY DEF StepsOf, Cold
<1>4. \A c \in Cold : StepsOf(c) = Stops \cup Starts
                        \cup ({"prepare", "check", "export", "extras"} \X {Nothing})
  BY DEF StepsOf, Cold
<1>5. Backups = Cold \cup {"backup --skipdatabase"}
  BY DEF Backups, Cold
<1>6. QED BY <1>1, <1>2, <1>3, <1>4, <1>5

LEMMA DeedsApart ==
  /\ Stops \cap Starts = {} /\ {Check, Export, Extras} \cap (Stops \cup Starts) = {}
  /\ Check # Export /\ Check # Extras /\ Export # Extras
  /\ <<"stop", Server>> \in Stops /\ <<"stop", DB>> \in Stops
  /\ \A u : <<"stop", u>> \notin Starts
BY DEF Stops, Starts, Check, Export, Extras, Unit

LEMMA PlainSteps ==
  \A c \in {"restart", "enable", "disable", "scale"} :
    StepsOf(c) \cap ({Check, Export} \cup Stops) = {}
<1>1. \A x \in {Check, Export} \cup Stops : x[1] \in {"check", "export", "stop"}
  BY DEF Check, Export, Stops
<1>2. ASSUME NEW D \in SUBSET (Deed \ {"check", "export", "stop"}), NEW U
      PROVE (D \X U) \cap ({Check, Export} \cup Stops) = {}
  <2>1. \A x \in D \X U : x[1] \in D
    OBVIOUS
  <2>2. QED BY <1>1, <2>1
<1>3. /\ {"reload"} \in SUBSET (Deed \ {"check", "export", "stop"})
      /\ {"restart"} \in SUBSET (Deed \ {"check", "export", "stop"})
      /\ {"enable"} \in SUBSET (Deed \ {"check", "export", "stop"})
      /\ {"disable"} \in SUBSET (Deed \ {"check", "export", "stop"})
      /\ {"enable --now", "disable --now", "restart"} \in SUBSET (Deed \ {"check", "export", "stop"})
  BY DEF Deed
<1>4. StepsOf("restart") \subseteq ({"reload"} \X {Nothing}) \cup ({"restart"} \X Unit)
  <2>1. <<"reload", Nothing>> \in {"reload"} \X {Nothing}
    OBVIOUS
  <2>2. StepsOf("restart") = {<<"reload", Nothing>>} \cup ({"restart"} \X Unit)
    BY StepsOfEach
  <2>3. QED BY <2>1, <2>2
<1>5. StepsOf("restart") \cap ({Check, Export} \cup Stops) = {}
  <2>1. ({"reload"} \X {Nothing}) \cap ({Check, Export} \cup Stops) = {}
    BY <1>2, <1>3
  <2>2. ({"restart"} \X Unit) \cap ({Check, Export} \cup Stops) = {}
    BY <1>2, <1>3
  <2>3. QED BY <1>4, <2>1, <2>2
<1>6. StepsOf("enable") \cap ({Check, Export} \cup Stops) = {}
  <2>1. ({"enable"} \X (Unit \cap installed)) \cap ({Check, Export} \cup Stops) = {}
    BY <1>2, <1>3
  <2>2. QED BY <2>1, StepsOfEach
<1>7. StepsOf("disable") \cap ({Check, Export} \cup Stops) = {}
  <2>1. ({"disable"} \X Unit) \cap ({Check, Export} \cup Stops) = {}
    BY <1>2, <1>3
  <2>2. QED BY <2>1, StepsOfEach
<1>8. StepsOf("scale") \cap ({Check, Export} \cup Stops) = {}
  <2> DEFINE D == {"enable --now", "disable --now", "restart"}
  <2>1. (D \X ReplicaUnits) \cap ({Check, Export} \cup Stops) = {}
    BY <1>2, <1>3
  <2>2. QED BY <2>1, StepsOfEach
<1>9. QED BY <1>5, <1>6, <1>7, <1>8

LEMMA PlainOrder ==
  ASSUME NEW s, Elems(s) \cap ({Check, Export} \cup Stops) = {}
  PROVE  InOrder(s)
<1>1. Elems(s) \cap {Check} = {} /\ Elems(s) \cap {Export} = {} /\ Elems(s) \cap Stops = {}
      /\ Elems(s) \cap {<<"stop", Server>>} = {}
  BY DeedsApart
<1>2. QED BY <1>1, PrecedesNone DEF InOrder

\* The first replica counts when it is enabled.
LEMMA FirstCounts ==
  ASSUME enabled \subseteq Unit, NEW s \in Kind, <<s, 0>> \in enabled
  PROVE  <<s, 0>> \in Counted
<1>1. <<s, 0>> \in ReplicaUnits /\ 0 \in Index
  <2>1. <<s, 0>>[1] = s
    OBVIOUS
  <2>2. <<s, 0>> \notin {Server, DB, TFTP}
    BY <2>1, UnitNames DEF Kind
  <2>3. <<s, 0>> \in ReplicaUnits
    BY <2>2 DEF Unit
  <2>4. PICK t \in Kind, k \in Index : <<s, 0>> = <<t, k>>
    BY <2>3, ReplicasOf
  <2>5. QED BY <2>3, <2>4
<1>2. ReplicaCount(s) \in 0 .. MaxReplicas
  BY CountedReplicas, Zenon
<1>3. <<s, ReplicaCount(s)>> \notin enabled \/ ReplicaCount(s) = MaxReplicas
  BY CountedReplicas, Zenon
<1>4. ReplicaCount(s) # 0
  BY <1>1, <1>3, MaxReplicasAssumption DEF Index
<1>5. 0 < ReplicaCount(s)
  BY <1>2, <1>4, MaxReplicasAssumption
<1>6. <<s, 0>>[1] = s /\ <<s, 0>>[2] = 0
  OBVIOUS
<1>7. QED BY <1>1, <1>5, <1>6, Zenon DEF Counted

\* What all that counts is told to do.
Told(d, s) ==
  \A u \in Counted \cup {Server} \cup ({DB} \cap installed) : <<d, u>> \in Elems(s)

LEMMA BeginKeeps ==
  ASSUME Inv, NEW c, NEW steps \in Seq(AnyStep), Begin(c, steps),
         c \in {"start", "stop", "restart", "enable", "disable", "scale"} \cup Backups,
         Elems(steps) \subseteq StepsOf(c), InOrder(steps),
         c \in Cold => {Check, Export} \subseteq Elems(steps),
         c \in {"stop"} \cup Cold => Told("stop", steps),
         c \in {"start", "backup"} => Told("start", steps),
         c = "disable" => Told("disable", steps)
  PROVE  Inv'
<1>1. /\ cmd' = c /\ todo' = steps /\ installed' = installed /\ enabled' = enabled
      /\ active' = active /\ again' = again
  BY DEF Begin
<1>2. failed' = failed /\ died' = died
  BY DEF Begin
<1>3. off' = CASE c = "enable" -> "no" [] c = "scale" /\ off = "all" -> "core" [] OTHER -> off
  BY DEF Begin
<1>4. Left' = Elems(steps)
  BY <1>1 DEF Left
<1>5. Counted' = Counted
  BY <1>1 DEF Counted, ReplicaCount
<1>6. TypeOK /\ Host /\ Off /\ enabled \subseteq Unit /\ active \subseteq installed
  BY DEF Inv, TypeOK, Host
<1>7. TypeOK'
  <2>1. installed' \subseteq Unit /\ enabled' \subseteq Unit /\ active' \subseteq Unit
    BY <1>1, <1>6 DEF TypeOK
  <2>2. cmd' \in {"none", "start", "stop", "restart", "enable", "disable", "scale"} \cup Backups
    BY <1>1
  <2>3. todo' \in Seq(Deed \X (Unit \cup {Nothing})) /\ again' \subseteq Unit
    BY <1>1, <1>6 DEF AnyStep, TypeOK
  <2>4. failed' \in BOOLEAN /\ died' \in BOOLEAN
    BY <1>2, <1>6 DEF TypeOK
  <2>5. off' \in {"no", "all", "core"}
    <3>1. off \in {"no", "all", "core"}
      BY <1>6 DEF TypeOK
    <3>2. QED BY <1>3, <3>1
  <2>6. QED BY <2>1, <2>2, <2>3, <2>4, <2>5 DEF TypeOK
<1>8. Host'
  BY <1>1, <1>6 DEF Host
<1>9. Fitting'
  BY <1>1, <1>4 DEF Fitting, StepsOf
<1>10. Ordered'
  <2>1. InOrder(steps)
    OBVIOUS
  <2>2. QED BY <1>1, <2>1 DEF Ordered, InOrder, Starts, Stops, Precedes
<1>11. Checked'
  BY <1>1, <1>4 DEF Checked
<1>12. StopProgress'
  <2>1. CASE Halting'
    <3>1. Told("stop", steps)
      BY <1>1, <2>1 DEF Halting
    <3>2. \A u \in (Counted \cup {Server, DB}) \cap active : <<"stop", u>> \in Elems(steps)
      BY <1>6, <3>1 DEF Told
    <3>3. <<"stop", Server>> \in Elems(steps)
      BY <3>1 DEF Told
    <3>4. QED BY <1>1, <1>4, <1>5, <3>2, <3>3 DEF StopProgress
  <2>2. QED BY <2>1 DEF StopProgress
<1>13. StartProgress'
  <2>1. CASE c \in {"start", "backup"}
    <3>1. \A u \in Counted \cup ({Server, DB} \cap installed) : <<"start", u>> \in Elems(steps)
      BY <2>1 DEF Told
    <3>2. QED BY <1>1, <1>4, <1>5, <3>1 DEF StartProgress
  <2>2. QED BY <1>1, <2>1 DEF StartProgress
<1>14. DisableProgress'
  <2>1. CASE c = "disable"
    <3>1. \A u \in Counted : <<"disable", u>> \in Elems(steps)
      BY <2>1 DEF Told
    <3>2. \A u \in {Server, DB, TFTP} : u \in enabled => u \in Counted
      BY DEF Counted
    <3>3. \A k \in DOMAIN Replicated : <<Replicated[k], 0>> \in enabled => <<Replicated[k], 0>> \in Counted
      BY <1>6, Kinds, FirstCounts
    <3>4. Quiet({u \in enabled : <<"disable", u>> \notin Elems(steps)})
      BY <3>1, <3>2, <3>3 DEF Quiet
    <3>5. QED BY <1>1, <1>4, <3>4 DEF DisableProgress
  <2>2. QED BY <1>1, <2>1 DEF DisableProgress
<1>15. Off'
  <2>1. ASSUME off' = "all" PROVE off = "all" /\ c \notin {"enable", "scale"}
    BY <1>3, <2>1
  <2>2. QED BY <1>1, <1>6, <2>1 DEF Off
<1>16. Restarting'
  <2>1. cmd = "none"
    BY DEF Begin
  <2>2. again = {}
    BY <2>1 DEF Inv, Restarting
  <2>3. QED BY <1>1, <2>2 DEF Restarting
<1>17. QED
  BY <1>7, <1>8, <1>9, <1>10, <1>11, <1>12, <1>13, <1>14, <1>15, <1>16 DEF Inv


LEMMA CommandKeeps == Inv /\ Command => Inv'
<1> SUFFICES ASSUME Inv, Command PROVE Inv'
  OBVIOUS
<1>1. Host
  BY DEF Inv
<1>2. "backup" \in Cold /\ "backup" \in Backups
      /\ \A c \in {"start", "stop", "restart", "enable", "disable", "scale",
                   "backup --skipdatabase"} : c \notin Cold
  BY DEF Cold, Backups
<1>3. CASE Begin("start", StartSteps)
  <2>1. StartSteps \in Seq(AnyStep) /\ Elems(StartSteps) \subseteq Starts /\ Told("start", StartSteps)
    BY <1>1, StartStepsOf DEF Told
  <2>2. InOrder(StartSteps)
    BY <2>1, DeedsApart, PlainOrder
  <2>3. QED BY <1>2, <1>3, <2>1, <2>2, StepsOfEach, BeginKeeps
<1>4. CASE Begin("stop", StopSteps)
  <2>1. /\ StopSteps \in Seq(AnyStep) /\ Elems(StopSteps) \subseteq Stops /\ Told("stop", StopSteps)
        /\ Precedes(StopSteps, {<<"stop", Server>>}, {<<"stop", DB>>})
    BY <1>1, StopStepsOf DEF Told
  <2>2. InOrder(StopSteps)
    <3>1. /\ Elems(StopSteps) \cap ({Check, Export} \cup Starts) = {}
          /\ Elems(StopSteps) \cap {Check} = {} /\ Elems(StopSteps) \cap {Export} = {}
      BY <2>1, DeedsApart
    <3>2. QED BY <2>1, <3>1, PrecedesNone DEF InOrder
  <2>3. QED BY <1>2, <1>4, <2>1, <2>2, StepsOfEach, BeginKeeps
<1>5. CASE Begin("restart", RestartSteps)
  <2>1. RestartSteps \in Seq(AnyStep) /\ Elems(RestartSteps) \subseteq StepsOf("restart")
    BY RestartStepsOf, StepsOfEach
  <2>2. StepsOf("restart") \cap ({Check, Export} \cup Stops) = {}
    BY PlainSteps
  <2>3. InOrder(RestartSteps)
    BY <2>1, <2>2, PlainOrder
  <2>4. QED BY <1>2, <1>5, <2>1, <2>3, BeginKeeps
<1>6. CASE Begin("enable", EnableSteps)
  <2>1. EnableSteps \in Seq(AnyStep) /\ Elems(EnableSteps) \subseteq StepsOf("enable")
    BY <1>1, EnableStepsOf, StepsOfEach
  <2>2. StepsOf("enable") \cap ({Check, Export} \cup Stops) = {}
    BY PlainSteps
  <2>3. InOrder(EnableSteps)
    BY <2>1, <2>2, PlainOrder
  <2>4. QED BY <1>2, <1>6, <2>1, <2>3, BeginKeeps
<1>7. CASE Begin("disable", DisableSteps)
  <2>1. /\ DisableSteps \in Seq(AnyStep) /\ Elems(DisableSteps) \subseteq StepsOf("disable")
        /\ Told("disable", DisableSteps)
    BY <1>1, DisableStepsOf, StepsOfEach DEF Told
  <2>2. StepsOf("disable") \cap ({Check, Export} \cup Stops) = {}
    BY PlainSteps
  <2>3. InOrder(DisableSteps)
    BY <2>1, <2>2, PlainOrder
  <2>4. QED BY <1>2, <1>7, <2>1, <2>3, BeginKeeps
<1>8. CASE \E k \in DOMAIN Replicated, n \in 0 .. MaxReplicas :
             /\ n <= 1 \/ Replicated[k] = "attestation"
             /\ Begin("scale", ScaleSteps(Replicated[k], n))
  <2>1. PICK k \in DOMAIN Replicated, n \in 0 .. MaxReplicas :
               Begin("scale", ScaleSteps(Replicated[k], n))
    BY <1>8
  <2>2. Replicated[k] \in Kind
    BY Kinds
  <2> DEFINE s == ScaleSteps(Replicated[k], n)
  <2>3. s \in Seq(AnyStep) /\ Elems(s) \subseteq StepsOf("scale")
    BY <2>2, ScaleStepsOf, StepsOfEach
  <2>4. StepsOf("scale") \cap ({Check, Export} \cup Stops) = {}
    BY PlainSteps
  <2> HIDE DEF s
  <2>5. InOrder(s)
    BY <2>3, <2>4, PlainOrder
  <2>6. Begin("scale", s)
    BY <2>1 DEF s
  <2>7. QED BY <1>2, <2>3, <2>5, <2>6, BeginKeeps
<1>9. CASE \E c \in Backups : Begin(c, BackupSteps(c))
  <2>1. PICK c \in Backups : Begin(c, BackupSteps(c))
    BY <1>9
  <2> DEFINE s == BackupSteps(c)
  <2>2. /\ s \in Seq(AnyStep) /\ Elems(s) \subseteq StepsOf(c) /\ InOrder(s)
        /\ c \in Cold => Elems(StopSteps) \cup {Check, Export} \subseteq Elems(s)
        /\ c = "backup" => Elems(StartSteps) \subseteq Elems(s)
    BY <1>1, BackupStepsOf
  <2>3. Told("stop", StopSteps) /\ Told("start", StartSteps)
    BY <1>1, StopStepsOf, StartStepsOf DEF Told
  <2>4. c \in Cold => Told("stop", s)
    BY <2>2, <2>3 DEF Told
  <2>5. c = "backup" => Told("start", s)
    BY <2>2, <2>3 DEF Told
  <2>6. c # "start" /\ c # "stop" /\ c # "disable"
    BY DEF Backups
  <2>7. Begin(c, s) /\ (c \in Cold => {Check, Export} \subseteq Elems(s))
    BY <2>1, <2>2
  <2> HIDE DEF s
  <2>8. QED BY <2>2, <2>4, <2>5, <2>6, <2>7, BeginKeeps
<1>10. QED
  BY <1>3, <1>4, <1>5, <1>6, <1>7, <1>8, <1>9 DEF Command


-----------------------------------------------------------------------------
(* The end of a command, and what happens meanwhile *)

LEMMA NoStep == Elems(<<>>) = {} /\ InOrder(<<>>) /\ <<>> \in Seq(AnyStep)
<1>1. Elems(<<>>) = {} /\ <<>> \in Seq(AnyStep)
  BY ElemsFew
<1>2. QED BY <1>1, PlainOrder

LEMMA EndKeeps ==
  ASSUME Inv, cmd' = "none", todo' = <<>>, again' = {}, UNCHANGED <<installed, enabled>>,
         active' \subseteq installed, failed' = FALSE, died' = FALSE,
         off' \in {"no", "all", "core"}, off' = "all" => Quiet(enabled)
  PROVE  Inv'
<1>1. TypeOK /\ Host
  BY DEF Inv
<1>2. Left' = {}
  BY NoStep DEF Left
<1>3. TypeOK'
  <2>1. installed' \subseteq Unit /\ enabled' \subseteq Unit /\ active' \subseteq Unit
    BY <1>1 DEF TypeOK
  <2>2. todo' \in Seq(Deed \X (Unit \cup {Nothing})) /\ again' \subseteq Unit
    BY NoStep DEF AnyStep
  <2>3. failed' \in BOOLEAN /\ died' \in BOOLEAN
    OBVIOUS
  <2>4. QED BY <2>1, <2>2, <2>3 DEF TypeOK
<1>4. Host'
  BY <1>1 DEF Host
<1>5. Fitting' /\ Checked' /\ StopProgress' /\ StartProgress' /\ DisableProgress'
  <2>1. cmd' \notin Cold /\ cmd' \notin {"start", "stop", "backup", "disable"}
    BY DEF Cold
  <2>2. ~ Halting'
    BY <2>1 DEF Halting, Cold
  <2>3. Fitting' /\ Checked'
    BY <1>2, <2>1 DEF Fitting, Checked, Cold
  <2>4. StopProgress' /\ StartProgress' /\ DisableProgress'
    BY <2>1, <2>2 DEF StopProgress, StartProgress, DisableProgress
  <2>5. QED BY <2>3, <2>4
<1>6. Ordered'
  BY NoStep DEF Ordered, InOrder, Starts, Stops, Precedes
<1>7. Off' /\ Restarting'
  BY DEF Off, Quiet, Restarting
<1>8. QED
  BY <1>3, <1>4, <1>5, <1>6, <1>7 DEF Inv

LEMMA ReturnKeeps == Inv /\ Return => Inv'
<1> SUFFICES ASSUME Inv, Return PROVE Inv'
  OBVIOUS
<1>1. /\ cmd' = "none" /\ todo = <<>> /\ todo' = todo /\ UNCHANGED <<installed, enabled>>
      /\ active' = active /\ failed' = FALSE /\ died' = FALSE /\ again' = {}
  <2>1. again = {}
    BY DEF Return, Inv, Restarting
  <2>2. QED BY <2>1 DEF Return
<1>2. active \subseteq installed /\ off \in {"no", "all", "core"} /\ Off /\ DisableProgress
  BY DEF Inv, Host, TypeOK
<1>3. CASE cmd = "disable" /\ ~failed
  <2>1. Left = {}
    BY <1>1, NoStep DEF Left
  <2>2. Quiet({u \in enabled : <<"disable", u>> \notin Left})
    BY <1>2, <1>3 DEF DisableProgress
  <2>3. Quiet(enabled)
    BY <2>1, <2>2 DEF Quiet
  <2>4. off' = "all"
    BY <1>3, Zenon DEF Return
  <2>5. QED BY <1>1, <1>2, <2>3, <2>4, EndKeeps
<1>4. CASE ~ (cmd = "disable" /\ ~failed)
  <2>1. off' = off
    BY <1>4, Zenon DEF Return
  <2>2. off' = "all" => Quiet(enabled)
    BY <1>2, <2>1 DEF Off
  <2>3. QED BY <1>1, <1>2, <2>1, <2>2, EndKeeps
<1>5. QED BY <1>3, <1>4

LEMMA InterruptKeeps == Inv /\ Interrupt => Inv'
<1> SUFFICES ASSUME Inv, Interrupt PROVE Inv'
  OBVIOUS
<1>1. /\ cmd' = "none" /\ todo' = <<>> /\ UNCHANGED <<installed, enabled>>
      /\ active' = active /\ failed' = FALSE /\ died' = FALSE /\ off' = off /\ again' = {}
  BY DEF Interrupt
<1>2. active \subseteq installed /\ off \in {"no", "all", "core"} /\ Off
  BY DEF Inv, Host, TypeOK
<1>3. off' = "all" => Quiet(enabled)
  BY <1>1, <1>2 DEF Off
<1>4. QED BY <1>1, <1>2, <1>3, EndKeeps

LEMMA RebootKeeps == Inv /\ Reboot => Inv'
<1> SUFFICES ASSUME Inv, Reboot PROVE Inv'
  OBVIOUS
<1>1. /\ cmd' = "none" /\ todo' = <<>> /\ UNCHANGED <<installed, enabled>>
      /\ active' \subseteq installed /\ failed' = FALSE /\ died' = FALSE /\ off' = off
      /\ again' = {}
  BY DEF Reboot
<1>2. off \in {"no", "all", "core"} /\ Off
  BY DEF Inv, TypeOK
<1>3. off' = "all" => Quiet(enabled)
  BY <1>1, <1>2 DEF Off
<1>4. QED BY <1>1, <1>2, <1>3, EndKeeps

\* A container that dies or is started again.
LEMMA WorldKeeps == Inv /\ (UnitDies \/ UnitRestarts) => Inv'
<1> SUFFICES ASSUME Inv, UnitDies \/ UnitRestarts PROVE Inv'
  OBVIOUS
<1>1. /\ installed' = installed /\ enabled' = enabled /\ cmd' = cmd /\ todo' = todo
      /\ off' = off /\ again' = again
  BY DEF UnitDies, UnitRestarts
<1>2. failed' = failed /\ died' \in BOOLEAN /\ (cmd # "none" => died')
  BY Zenon DEF UnitDies, UnitRestarts
<1>3. TypeOK /\ Host /\ Restarting /\ Fitting /\ Ordered /\ Checked /\ DisableProgress /\ Off
  BY DEF Inv
<1>4. active' \subseteq installed
  <2>1. active \subseteq installed
    BY <1>3 DEF Host
  <2>2. CASE UnitDies
    BY <2>1, <2>2 DEF UnitDies
  <2>3. CASE UnitRestarts
    BY <2>1, <2>3 DEF UnitRestarts, StartedWith
  <2>4. QED BY <2>2, <2>3
<1>5. TypeOK'
  <2>1. /\ installed \subseteq Unit /\ enabled \subseteq Unit
        /\ cmd \in {"none", "start", "stop", "restart", "enable", "disable", "scale"} \cup Backups
        /\ todo \in Seq(Deed \X (Unit \cup {Nothing})) /\ off \in {"no", "all", "core"}
        /\ again \subseteq Unit
    BY <1>3 DEF TypeOK
  <2>2. failed \in BOOLEAN
    BY <1>3 DEF TypeOK
  <2>3. active' \subseteq Unit
    BY <1>4, <2>1
  <2>4. failed' \in BOOLEAN /\ died' \in BOOLEAN
    BY <1>2, <2>2
  <2>5. QED BY <1>1, <2>1, <2>3, <2>4 DEF TypeOK
<1>6. Host'
  BY <1>1, <1>3, <1>4 DEF Host
<1>7. Left' = Left
  BY <1>1 DEF Left
<1>8. Fitting' /\ Ordered'
  BY <1>1, <1>3, <1>7 DEF Fitting, StepsOf, Ordered, InOrder, Starts, Stops, Precedes
<1>9. Checked'
  BY <1>1, <1>2, <1>3, <1>7 DEF Checked
<1>10. StopProgress' /\ StartProgress'
  <2>1. CASE cmd # "none"
    BY <1>2, <2>1 DEF StopProgress, StartProgress
  <2>2. CASE cmd = "none"
    <3>1. ~ Halting' /\ cmd' \notin {"start", "backup"}
      BY <1>1, <2>2 DEF Halting, Cold
    <3>2. QED BY <3>1 DEF StopProgress, StartProgress
  <2>3. QED BY <2>1, <2>2
<1>11. DisableProgress' /\ Off'
  BY <1>1, <1>2, <1>3, <1>7 DEF DisableProgress, Off, Quiet
<1>12. Restarting'
  BY <1>1, <1>3 DEF Restarting
<1>13. QED
  BY <1>5, <1>6, <1>8, <1>9, <1>10, <1>11, <1>12 DEF Inv

-----------------------------------------------------------------------------
(* A step of a command *)

\* Whose step a step is.
LEMMA StepIs ==
  ASSUME NEW c, c \in {"start", "stop", "restart", "enable", "disable", "scale"} \cup Backups,
         NEW x \in StepsOf(c)
  PROVE  /\ x[1] = "start" => c \in {"start"} \cup Cold /\ x \in Starts
         /\ x[1] = "stop" => c \in {"stop"} \cup Cold /\ x \in Stops
         /\ x[1] \in {"enable --now", "disable --now"} => c = "scale" /\ x[2] \in ReplicaUnits
         /\ x[1] = "restart" => c \in {"restart", "scale"} /\ x[2] \in Unit
         /\ x[1] = "enable" => c = "enable" /\ x[2] \in Unit \cap installed
         /\ x[1] = "disable" => c = "disable" /\ x[2] \in Unit
         /\ x[1] \in {"reload", "prepare", "check", "export", "extras"}
              => x[2] = Nothing /\ c \in {"restart"} \cup Backups
         /\ x = <<x[1], x[2]>>
<1>1. ReplicaUnits \subseteq Unit
  BY DEF Unit
<1>2. CASE c = "start"
  <2>1. x \in Starts
    BY <1>2, StepsOfEach
  <2>2. x[1] = "start" /\ x = <<x[1], x[2]>>
    BY <2>1 DEF Starts
  <2>3. QED BY <1>2, <2>1, <2>2
<1>3. CASE c = "stop"
  <2>1. x \in Stops
    BY <1>3, StepsOfEach
  <2>2. x[1] = "stop" /\ x = <<x[1], x[2]>>
    BY <2>1 DEF Stops
  <2>3. QED BY <1>3, <2>1, <2>2
<1>4. CASE c = "restart"
  <2>1. x = <<"reload", Nothing>> \/ x \in {"restart"} \X Unit
    BY <1>4, StepsOfEach
  <2>2. CASE x = <<"reload", Nothing>>
    <3>1. x[1] = "reload" /\ x[2] = Nothing /\ x = <<x[1], x[2]>>
      BY <2>2
    <3>2. QED BY <1>4, <3>1
  <2>3. CASE x \in {"restart"} \X Unit
    <3>1. x[1] = "restart" /\ x[2] \in Unit /\ x = <<x[1], x[2]>>
      BY <2>3
    <3>2. QED BY <1>4, <3>1
  <2>4. QED BY <2>1, <2>2, <2>3
<1>5. CASE c = "enable"
  <2>1. x \in {"enable"} \X (Unit \cap installed)
    BY <1>5, StepsOfEach
  <2>2. x[1] = "enable" /\ x[2] \in Unit \cap installed /\ x = <<x[1], x[2]>>
    BY <2>1
  <2>3. QED BY <1>5, <2>1, <2>2
<1>6. CASE c = "disable"
  <2>1. x \in {"disable"} \X Unit
    BY <1>6, StepsOfEach
  <2>2. x[1] = "disable" /\ x[2] \in Unit /\ x = <<x[1], x[2]>>
    BY <2>1
  <2>3. QED BY <1>6, <2>1, <2>2
<1>7. CASE c = "scale"
  <2>1. x \in {"enable --now", "disable --now", "restart"} \X ReplicaUnits
    BY <1>7, StepsOfEach
  <2>2. /\ x[1] \in {"enable --now", "disable --now", "restart"} /\ x[2] \in ReplicaUnits
        /\ x = <<x[1], x[2]>>
    <3>1. ASSUME NEW D, NEW U, x \in D \X U
          PROVE x[1] \in D /\ x[2] \in U /\ x = <<x[1], x[2]>>
      BY <3>1
    <3>2. QED BY <2>1, <3>1, Zenon
  <2>3. QED BY <1>1, <1>7, <2>1, <2>2
<1>8. CASE c = "backup --skipdatabase"
  <2>1. x \in {"prepare", "export", "extras"} \X {Nothing}
    BY <1>8, StepsOfEach
  <2>2. x[1] \in {"prepare", "export", "extras"} /\ x[2] = Nothing /\ x = <<x[1], x[2]>>
    BY <2>1
  <2>3. QED BY <1>8, <2>1, <2>2 DEF Backups
<1>9. CASE c \in Cold
  <2>1. \/ x \in Stops \/ x \in Starts
        \/ x \in {"prepare", "check", "export", "extras"} \X {Nothing}
    BY <1>9, StepsOfEach
  <2>2. CASE x \in Stops
    <3>1. x[1] = "stop" /\ x = <<x[1], x[2]>>
      BY <2>2 DEF Stops
    <3>2. QED BY <1>9, <2>2, <3>1
  <2>3. CASE x \in Starts
    <3>1. x[1] = "start" /\ x = <<x[1], x[2]>>
      BY <2>3 DEF Starts
    <3>2. QED BY <1>9, <2>3, <3>1
  <2>4. CASE x \in {"prepare", "check", "export", "extras"} \X {Nothing}
    <3>1. /\ x[1] \in {"prepare", "check", "export", "extras"} /\ x[2] = Nothing
          /\ x = <<x[1], x[2]>>
      BY <2>4
    <3>2. c \in Backups
      BY <1>9 DEF Backups, Cold
    <3>3. QED BY <1>9, <3>1, <3>2
  <2>5. QED BY <2>1, <2>2, <2>3, <2>4
<1>10. QED
  BY <1>2, <1>3, <1>4, <1>5, <1>6, <1>7, <1>8, <1>9 DEF Backups, Cold

\* A unit that is taken down for its restart: no promise is about a command that restarts.
LEMMA TakeDownKeeps == Inv /\ TakeDown => Inv'
<1> SUFFICES ASSUME Inv, TakeDown PROVE Inv'
  OBVIOUS
<1>1. /\ installed' = installed /\ enabled' = enabled /\ cmd' = cmd /\ todo' = todo
      /\ off' = off /\ active' \subseteq active
  BY DEF TakeDown
<1>2. failed' = failed /\ died' = died
  BY DEF TakeDown
<1>3. TypeOK /\ Host /\ Fitting /\ Ordered /\ Checked /\ DisableProgress /\ Off
  BY DEF Inv
<1>4. todo # <<>> /\ Head(todo)[1] = "restart" /\ again' \subseteq installed
  BY <1>3 DEF TakeDown, Host
<1>5. cmd \in {"restart", "scale"}
  <2>1. todo \in Seq(AnyStep)
    BY <1>3 DEF TypeOK, AnyStep
  <2>2. Head(todo) \in Left
    BY <1>4, <2>1, ElemsTail DEF Left
  <2>3. Head(todo) \in StepsOf(cmd)
    BY <1>3, <2>2 DEF Fitting
  <2>4. cmd # "none"
    BY <2>3, StepsOfEach
  <2>5. cmd \in {"start", "stop", "restart", "enable", "disable", "scale"} \cup Backups
    BY <1>3, <2>4 DEF TypeOK
  <2>6. QED BY <1>4, <2>3, <2>5, StepIs
<1>6. TypeOK'
  <2>1. /\ installed \subseteq Unit /\ enabled \subseteq Unit /\ active \subseteq Unit
        /\ cmd \in {"none", "start", "stop", "restart", "enable", "disable", "scale"} \cup Backups
        /\ todo \in Seq(Deed \X (Unit \cup {Nothing})) /\ off \in {"no", "all", "core"}
    BY <1>3 DEF TypeOK
  <2>2. failed \in BOOLEAN /\ died \in BOOLEAN
    BY <1>3 DEF TypeOK
  <2>3. again' \subseteq Unit /\ active' \subseteq Unit
    BY <1>1, <1>4, <2>1
  <2>4. QED BY <1>1, <1>2, <2>1, <2>2, <2>3 DEF TypeOK
<1>7. Host'
  BY <1>1, <1>3, <1>4 DEF Host
<1>8. Left' = Left
  BY <1>1 DEF Left
<1>9. Fitting' /\ Ordered'
  BY <1>1, <1>3, <1>8 DEF Fitting, StepsOf, Ordered, InOrder, Starts, Stops, Precedes
<1>10. Checked' /\ StopProgress' /\ StartProgress'
  <2>1. cmd' \notin Cold \cup {"stop", "start", "backup"}
    BY <1>1, <1>5 DEF Cold
  <2>2. ~ Halting' /\ cmd' \notin {"start", "backup"} /\ cmd' \notin Cold
    BY <2>1 DEF Halting
  <2>3. QED BY <2>2 DEF Checked, StopProgress, StartProgress
<1>11. DisableProgress' /\ Off'
  BY <1>1, <1>2, <1>3, <1>8 DEF DisableProgress, Off, Quiet
<1>12. Restarting'
  BY <1>1, <1>4, <1>5 DEF Restarting
<1>13. QED
  BY <1>6, <1>7, <1>9, <1>10, <1>11, <1>12 DEF Inv

\* Any other step of a command.
Advance ==
  /\ todo # <<>> /\ (Done \/ Fail) /\ UNCHANGED <<installed, cmd, died, off>>
  /\ again' = {} \/ (again' = again /\ Head(todo)[1] # "restart")

LEMMA StepAdvances ==
  (StartUnit \/ StopUnit \/ RestartUnit \/ BootUnit \/ OtherStep) => Advance
<1>1. StartUnit => Advance BY DEF StartUnit, Advance, Unused
<1>2. StopUnit => Advance BY DEF StopUnit, Advance, Unused
<1>3. RestartUnit => Advance BY DEF RestartUnit, Advance
<1>4. BootUnit => Advance BY DEF BootUnit, Advance, Unused
<1>5. OtherStep => Advance BY DEF OtherStep, Advance, Unused
<1>6. QED BY <1>1, <1>2, <1>3, <1>4, <1>5

\* What is left after a step.
LEMMA AdvanceLeft ==
  ASSUME Inv, Advance
  PROVE  /\ Head(todo) \in AnyStep /\ Head(todo) \in Left /\ Head(todo) \in StepsOf(cmd)
         /\ cmd \in {"start", "stop", "restart", "enable", "disable", "scale"} \cup Backups
         /\ todo' \in Seq(AnyStep) /\ Left' \subseteq Left
         /\ Left = {Head(todo)} \cup Left' \/ Left' = {}
         /\ Done => Left = {Head(todo)} \cup Left'
         /\ InOrder(todo) /\ Ordered'
<1>1. /\ todo \in Seq(AnyStep) /\ todo # <<>> /\ Left \subseteq StepsOf(cmd)
      /\ InOrder(todo) /\ TypeOK
  BY DEF Inv, TypeOK, Advance, AnyStep, Fitting, Ordered
<1>2. /\ Head(todo) \in AnyStep /\ Tail(todo) \in Seq(AnyStep)
      /\ Left = {Head(todo)} \cup Elems(Tail(todo))
  BY <1>1, ElemsTail DEF Left
<1>3. cmd \in {"start", "stop", "restart", "enable", "disable", "scale"} \cup Backups
  <2>1. cmd # "none"
    BY <1>1, <1>2, StepsOfEach
  <2>2. QED BY <1>1, <2>1 DEF TypeOK
<1>4. InOrder(Tail(todo))
  BY <1>1, PrecedesTail DEF InOrder
<1>5. todo' = Tail(todo) \/ todo' = <<>>
  BY DEF Advance, Done, Fail
<1>6. Done => todo' = Tail(todo)
  BY DEF Done
<1>7. Left' = Elems(todo')
  BY DEF Left
<1>8. InOrder(todo')
  BY <1>4, <1>5, NoStep
<1>9. Ordered'
  BY <1>8 DEF Ordered, InOrder, Starts, Stops, Precedes
<1>10. QED
  BY <1>1, <1>2, <1>3, <1>5, <1>6, <1>7, <1>9, NoStep

\* What a step is not left before.
LEMMA HeadFirst ==
  ASSUME todo \in Seq(AnyStep), todo # <<>>, InOrder(todo)
  PROVE  /\ Head(todo) \in {Check, Export} \cup Starts => Left \cap Stops = {}
         /\ Head(todo) = Export => Check \notin Left
         /\ Head(todo) \in {Extras} \cup Starts => Export \notin Left
         /\ Head(todo) = <<"stop", DB>> => <<"stop", Server>> \notin Left
<1>1. Head(todo) \in {Check, Export} \cup Starts => Left \cap Stops = {}
  BY PrecedesTail DEF InOrder, Left
<1>2. Head(todo) \in {Export} => Left \cap {Check} = {}
  BY PrecedesTail DEF InOrder, Left
<1>3. Head(todo) \in {Extras} \cup Starts => Left \cap {Export} = {}
  BY PrecedesTail DEF InOrder, Left
<1>4. Head(todo) \in {<<"stop", DB>>} => Left \cap {<<"stop", Server>>} = {}
  BY PrecedesTail DEF InOrder, Left
<1>5. QED BY <1>1, <1>2, <1>3, <1>4


\* A step after which nothing has failed.
LEMMA Unfailed == Advance /\ ~failed' => ~failed /\ Done
<1> SUFFICES ASSUME Advance, ~failed' PROVE ~failed /\ Done
  OBVIOUS
<1>1. ~ Fail
  BY Zenon DEF Fail
<1>2. Done
  BY <1>1 DEF Advance
<1>3. failed' = failed
  BY <1>2 DEF Done
<1>4. QED BY <1>2, <1>3, Zenon

\* What each kind of step does to the units.
LEMMA StartEffect ==
  ASSUME StartUnit, Head(todo)[2] \in Unit
  PROVE  /\ Head(todo)[1] \in {"start", "enable --now"}
         /\ active \subseteq active' /\ active' \subseteq active \cup installed
         /\ enabled' = enabled \/ (Head(todo)[1] = "enable --now"
                                    /\ enabled' = enabled \cup {Head(todo)[2]})
         /\ ~failed' => Head(todo)[2] \in active'
<1>1. Head(todo)[1] \in {"start", "enable --now"}
  BY DEF StartUnit
<1>2. StartedWith(Head(todo)[2]) \subseteq SUBSET installed
  BY DEF StartedWith
<1>3. active \subseteq active' /\ active' \subseteq active \cup installed
  BY <1>2 DEF StartUnit
<1>4. \/ enabled' = enabled
      \/ Head(todo)[1] = "enable --now" /\ enabled' = enabled \cup {Head(todo)[2]}
  BY DEF StartUnit
<1>5. ASSUME ~failed' PROVE Head(todo)[2] \in active'
  <2>1. ~ Fail
    BY <1>5, Zenon DEF Fail
  <2>2. QED BY <2>1 DEF StartUnit
<1>6. QED BY <1>1, <1>3, <1>4, <1>5

LEMMA StopEffect ==
  ASSUME StopUnit
  PROVE  /\ Head(todo)[1] \in {"stop", "disable --now"}
         /\ active' \subseteq active /\ enabled' \subseteq enabled
         /\ Head(todo)[1] = "stop" => enabled' = enabled
         /\ ~failed' => active' = active \ ({Head(todo)[2]} \cup RequiredBy(Head(todo)[2]))
         /\ active \ ({Head(todo)[2]} \cup RequiredBy(Head(todo)[2])) \subseteq active'
<1>1. Head(todo)[1] \in {"stop", "disable --now"} /\ active' \subseteq active
      /\ active \ ({Head(todo)[2]} \cup RequiredBy(Head(todo)[2])) \subseteq active'
  BY DEF StopUnit
<1>2. enabled' \subseteq enabled /\ (Head(todo)[1] = "stop" => enabled' = enabled)
  BY DEF StopUnit
<1>3. ASSUME ~failed' PROVE active' = active \ ({Head(todo)[2]} \cup RequiredBy(Head(todo)[2]))
  <2>1. ~ Fail
    BY <1>3, Zenon DEF Fail
  <2>2. QED BY <2>1 DEF StopUnit
<1>4. QED BY <1>1, <1>2, <1>3

LEMMA RestartEffect ==
  Host /\ RestartUnit
    => /\ Head(todo)[1] = "restart" /\ enabled' = enabled
       /\ active \subseteq active' /\ active' \subseteq active \cup installed
BY DEF RestartUnit, StartedWith, Host

LEMMA BootEffect ==
  ASSUME BootUnit
  PROVE  /\ Head(todo)[1] \in {"enable", "disable"} /\ active' = active
         /\ \/ enabled' = enabled
            \/ Head(todo)[1] = "enable" /\ enabled' = enabled \cup {Head(todo)[2]}
            \/ Head(todo)[1] = "disable" /\ enabled' = enabled \ {Head(todo)[2]}
         /\ ~failed' /\ Head(todo)[1] = "disable" => enabled' = enabled \ {Head(todo)[2]}
<1>1. /\ Head(todo)[1] \in {"enable", "disable"} /\ active' = active
      /\ \/ enabled' = enabled
         \/ Head(todo)[1] = "enable" /\ enabled' = enabled \cup {Head(todo)[2]}
         \/ Head(todo)[1] = "disable" /\ enabled' = enabled \ {Head(todo)[2]}
  BY DEF BootUnit
<1>2. ASSUME ~failed', Head(todo)[1] = "disable" PROVE enabled' = enabled \ {Head(todo)[2]}
  <2>1. ~ Fail
    BY <1>2, Zenon DEF Fail
  <2>2. QED BY <1>2, <2>1 DEF BootUnit
<1>3. QED BY <1>1, <1>2

LEMMA OtherEffect ==
  ASSUME OtherStep
  PROVE  /\ Head(todo)[1] \in {"reload", "prepare", "check", "export", "extras"}
         /\ enabled' = enabled /\ active' = active
         /\ Head(todo)[1] = "check" /\ failed => todo' = <<>>
<1>1. /\ Head(todo)[1] \in {"reload", "prepare", "check", "export", "extras"}
      /\ enabled' = enabled /\ active' = active
  BY DEF OtherStep
<1>2. ASSUME Head(todo)[1] = "check", failed PROVE todo' = <<>>
  <2>1. Fail
    BY <1>2, Zenon DEF OtherStep
  <2>2. QED BY <1>2, <2>1 DEF Fail
<1>3. QED BY <1>1, <1>2

\* Failing to prepare, to check or to export ends a backup.
LEMMA FailEnds ==
  Fail /\ Head(todo)[1] \in {"prepare", "check", "export"} => todo' = <<>>
BY DEF Fail

-----------------------------------------------------------------------------
(* The invariant is kept by every step, part by part *)

LEMMA AdvanceTyped ==
  ASSUME Inv, StartUnit \/ StopUnit \/ RestartUnit \/ BootUnit \/ OtherStep
  PROVE  TypeOK' /\ Host' /\ Restarting' /\ Fitting' /\ Ordered'
<1>1. Advance
  BY StepAdvances
<1>2. /\ Head(todo) \in StepsOf(cmd) /\ todo' \in Seq(AnyStep) /\ Left' \subseteq Left
      /\ cmd \in {"start", "stop", "restart", "enable", "disable", "scale"} \cup Backups
      /\ Ordered'
  BY <1>1, AdvanceLeft
<1>3. TypeOK /\ Host /\ Fitting
  BY DEF Inv
<1>4. installed' = installed /\ cmd' = cmd /\ off' = off
  BY <1>1 DEF Advance
<1>5. ReplicaUnits \subseteq installed /\ installed \subseteq Unit
  <2>1. DB \notin ReplicaUnits
    BY ReplicasOf, UnitNames
  <2>2. QED BY <1>3, <2>1 DEF Host, Unit
<1>6. enabled' \subseteq installed /\ active' \subseteq installed
  <2>1. enabled \subseteq installed /\ active \subseteq installed
    BY <1>3 DEF Host
  <2>2. CASE StartUnit
    <3>1. Head(todo)[1] \in {"start", "enable --now"}
      BY <2>2 DEF StartUnit
    <3>2. Head(todo)[1] = "start" \/ Head(todo)[2] \in ReplicaUnits
      BY <1>2, <3>1, StepIs
    <3>3. Head(todo)[2] \in Unit
      BY <1>2, <1>5, <3>1, StepIs DEF Starts
    <3>4. QED BY <1>5, <2>1, <2>2, <3>2, <3>3, StartEffect
  <2>3. CASE StopUnit
    BY <2>1, <2>3, StopEffect
  <2>4. CASE RestartUnit
    BY <1>3, <2>1, <2>4, RestartEffect
  <2>5. CASE BootUnit
    <3>1. Head(todo)[1] = "enable" => Head(todo)[2] \in installed
      BY <1>2, StepIs
    <3>2. QED BY <2>1, <2>5, <3>1, BootEffect
  <2>6. CASE OtherStep
    BY <2>1, <2>6, OtherEffect
  <2>7. QED BY <2>2, <2>3, <2>4, <2>5, <2>6
<1>7. failed' \in BOOLEAN /\ died' \in BOOLEAN
  <2>1. failed \in BOOLEAN /\ died \in BOOLEAN /\ died' = died
    BY <1>1, <1>3 DEF TypeOK, Advance
  <2>2. failed' = failed \/ failed' = TRUE
    BY <1>1, Zenon DEF Advance, Done, Fail
  <2>3. QED BY <2>1, <2>2
<1>12. again' = {}
  <2>1. Restarting
    BY DEF Inv
  <2>2. QED BY <1>1, <2>1 DEF Advance, Restarting
<1>8. TypeOK'
  <2>1. /\ cmd \in {"none", "start", "stop", "restart", "enable", "disable", "scale"} \cup Backups
        /\ off \in {"no", "all", "core"}
    BY <1>3 DEF TypeOK
  <2>2. installed' \subseteq Unit /\ enabled' \subseteq Unit /\ active' \subseteq Unit
    BY <1>4, <1>5, <1>6
  <2>3. again' \subseteq Unit
    BY <1>12
  <2>4. QED BY <1>2, <1>4, <1>7, <2>1, <2>2, <2>3 DEF TypeOK, AnyStep
<1>9. Host'
  BY <1>3, <1>4, <1>6, <1>12 DEF Host
<1>10. Fitting'
  BY <1>2, <1>3, <1>4 DEF Fitting, StepsOf
<1>11. Restarting'
  BY <1>12 DEF Restarting
<1>13. QED
  BY <1>2, <1>8, <1>9, <1>10, <1>11

LEMMA AdvanceChecked ==
  ASSUME Inv, StartUnit \/ StopUnit \/ RestartUnit \/ BootUnit \/ OtherStep
  PROVE  Checked'
<1>1. Advance
  BY StepAdvances
<1>2. /\ Head(todo) \in StepsOf(cmd) /\ Left' \subseteq Left /\ Head(todo) \in Left
      /\ Left = {Head(todo)} \cup Left' \/ Left' = {}
      /\ cmd \in {"start", "stop", "restart", "enable", "disable", "scale"} \cup Backups
  BY <1>1, AdvanceLeft
<1>3. Checked /\ todo \in Seq(AnyStep) /\ todo # <<>> /\ InOrder(todo)
  BY <1>1 DEF Inv, TypeOK, AnyStep, Ordered, Advance
<1>4. cmd' = cmd
  BY <1>1 DEF Advance
<1>5. /\ Head(todo) \in {Check, Export} \cup Starts => Left \cap Stops = {}
      /\ Head(todo) \in {Extras} \cup Starts => Export \notin Left
  BY <1>3, HeadFirst
<1>6. ASSUME cmd \in Cold, Stops \cap Left' # {} PROVE {Check, Export} \subseteq Left'
  <2>1. Stops \cap Left # {} /\ Left = {Head(todo)} \cup Left'
    BY <1>2, <1>6
  <2>2. {Check, Export} \subseteq Left /\ Head(todo) \notin {Check, Export}
    BY <1>3, <1>5, <1>6, <2>1 DEF Checked
  <2>3. QED BY <2>1, <2>2
<1>7. ASSUME cmd \in Cold, failed', Export \in Left' PROVE Check \in Left'
  <2>1. Left = {Head(todo)} \cup Left' /\ Export \in Left /\ todo' # <<>>
    <3>1. todo' # <<>>
      BY <1>7, NoStep DEF Left
    <3>2. QED BY <1>2, <1>7, <3>1
  <2>2. Head(todo) \notin {Extras} \cup Starts
    BY <1>5, <2>1
  <2>3. \/ Head(todo) \in Stops
        \/ Head(todo) \in {"prepare", "check", "export", "extras"} \X {Nothing}
    BY <1>2, <1>7, <2>2, StepsOfEach
  <2>4. CASE Head(todo) \in Stops
    BY <1>2, <1>3, <1>7, <2>1, <2>4, DeedsApart DEF Checked
  <2>5. CASE Head(todo) \in {"prepare", "check", "export", "extras"} \X {Nothing}
    <3>1. Head(todo)[1] \in {"prepare", "check", "export"}
      BY <2>2, <2>5 DEF Extras
    <3>2. ~ Fail
      BY <2>1, <3>1, FailEnds
    <3>3. Done
      BY <1>1, <3>2 DEF Advance
    <3>4. failed' = failed
      BY <3>3 DEF Done
    <3>5. failed
      BY <1>7, <3>4, Zenon
    <3>6. Check \in Left
      BY <1>3, <1>7, <2>1, <3>5, Zenon DEF Checked
    <3>7. Head(todo) # Check
      <4>1. ASSUME Head(todo) = Check PROVE FALSE
        <5>1. Head(todo)[1] = "check"
          BY <4>1 DEF Check
        <5>2. OtherStep
          BY <5>1 DEF StartUnit, StopUnit, RestartUnit, BootUnit
        <5>3. todo' = <<>>
          BY <3>5, <5>1, <5>2, OtherEffect, Zenon
        <5>4. QED BY <2>1, <5>3
      <4>2. QED BY <4>1
    <3>8. QED BY <2>1, <3>6, <3>7
  <2>6. QED BY <2>3, <2>4, <2>5
<1>8. QED
  BY <1>4, <1>6, <1>7, Zenon DEF Checked


\* Which action takes a step.
LEMMA ActionOf ==
  ASSUME StartUnit \/ StopUnit \/ RestartUnit \/ BootUnit \/ OtherStep
  PROVE  /\ Head(todo)[1] \in {"start", "enable --now"} => StartUnit
         /\ Head(todo)[1] \in {"stop", "disable --now"} => StopUnit
         /\ Head(todo)[1] = "restart" => RestartUnit
         /\ Head(todo)[1] \in {"enable", "disable"} => BootUnit
         /\ Head(todo)[1] \in {"reload", "prepare", "check", "export", "extras"} => OtherStep
BY StopEffect, BootEffect, OtherEffect DEF StartUnit, RestartUnit

\* While services are stopped there are steps of few kinds.
LEMMA HaltingSteps ==
  ASSUME Inv, Halting, StartUnit \/ StopUnit \/ RestartUnit \/ BootUnit \/ OtherStep
  PROVE  \/ Head(todo) \in Stops /\ StopUnit
         \/ Head(todo) \notin Stops \cup Starts /\ OtherStep
<1>1. Advance
  BY StepAdvances
<1>2. Head(todo) \in StepsOf(cmd)
  BY <1>1, AdvanceLeft
<1>3. todo \in Seq(AnyStep) /\ todo # <<>> /\ InOrder(todo)
  BY <1>1 DEF Inv, TypeOK, AnyStep, Ordered, Advance
<1>4. Head(todo) \in {Extras} \cup Starts => Export \notin Left
  BY <1>3, HeadFirst
<1>5. \/ Head(todo) \in Stops
      \/ Head(todo) \in {"prepare", "check", "export", "extras"} \X {Nothing}
  <2>1. CASE cmd = "stop"
    BY <1>2, <2>1, StepsOfEach
  <2>2. CASE cmd \in Cold /\ Export \in Left
    BY <1>2, <1>4, <2>2, StepsOfEach
  <2>3. QED BY <2>1, <2>2 DEF Halting
<1>6. CASE Head(todo) \in Stops
  <2>1. Head(todo)[1] = "stop"
    BY <1>6 DEF Stops
  <2>2. QED BY <1>6, <2>1, ActionOf
<1>7. CASE Head(todo) \in {"prepare", "check", "export", "extras"} \X {Nothing}
  <2>1. Head(todo)[1] \in {"prepare", "check", "export", "extras"}
    BY <1>7
  <2>2. OtherStep
    BY <2>1, ActionOf
  <2>3. Head(todo) \notin Stops \cup Starts
    BY <2>1 DEF Stops, Starts
  <2>4. QED BY <2>2, <2>3
<1>8. QED BY <1>5, <1>6, <1>7

LEMMA AdvanceStopped ==
  ASSUME Inv, StartUnit \/ StopUnit \/ RestartUnit \/ BootUnit \/ OtherStep
  PROVE  StopProgress'
<1> SUFFICES ASSUME Halting', ~failed', ~died'
             PROVE  /\ \A u \in (Counted' \cup {Server, DB}) \cap active' : <<"stop", u>> \in Left'
                    /\ active' \cap Instance("saline") # {} => <<"stop", Server>> \in Left'
  BY DEF StopProgress
<1>1. Advance
  BY StepAdvances
<1>2. ~failed /\ Done
  BY <1>1, Unfailed
<1>3. ~died /\ cmd' = cmd
  BY <1>1, Zenon DEF Advance
<1>4. Left = {Head(todo)} \cup Left'
  BY <1>1, <1>2, AdvanceLeft
<1>5. Halting
  BY <1>3, <1>4 DEF Halting
<1>6. /\ \A u \in (Counted \cup {Server, DB}) \cap active : <<"stop", u>> \in Left
      /\ active \cap Instance("saline") # {} => <<"stop", Server>> \in Left
  <2>1. StopProgress
    BY DEF Inv
  <2>2. QED BY <1>2, <1>3, <1>5, <2>1, Zenon DEF StopProgress
<1>7. CASE Head(todo) \in Stops /\ StopUnit
  <2>1. PICK u \in Unit : Head(todo) = <<"stop", u>>
    BY <1>7 DEF Stops
  <2>2. Head(todo)[1] = "stop" /\ Head(todo)[2] = u
    BY <2>1
  <2>3. enabled' = enabled /\ active' = active \ ({u} \cup RequiredBy(u))
    BY <1>7, <2>2, StopEffect
  <2>4. Counted' = Counted
    BY <2>3 DEF Counted, ReplicaCount
  <2>5. ASSUME NEW v, v # u, <<"stop", v>> \in Left PROVE <<"stop", v>> \in Left'
    <3>1. <<"stop", v>> # <<"stop", u>>
      BY <2>5
    <3>2. QED BY <1>4, <2>1, <2>5, <3>1
  <2>6. ASSUME NEW v \in (Counted' \cup {Server, DB}) \cap active' PROVE <<"stop", v>> \in Left'
    BY <1>6, <2>3, <2>4, <2>5
  <2>7. ASSUME active' \cap Instance("saline") # {} PROVE <<"stop", Server>> \in Left'
    BY <1>6, <2>3, <2>5, <2>7, BoundUnits
  <2>8. QED BY <2>6, <2>7
<1>8. CASE Head(todo) \notin Stops \cup Starts /\ OtherStep
  <2>1. active' = active /\ enabled' = enabled
    BY <1>8, OtherEffect
  <2>2. Counted' = Counted
    BY <2>1 DEF Counted, ReplicaCount
  <2>3. ASSUME NEW v, v \in Unit, <<"stop", v>> \in Left PROVE <<"stop", v>> \in Left'
    BY <1>4, <1>8, <2>3 DEF Stops
  <2>4. active \subseteq Unit /\ Server \in Unit
    BY DEF Inv, TypeOK, Unit
  <2>5. QED BY <1>6, <2>1, <2>2, <2>3, <2>4
<1>9. QED BY <1>5, <1>7, <1>8, HaltingSteps


LEMMA AdvanceStarted ==
  ASSUME Inv, StartUnit \/ StopUnit \/ RestartUnit \/ BootUnit \/ OtherStep
  PROVE  StartProgress'
<1> SUFFICES ASSUME cmd' \in {"start", "backup"}, ~failed', ~died'
             PROVE  \A v \in Counted' \cup ({Server, DB} \cap installed') :
                      <<"start", v>> \in Left' \/ (v \in active' /\ Stops \cap Left' = {})
  BY DEF StartProgress
<1>1. Advance
  BY StepAdvances
<1>2. ~failed /\ Done
  BY <1>1, Unfailed
<1>3. ~died /\ cmd' = cmd /\ installed' = installed
  BY <1>1, Zenon DEF Advance
<1>4. Left = {Head(todo)} \cup Left' /\ Head(todo) \in StepsOf(cmd)
  BY <1>1, <1>2, AdvanceLeft
<1>5. \A v \in Counted \cup ({Server, DB} \cap installed) :
        <<"start", v>> \in Left \/ (v \in active /\ Stops \cap Left = {})
  <2>1. StartProgress
    BY DEF Inv
  <2>2. QED BY <1>2, <1>3, <2>1, Zenon DEF StartProgress
<1>6. \/ Head(todo) \in Starts \/ Head(todo) \in Stops
      \/ Head(todo) \in {"prepare", "check", "export", "extras"} \X {Nothing}
  BY <1>3, <1>4, StepsOfEach DEF Cold
<1>7. CASE Head(todo) \in Starts
  <2>1. PICK u \in Unit : Head(todo) = <<"start", u>>
    BY <1>7 DEF Starts
  <2>2. Head(todo)[1] = "start" /\ Head(todo)[2] = u
    BY <2>1
  <2>3. StartUnit
    BY <2>2, ActionOf
  <2>4. active \subseteq active' /\ u \in active' /\ enabled' = enabled
    BY <2>2, <2>3, StartEffect
  <2>5. Counted' = Counted
    BY <2>4 DEF Counted, ReplicaCount
  <2>6. Stops \cap Left = {}
    <3>1. todo \in Seq(AnyStep) /\ todo # <<>> /\ InOrder(todo)
      BY <1>1 DEF Inv, TypeOK, AnyStep, Ordered, Advance
    <3>2. QED BY <1>7, <3>1, HeadFirst
  <2>7. ASSUME NEW v, <<"start", v>> \in Left PROVE v \in active' \/ <<"start", v>> \in Left'
    <3>1. <<"start", v>> = <<"start", u>> => v = u
      OBVIOUS
    <3>2. QED BY <1>4, <2>1, <2>4, <2>7, <3>1
  <2>8. Stops \cap Left' = {}
    BY <1>4, <2>6
  <2>9. QED BY <1>3, <1>5, <2>4, <2>5, <2>7, <2>8
<1>8. CASE Head(todo) \in Stops
  <2>1. Head(todo)[1] = "stop"
    BY <1>8 DEF Stops
  <2>2. StopUnit
    BY <2>1, ActionOf
  <2>3. enabled' = enabled
    BY <2>1, <2>2, StopEffect
  <2>4. Counted' = Counted
    BY <2>3 DEF Counted, ReplicaCount
  <2>5. Stops \cap Left # {}
    BY <1>4, <1>8
  <2>6. \A v : <<"start", v>> # Head(todo)
    BY <2>1
  <2>7. QED BY <1>3, <1>4, <1>5, <2>4, <2>5, <2>6
<1>9. CASE Head(todo) \in {"prepare", "check", "export", "extras"} \X {Nothing}
  <2>1. Head(todo)[1] \in {"prepare", "check", "export", "extras"}
    BY <1>9
  <2>2. OtherStep
    BY <2>1, ActionOf
  <2>3. active' = active /\ enabled' = enabled
    BY <2>2, OtherEffect
  <2>4. Counted' = Counted
    BY <2>3 DEF Counted, ReplicaCount
  <2>5. \A v : <<"start", v>> # Head(todo)
    BY <2>1
  <2>6. QED BY <1>3, <1>4, <1>5, <2>3, <2>4, <2>5
<1>10. QED BY <1>6, <1>7, <1>8, <1>9

LEMMA AdvanceDisabled ==
  ASSUME Inv, StartUnit \/ StopUnit \/ RestartUnit \/ BootUnit \/ OtherStep
  PROVE  DisableProgress' /\ Off'
<1>1. Advance
  BY StepAdvances
<1>2. cmd' = cmd /\ off' = off
  BY <1>1 DEF Advance
<1>3. /\ Head(todo) \in StepsOf(cmd)
      /\ cmd \in {"start", "stop", "restart", "enable", "disable", "scale"} \cup Backups
  BY <1>1, AdvanceLeft
<1>4. /\ Head(todo)[1] \in {"enable --now", "disable --now"} => cmd = "scale"
      /\ Head(todo)[1] = "enable" => cmd = "enable"
  BY <1>3, StepIs
<1>5. ASSUME cmd \notin {"enable", "scale"} PROVE enabled' \subseteq enabled
  <2>1. Head(todo)[1] \notin {"enable --now", "enable"}
    BY <1>4, <1>5
  <2>2. CASE StartUnit
    <3>1. Head(todo)[1] = "start"
      BY <2>1, <2>2 DEF StartUnit
    <3>2. Head(todo)[2] \in Unit
      BY <1>3, <3>1, StepIs DEF Starts
    <3>3. QED BY <2>1, <2>2, <3>2, StartEffect
  <2>3. CASE RestartUnit
    BY <2>3 DEF RestartUnit
  <2>4. QED BY <2>1, <2>2, <2>3, StopEffect, BootEffect, OtherEffect
<1>6. Off'
  <2>1. CASE off' = "all"
    <3>1. cmd \notin {"enable", "scale"} /\ Quiet(enabled)
      BY <1>2, <2>1 DEF Inv, Off
    <3>2. Quiet(enabled')
      BY <1>5, <3>1 DEF Quiet
    <3>3. QED BY <1>2, <3>1, <3>2 DEF Off, Quiet
  <2>2. QED BY <2>1 DEF Off
<1>7. DisableProgress'
  <2> SUFFICES ASSUME cmd = "disable", ~failed'
               PROVE  Quiet({u \in enabled' : <<"disable", u>> \notin Left'})
    BY <1>2 DEF DisableProgress, Quiet
  <2>1. ~failed /\ Done
    BY <1>1, Unfailed
  <2>2. Left = {Head(todo)} \cup Left'
    BY <1>1, <2>1, AdvanceLeft
  <2>3. Quiet({u \in enabled : <<"disable", u>> \notin Left})
    <3>1. DisableProgress
      BY DEF Inv
    <3>2. QED BY <2>1, <3>1, Zenon DEF DisableProgress
  <2>4. PICK u \in Unit : Head(todo) = <<"disable", u>>
    <3>1. StepsOf(cmd) = {"disable"} \X Unit
      BY StepsOfEach
    <3>2. Head(todo) \in {"disable"} \X Unit
      BY <1>3, <3>1, Zenon
    <3>3. QED BY <3>2
  <2>5. Head(todo)[1] = "disable" /\ Head(todo)[2] = u
    BY <2>4
  <2>6. BootUnit
    BY <2>5, ActionOf
  <2>7. enabled' = enabled \ {u}
    BY <2>5, <2>6, BootEffect
  <2>8. ASSUME NEW v \in enabled', <<"disable", v>> \notin Left'
        PROVE  v \in enabled /\ <<"disable", v>> \notin Left
    <3>1. <<"disable", v>> # <<"disable", u>>
      BY <2>7, <2>8
    <3>2. QED BY <2>2, <2>4, <2>7, <2>8, <3>1
  <2>9. {v \in enabled' : <<"disable", v>> \notin Left'}
          \subseteq {v \in enabled : <<"disable", v>> \notin Left}
    BY <2>8
  <2>10. ASSUME NEW A, NEW B, A \subseteq B, Quiet(B) PROVE Quiet(A)
    BY <2>10 DEF Quiet
  <2>11. QED BY <2>3, <2>9, <2>10
<1>8. QED BY <1>6, <1>7

\* Every step of a command keeps the invariant.
LEMMA StepKeeps == Inv /\ Step => Inv'
<1> SUFFICES ASSUME Inv, Step PROVE Inv'
  OBVIOUS
<1>1. CASE StartUnit \/ StopUnit \/ RestartUnit \/ BootUnit \/ OtherStep
  BY <1>1, AdvanceTyped, AdvanceChecked, AdvanceStopped, AdvanceStarted, AdvanceDisabled DEF Inv
<1>2. CASE Return
  BY <1>2, ReturnKeeps
<1>3. CASE TakeDown
  BY <1>3, TakeDownKeeps
<1>4. QED BY <1>1, <1>2, <1>3 DEF Step


-----------------------------------------------------------------------------
(* The invariant *)

LEMMA InitInv == Init => Inv
<1> SUFFICES ASSUME Init PROVE Inv
  OBVIOUS
<1>1. /\ installed \in {Unit, Unit \ {DB}} /\ active = enabled /\ cmd = "none"
      /\ todo = <<>> /\ again = {} /\ failed = FALSE /\ died = FALSE /\ off = "no"
  BY DEF Init
<1>2. enabled \subseteq installed
  <2>1. PICK optional \in SUBSET (ReplicaUnits \cup {TFTP}) :
          enabled = optional \cup ({Server, DB} \cap installed)
    BY DEF Init
  <2>2. DB \notin ReplicaUnits /\ DB # TFTP
    BY ReplicasOf, UnitNames
  <2>3. ReplicaUnits \cup {TFTP} \subseteq Unit
    BY DEF Unit
  <2>4. QED BY <1>1, <2>1, <2>2, <2>3
<1>3. Left = {}
  BY <1>1, NoStep DEF Left
<1>4. TypeOK
  <2>1. installed \subseteq Unit /\ enabled \subseteq Unit /\ active \subseteq Unit
    BY <1>1, <1>2
  <2>2. todo \in Seq(Deed \X (Unit \cup {Nothing}))
    BY <1>1, NoStep DEF AnyStep
  <2>3. failed \in BOOLEAN /\ died \in BOOLEAN
    BY <1>1
  <2>4. QED BY <1>1, <2>1, <2>2, <2>3 DEF TypeOK
<1>5. Host
  BY <1>1, <1>2 DEF Host
<1>6. Fitting /\ Ordered
  BY <1>1, <1>3, NoStep DEF Fitting, Ordered
<1>7. Restarting /\ Checked /\ StopProgress /\ StartProgress /\ DisableProgress /\ Off
  BY <1>1 DEF Restarting, Checked, Cold, StopProgress, Halting, StartProgress, DisableProgress, Off
<1>8. QED BY <1>4, <1>5, <1>6, <1>7 DEF Inv

LEMMA StutterKeeps == Inv /\ UNCHANGED vars => Inv'
<1> SUFFICES ASSUME Inv, UNCHANGED vars PROVE Inv'
  OBVIOUS
<1>1. /\ installed' = installed /\ enabled' = enabled /\ active' = active /\ cmd' = cmd
      /\ todo' = todo /\ again' = again
  BY DEF vars
<1>2. failed' = failed /\ died' = died /\ off' = off
  BY DEF vars
<1>3. Left' = Left /\ Counted' = Counted
  BY <1>1 DEF Left, Counted, ReplicaCount
<1>4. TypeOK'
  BY <1>1, <1>2 DEF Inv, TypeOK
<1>5. Host' /\ Restarting' /\ Fitting'
  BY <1>1, <1>3 DEF Inv, Host, Restarting, Fitting, StepsOf
<1>6. Ordered'
  BY <1>1 DEF Inv, Ordered, InOrder, Starts, Stops, Precedes
<1>7. Checked'
  BY <1>1, <1>2, <1>3 DEF Inv, Checked
<1>8. StopProgress'
  BY <1>1, <1>2, <1>3 DEF Inv, StopProgress, Halting
<1>9. StartProgress'
  BY <1>1, <1>2, <1>3 DEF Inv, StartProgress
<1>10. DisableProgress' /\ Off'
  BY <1>1, <1>2, <1>3 DEF Inv, DisableProgress, Off, Quiet
<1>11. QED
  BY <1>4, <1>5, <1>6, <1>7, <1>8, <1>9, <1>10 DEF Inv

LEMMA NextKeeps == Inv /\ [Next]_vars => Inv'
<1>1. Inv /\ Next => Inv'
  BY StepKeeps, CommandKeeps, InterruptKeeps, WorldKeeps, RebootKeeps DEF Next
<1>2. QED BY <1>1, StutterKeeps

\* What a command has left tells what it has done, for any number of replicas.
THEOREM Invariant == Spec => []Inv
BY InitInv, NextKeeps, PTL DEF Spec

\* The variables keep their types: units stay units of the server, whatever is scaled.
THEOREM Typed == Spec => []TypeOK
<1>1. Inv => TypeOK
  BY DEF Inv
<1>2. QED BY <1>1, Invariant, PTL

-----------------------------------------------------------------------------
(* The properties *)

LEMMA InvColdExport == Inv => ColdExport
<1> SUFFICES ASSUME Inv, cmd \in {"backup", "backup --norestart"}, todo # <<>>, ~died,
                    Head(todo)[1] = "export"
             PROVE  active \cap Writers = {}
  BY DEF ColdExport
<1>1. todo \in Seq(AnyStep) /\ InOrder(todo) /\ Left \subseteq StepsOf(cmd) /\ cmd \in Cold
  BY DEF Inv, TypeOK, AnyStep, Ordered, Fitting, Cold
<1>2. Head(todo) \in Left
  BY <1>1, ElemsTail DEF Left
<1>3. Head(todo) = Export
  <2>1. /\ cmd \in {"start", "stop", "restart", "enable", "disable", "scale"} \cup Backups
        /\ Head(todo) \in StepsOf(cmd)
    BY <1>1, <1>2 DEF Backups
  <2>2. Head(todo)[2] = Nothing /\ Head(todo) = <<Head(todo)[1], Head(todo)[2]>>
    BY <2>1, StepIs
  <2>3. QED BY <2>2 DEF Export
<1>4. Check \notin Left /\ Stops \cap Left = {}
  BY <1>1, <1>3, HeadFirst
<1>5. ~failed
  <2>1. Checked
    BY DEF Inv
  <2>2. QED BY <1>1, <1>2, <1>3, <1>4, <2>1, Zenon DEF Checked
<1>6. Halting
  BY <1>1, <1>2, <1>3 DEF Halting
<1>7. /\ \A u \in (Counted \cup {Server, DB}) \cap active : <<"stop", u>> \in Left
      /\ active \cap Instance("saline") # {} => <<"stop", Server>> \in Left
  <2>1. StopProgress
    BY DEF Inv
  <2>2. QED BY <1>5, <1>6, <2>1, Zenon DEF StopProgress
<1>8. QED BY <1>4, <1>7, DeedsApart DEF Writers

\* While a backup that is not live exports its volumes nothing that writes to them runs, for
\* any number of replicas, counted or not.
THEOREM ExportIsCold == Spec => []ColdExport
BY Invariant, InvColdExport, PTL

\* A disabled stack stays down when the machine is rebooted: enabled is Quiet as long as
\* DisableServices is not undone, and nothing else is enabled when everything is counted.
THEOREM DisabledStaysDown == Spec => DisabledStackStaysDown
<1>1. ASSUME Inv, Reboot, off = "all", AllCounted PROVE active' = {}
  <2>1. Quiet(enabled) /\ enabled \subseteq Unit
    BY <1>1 DEF Inv, Off, TypeOK
  <2>2. Counted = enabled
    BY <1>1, <2>1, CountedEnabled
  <2>3. Counted = {}
    <3>1. ASSUME NEW u \in Counted PROVE FALSE
      <4>1. u \notin {Server, DB, TFTP}
        BY <2>1, <2>2, <3>1 DEF Quiet
      <4>2. u \in ReplicaUnits /\ u[2] < ReplicaCount(u[1])
        BY <3>1, <4>1 DEF Counted
      <4>3. PICK s \in Kind, k \in Index : u = <<s, k>>
        BY <4>2, ReplicasOf
      <4>4. u[1] = s /\ u[2] = k
        BY <4>3
      <4>5. k < ReplicaCount(s)
        BY <4>2, <4>4, Zenon
      <4>6. ReplicaCount(s) \in 0 .. MaxReplicas /\ MaxReplicas \in Nat
        BY CountedReplicas, MaxReplicasAssumption, Zenon
      <4>7. 0 \in 0 .. ReplicaCount(s) - 1
        BY <4>5, <4>6 DEF Index
      <4>8. <<s, 0>> \in enabled
        BY <4>7, CountedReplicas, Zenon
      <4>9. <<s, 0>> \notin enabled
        BY <2>1, Kinds DEF Quiet
      <4>10. QED BY <4>8, <4>9
    <3>2. QED BY <3>1
  <2>4. QED BY <1>1, <2>2, <2>3 DEF Reboot
<1>2. Inv /\ [Next]_vars => [Reboot /\ off = "all" /\ AllCounted => active' = {}]_vars
  BY <1>1
<1>3. QED BY <1>2, Invariant, PTL DEF Spec, DisabledStackStaysDown

\* A stop that returns without an error has stopped all that counts, unless a container died.
THEOREM StopsAll == Spec => StopReachesAll
<1>1. ASSUME Inv, Succeeds("stop"), ~died
      PROVE  active' \cap (Counted \cup {Server, DB}) = {}
  <2>1. cmd = "stop" /\ ~failed /\ todo = <<>> /\ active' = active
    BY <1>1 DEF Succeeds, Return
  <2>2. Left = {}
    BY <2>1, NoStep DEF Left
  <2>3. \A u \in (Counted \cup {Server, DB}) \cap active : <<"stop", u>> \in Left
    <3>1. StopProgress /\ Halting
      BY <1>1, <2>1 DEF Inv, Halting
    <3>2. QED BY <1>1, <2>1, <3>1, Zenon DEF StopProgress
  <2>4. QED BY <2>1, <2>2, <2>3
<1>2. Inv /\ [Next]_vars
        => [Succeeds("stop") /\ ~died => active' \cap (Counted \cup {Server, DB}) = {}]_vars
  BY <1>1
<1>3. QED BY <1>2, Invariant, PTL DEF Spec, StopReachesAll

LEMMA ReturnStarted ==
  ASSUME Inv, NEW c \in {"start", "backup"}, Succeeds(c), ~died
  PROVE  ({Server, DB} \cap installed) \cup Counted \subseteq active
<1>1. cmd = c /\ ~failed /\ todo = <<>>
  BY DEF Succeeds, Return
<1>2. Left = {}
  BY <1>1, NoStep DEF Left
<1>3. StartProgress
  BY DEF Inv
<1>4. \A u \in Counted \cup ({Server, DB} \cap installed) :
        <<"start", u>> \in Left \/ (u \in active /\ Stops \cap Left = {})
  BY <1>1, <1>3, Zenon DEF StartProgress
<1>5. QED BY <1>2, <1>4

\* A start that returns without an error has started all that counts, unless a container died.
THEOREM StartsAll == Spec => StartedMeansRunning
<1>1. Inv /\ [Next]_vars
        => [Succeeds("start") /\ ~died => ({Server, DB} \cap installed) \cup Counted \subseteq active]_vars
  BY ReturnStarted
<1>2. QED BY <1>1, Invariant, PTL DEF Spec, StartedMeansRunning

\* A backup that stops the services and restarts them leaves all that counts running.
THEOREM BackupStartsAgain == Spec => BackupRestarts
<1>1. Inv /\ [Next]_vars
        => [Succeeds("backup") /\ ~died => ({Server, DB} \cap installed) \cup Counted \subseteq active]_vars
  BY ReturnStarted
<1>2. QED BY <1>1, Invariant, PTL DEF Spec, BackupRestarts


\* A step that takes the database away from a running server fails, or comes after one
\* that failed.
LEMMA DBStays ==
  ASSUME Inv, StartUnit \/ StopUnit \/ RestartUnit \/ BootUnit \/ OtherStep,
         ~died, {Server, DB} \subseteq active, DB \notin active'
  PROVE  failed'
<1> SUFFICES ASSUME ~failed' PROVE FALSE
  OBVIOUS
<1>1. Advance /\ ~failed
  BY StepAdvances, Unfailed
<1>2. /\ Head(todo) \in StepsOf(cmd) /\ Head(todo) \in Left
      /\ cmd \in {"start", "stop", "restart", "enable", "disable", "scale"} \cup Backups
  BY <1>1, AdvanceLeft
<1>3. ~ Fail
  BY Zenon DEF Fail
<1>4. ~ RestartUnit
  BY RestartEffect DEF Inv
<1>5. StopUnit
  <2>1. ~ StartUnit
    BY DEF StartUnit
  <2>2. QED BY <1>4, <2>1, BootEffect, OtherEffect
<1>6. active' = active \ ({Head(todo)[2]} \cup RequiredBy(Head(todo)[2]))
  BY <1>5, StopEffect
<1>7. Head(todo)[1] \in {"stop", "disable --now"}
  BY <1>5 DEF StopUnit
<1>8. Head(todo)[2] \in Unit
  <2>1. Head(todo)[1] = "stop" => Head(todo) \in Stops
    BY <1>2, StepIs
  <2>2. Head(todo)[1] = "disable --now" => Head(todo)[2] \in ReplicaUnits
    BY <1>2, StepIs
  <2>3. Head(todo) \in Stops => Head(todo)[2] \in Unit
    BY DEF Stops
  <2>4. QED BY <1>7, <2>1, <2>2, <2>3 DEF Unit
<1>9. Head(todo)[2] = DB
  <2>1. DB \notin Instance("saline")
    BY ReplicasOf, UnitNames DEF Kind
  <2>2. DB \notin RequiredBy(Head(todo)[2])
    BY <1>8, <2>1, BoundUnits
  <2>3. QED BY <1>6, <2>2
<1>10. Head(todo) = <<"stop", DB>> /\ Head(todo) \in Stops /\ cmd \in {"stop"} \cup Cold
  <2>1. DB \notin ReplicaUnits
    BY ReplicasOf, UnitNames
  <2>2. Head(todo)[1] = "stop"
    BY <1>2, <1>7, <1>9, <2>1, StepIs
  <2>3. Head(todo) = <<Head(todo)[1], Head(todo)[2]>>
    BY <1>2, StepIs
  <2>4. QED BY <1>2, <1>9, <2>2, <2>3, StepIs
<1>11. Halting
  <2>1. cmd \in Cold => Export \in Left
    BY <1>2, <1>10 DEF Inv, Checked
  <2>2. QED BY <1>10, <2>1 DEF Halting
<1>12. <<"stop", Server>> \in Left
  <2>1. StopProgress
    BY DEF Inv
  <2>2. \A u \in (Counted \cup {Server, DB}) \cap active : <<"stop", u>> \in Left
    BY <1>1, <1>11, <2>1, Zenon DEF StopProgress
  <2>3. QED BY <2>2
<1>13. <<"stop", Server>> \notin Left
  <2>1. todo \in Seq(AnyStep) /\ todo # <<>> /\ InOrder(todo)
    BY <1>1 DEF Inv, TypeOK, AnyStep, Ordered, Advance
  <2>2. QED BY <1>10, <2>1, HeadFirst
<1>14. QED BY <1>12, <1>13

\* No step of a command but the restart of the database takes the database away from a
\* running server: it is always asked to stop after the server, and no replica takes it along.
THEOREM DatabaseOutlives == Spec => DBOutlivesServer
<1>1. ASSUME Inv, Next, cmd # "none", cmd' = cmd, ~died', ~RestartsDB,
             {Server, DB} \subseteq active, DB \notin active'
      PROVE  failed'
  <2>1. ~ Return /\ ~ Interrupt /\ ~ Reboot
    BY <1>1 DEF Return, Interrupt, Reboot
  <2>2. ~ UnitDies /\ ~ UnitRestarts
    BY <1>1, Zenon DEF UnitDies, UnitRestarts
  <2>3. ~ Command
    BY <1>1 DEF Command, Begin
  <2>4. ~ TakeDown
    <3> SUFFICES ASSUME TakeDown PROVE FALSE
      OBVIOUS
    <3>1. /\ todo # <<>> /\ Head(todo)[1] = "restart"
          /\ active' = active \ ({Head(todo)[2]} \cup RequiredBy(Head(todo)[2]))
      BY DEF TakeDown
    <3>2. todo \in Seq(AnyStep) /\ Left \subseteq StepsOf(cmd)
          /\ cmd \in {"start", "stop", "restart", "enable", "disable", "scale"} \cup Backups
      BY <1>1 DEF Inv, TypeOK, AnyStep, Fitting
    <3>3. Head(todo) \in StepsOf(cmd)
      BY <3>1, <3>2, ElemsTail DEF Left
    <3>4. Head(todo)[2] \in Unit /\ Head(todo) = <<Head(todo)[1], Head(todo)[2]>>
      BY <3>1, <3>2, <3>3, StepIs
    <3>5. DB \notin RequiredBy(Head(todo)[2])
      BY <3>4, ReplicasOf, UnitNames, BoundUnits DEF Kind
    <3>6. Head(todo)[2] = DB
      BY <1>1, <3>1, <3>5
    <3>7. QED BY <1>1, <3>1, <3>4, <3>6 DEF RestartsDB
  <2>5. StartUnit \/ StopUnit \/ RestartUnit \/ BootUnit \/ OtherStep
    BY <1>1, <2>1, <2>2, <2>3, <2>4 DEF Next, Step
  <2>6. ~died
    BY <2>5, StepAdvances, <1>1, Zenon DEF Advance
  <2>7. QED BY <1>1, <2>5, <2>6, DBStays
<1>2. Inv /\ [Next]_vars
        => [(cmd # "none" /\ cmd' = cmd /\ ~died' /\ ~RestartsDB)
              => ({Server, DB} \subseteq active /\ DB \notin active' => failed')]_vars
  BY <1>1
<1>3. QED BY <1>2, Invariant, PTL DEF Spec, DBOutlivesServer

=============================================================================
