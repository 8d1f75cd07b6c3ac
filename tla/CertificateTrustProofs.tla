------------------------ MODULE CertificateTrustProofs ------------------------
(***************************************************************************)
(* What the certificates of CertificateRotation are worth: that secrets    *)
(* belong together, that a rotation serves and that nobody loses trust.    *)
(***************************************************************************)
EXTENDS CertificateProofs

-----------------------------------------------------------------------------
(* The secrets a command has yet to replace *)

LEMMA ElemsOfTail ==
  ASSUME NEW S, NEW s \in Seq(S), s # <<>>
  PROVE  /\ Elems(s) = {Head(s)} \cup Elems(Tail(s))
         /\ Len(s) = 1 => Elems(s) = {Head(s)}
<1>1. /\ DOMAIN s = 1 .. Len(s) /\ Len(s) \in Nat \ {0} /\ Head(s) = s[1]
      /\ DOMAIN Tail(s) = 1 .. (Len(s) - 1)
      /\ \A i \in 1 .. (Len(s) - 1) : Tail(s)[i] = s[i + 1]
  OBVIOUS
<1>2. ASSUME NEW x \in Elems(s) PROVE x = Head(s) \/ x \in Elems(Tail(s))
  <2>1. PICK i \in 1 .. Len(s) : x = s[i]
    BY <1>1, <1>2 DEF Elems
  <2>2. CASE i = 1
    BY <1>1, <2>1, <2>2
  <2>3. CASE i # 1
    <3>1. i - 1 \in DOMAIN Tail(s) /\ Tail(s)[i - 1] = x
      BY <1>1, <2>1, <2>3
    <3>2. QED
      BY <3>1 DEF Elems
  <2>4. QED
    BY <2>2, <2>3
<1>3. Head(s) \in Elems(s)
  <2>1. 1 \in DOMAIN s
    BY <1>1
  <2>2. QED
    BY <1>1, <2>1 DEF Elems
<1>4. ASSUME NEW x \in Elems(Tail(s)) PROVE x \in Elems(s)
  <2>1. PICK i \in DOMAIN Tail(s) : x = Tail(s)[i]
    BY <1>4 DEF Elems
  <2>2. i + 1 \in DOMAIN s /\ s[i + 1] = x
    BY <1>1, <2>1
  <2>3. QED
    BY <2>2 DEF Elems
<1>5. Len(s) = 1 => \A x \in Elems(Tail(s)) : FALSE
  BY <1>1 DEF Elems
<1>6. QED
  BY <1>2, <1>3, <1>4, <1>5

LEMMA ElemsOfBoth ==
  ASSUME NEW S, NEW s \in Seq(S), NEW t \in Seq(S)
  PROVE  Elems(s \o t) = Elems(s) \cup Elems(t)
<1>1. /\ DOMAIN s = 1 .. Len(s) /\ DOMAIN t = 1 .. Len(t) /\ Len(s) \in Nat /\ Len(t) \in Nat
      /\ DOMAIN (s \o t) = 1 .. (Len(s) + Len(t))
      /\ \A i \in 1 .. Len(s) : (s \o t)[i] = s[i]
      /\ \A i \in 1 .. Len(t) : (s \o t)[Len(s) + i] = t[i]
  OBVIOUS
<1>2. ASSUME NEW x \in Elems(s \o t) PROVE x \in Elems(s) \cup Elems(t)
  <2>1. PICK i \in 1 .. (Len(s) + Len(t)) : x = (s \o t)[i]
    BY <1>1, <1>2 DEF Elems
  <2>2. CASE i \in 1 .. Len(s)
    BY <1>1, <2>1, <2>2 DEF Elems
  <2>3. CASE i \notin 1 .. Len(s)
    <3>1. i - Len(s) \in DOMAIN t /\ x = t[i - Len(s)]
      BY <1>1, <2>1, <2>3
    <3>2. QED
      BY <3>1 DEF Elems
  <2>4. QED
    BY <2>2, <2>3
<1>3. ASSUME NEW x \in Elems(s) PROVE x \in Elems(s \o t)
  <2>1. PICK i \in DOMAIN s : x = s[i]
    BY <1>3 DEF Elems
  <2>2. i \in DOMAIN (s \o t) /\ (s \o t)[i] = x
    BY <1>1, <2>1
  <2>3. QED
    BY <2>2 DEF Elems
<1>4. ASSUME NEW x \in Elems(t) PROVE x \in Elems(s \o t)
  <2>1. PICK i \in DOMAIN t : x = t[i]
    BY <1>4 DEF Elems
  <2>2. Len(s) + i \in DOMAIN (s \o t) /\ (s \o t)[Len(s) + i] = x
    BY <1>1, <2>1
  <2>3. QED
    BY <2>2 DEF Elems
<1>5. QED
  BY <1>2, <1>3, <1>4

LEMMA ElemsOfFew ==
  /\ Elems(<<>>) = {}
  /\ \A x : Elems(<<x>>) = {x}
  /\ \A x, y : Elems(<<x, y>>) = {x, y}
  /\ \A x, y, z : Elems(<<x, y, z>>) = {x, y, z}
<1>1. Elems(<<>>) = {}
  BY DEF Elems
<1>2. ASSUME NEW x PROVE Elems(<<x>>) = {x}
  BY DEF Elems
<1>3. ASSUME NEW x, NEW y PROVE Elems(<<x, y>>) = {x, y}
  <2>1. DOMAIN <<x, y>> = {1, 2}
    OBVIOUS
  <2>2. QED
    BY <2>1 DEF Elems
<1>4. ASSUME NEW x, NEW y, NEW z PROVE Elems(<<x, y, z>>) = {x, y, z}
  <2>1. DOMAIN <<x, y, z>> = {1, 2, 3}
    OBVIOUS
  <2>2. QED
    BY <2>1 DEF Elems
<1>5. QED
  BY <1>1, <1>2, <1>3, <1>4

LEMMA ElemsOfAppend ==
  ASSUME NEW S, NEW s \in Seq(S), NEW x
  PROVE  Elems(Append(s, x)) = Elems(s) \cup {x}
<1>1. ASSUME NEW y \in Elems(s) PROVE y \in Elems(Append(s, x))
  <2>1. PICK i \in DOMAIN s : y = s[i]
    BY <1>1 DEF Elems
  <2>2. i \in DOMAIN Append(s, x) /\ Append(s, x)[i] = y
    BY <2>1
  <2>3. QED
    BY <2>2 DEF Elems
<1>2. x \in Elems(Append(s, x))
  <2>1. Len(s) + 1 \in DOMAIN Append(s, x) /\ Append(s, x)[Len(s) + 1] = x
    OBVIOUS
  <2>2. QED
    BY <2>1 DEF Elems
<1>3. ASSUME NEW y \in Elems(Append(s, x)) PROVE y \in Elems(s) \/ y = x
  <2>1. PICK i \in DOMAIN Append(s, x) : y = Append(s, x)[i]
    BY <1>3 DEF Elems
  <2>2. (i \in DOMAIN s /\ y = s[i]) \/ y = x
    BY <2>1
  <2>3. QED
    BY <2>2 DEF Elems
<1>4. QED
  BY <1>1, <1>2, <1>3

\* The three secrets of an owner.
LEMMA SecretsOf ==
  ASSUME NEW o \in Owner
  PROVE  Elems(TLSSecrets(o)) = {<<o, f>> : f \in Part}
<1>1. Elems(TLSSecrets(o)) = {<<o, "cert">>, <<o, "key">>, <<o, "ca">>}
  BY ElemsOfFew DEF TLSSecrets
<1>2. QED
  BY <1>1 DEF Part

LEMMA SecretsOfBoth ==
  Elems(TLSSecrets("server") \o TLSSecrets("db")) = Owner \X Part
<1>1. "server" \in Owner /\ "db" \in Owner
  BY DEF Owner
<1>2. Elems(TLSSecrets("server") \o TLSSecrets("db"))
        = Elems(TLSSecrets("server")) \cup Elems(TLSSecrets("db"))
  BY <1>1, SecretsTyped, ElemsOfBoth
<1>3. Owner \X Part = {<<"server", f>> : f \in Part} \cup {<<"db", f>> : f \in Part}
  BY DEF Owner
<1>4. QED
  BY <1>1, <1>2, <1>3, SecretsOf

-----------------------------------------------------------------------------
(* The secrets of an owner, as they will be when the command has written them *)

After(o, f) == IF <<o, f>> \in Elems(todo) THEN New(o, f) ELSE sec[o][f]

Sound(o) ==
  /\ After(o, "key") = After(o, "cert")
  /\ \A p \in After(o, "cert") : Covered(p, After(o, "ca"))

\* A command that does not write has nothing left to write.
Settled == pc # "put" => todo = <<>>

LEMMA SoundKept ==
  ASSUME NEW o, sec' = sec,
         UNCHANGED writing \/ (todo = <<>> /\ todo' = <<>>)
  PROVE  Sound(o)' <=> Sound(o)
<1>1. ASSUME NEW f PROVE After(o, f)' = After(o, f)
  <2>1. CASE UNCHANGED writing
    <3>1. todo' = todo /\ pair' = pair /\ bundle' = bundle
      BY <2>1, Zenon DEF writing
    <3>2. QED
      BY <3>1 DEF After, New
  <2>2. CASE todo = <<>> /\ todo' = <<>>
    BY <2>2, ElemsOfFew DEF After
  <2>3. QED
    BY <2>1, <2>2
<1>2. QED
  BY <1>1, Zenon DEF Sound, Covered

\* A command that is about to write a pair and the CA it comes from.
LEMMA SoundWritten ==
  ASSUME NEW o \in Owner, NEW p, \A f \in Part : <<o, f>> \in Elems(todo'),
         pair' = {p}, p.ca \in Elems(bundle'[o])
  PROVE  Sound(o)'
<1>1. \A f \in Part : After(o, f)' = New(o, f)'
  BY DEF After
<1>2. "cert" \in Part /\ "key" \in Part /\ "ca" \in Part
  BY DEF Part
<1>3. /\ After(o, "cert")' = {p} /\ After(o, "key")' = {p}
      /\ After(o, "ca")' = bundle'[o]
  BY <1>1, <1>2 DEF New
<1>4. QED
  BY <1>3 DEF Sound, Covered

\* One whose secrets it does not write.
LEMMA SoundOther ==
  ASSUME NEW o, todo = <<>>, sec' = sec, \A f : <<o, f>> \notin Elems(todo')
  PROVE  Sound(o)' <=> Sound(o)
<1>1. ASSUME NEW f PROVE After(o, f)' = After(o, f)
  BY ElemsOfFew DEF After
<1>2. QED
  BY <1>1, Zenon DEF Sound, Covered

\* Writing a secret gets closer to what was meant.
LEMMA AfterPut ==
  ASSUME TypeOK, todo # <<>>, NEW o \in Owner, NEW f \in Part, Head(todo) = <<o, f>>,
         sec' = [sec EXCEPT ![o][f] = New(o, f)],
         \/ Len(todo) = 1 /\ todo' = <<>>
         \/ todo' = Tail(todo) /\ pair' = pair /\ bundle' = bundle,
         NEW q \in Owner, NEW g \in Part
  PROVE  After(q, g)' = After(q, g)
<1>0. SecretsOK /\ WritingOK
  BY TypeParts
<1>1. /\ Elems(todo) = {<<o, f>>} \cup Elems(Tail(todo))
      /\ Len(todo) = 1 => Elems(todo) = {<<o, f>>}
  BY <1>0, ElemsOfTail DEF WritingOK
<1>2. sec'[q][g] = IF <<q, g>> = <<o, f>> THEN New(o, f) ELSE sec[q][g]
  <2>1. sec[o] \in Stored /\ DOMAIN sec = Owner
    BY <1>0 DEF SecretsOK
  <2>2. f \in DOMAIN sec[o]
    BY <2>1 DEF Stored, Part
  <2>3. QED
    BY <1>0, <2>1, <2>2 DEF SecretsOK
<1>3. CASE Len(todo) = 1 /\ todo' = <<>>
  <2>1. After(q, g)' = sec'[q][g]
    BY <1>3, ElemsOfFew DEF After
  <2>2. After(q, g) = IF <<q, g>> = <<o, f>> THEN New(q, g) ELSE sec[q][g]
    BY <1>1, <1>3 DEF After
  <2>3. QED
    BY <1>2, <2>1, <2>2
<1>4. CASE todo' = Tail(todo) /\ pair' = pair /\ bundle' = bundle
  <2>1. Elems(todo') = Elems(Tail(todo))
    BY <1>4
  <2>2. New(q, g)' = New(q, g)
    BY <1>4 DEF New
  <2>3. QED
    BY <1>1, <1>2, <2>1, <2>2 DEF After
<1>5. QED
  BY <1>3, <1>4

LEMMA SoundPut ==
  ASSUME \A q \in Owner, g \in Part : After(q, g)' = After(q, g), NEW q \in Owner
  PROVE  Sound(q)' <=> Sound(q)
<1>1. "cert" \in Part /\ "key" \in Part /\ "ca" \in Part
  BY DEF Part
<1>2. QED
  BY <1>1, Zenon DEF Sound, Covered

LEMMA SettledStep == Typed /\ Settled /\ [Next]_vars => Settled'
<1> SUFFICES ASSUME Typed, Settled, [Next]_vars PROVE Settled'
  OBVIOUS
<1>1. CASE pc' = "put"
  BY <1>1 DEF Settled
<1>2. CASE todo' = <<>>
  BY <1>2 DEF Settled
<1>3. CASE pc # "put" /\ UNCHANGED writing
  BY <1>2, <1>3, Zenon DEF Settled, writing
<1>4. CASE UNCHANGED <<pc, writing>>
  BY <1>4, Zenon DEF Settled, writing
<1>5. CASE Abort \/ Succeed
  BY <1>2, <1>5, Zenon DEF Abort, Succeed, Finish
<1>6. ASSUME NEW secrets, NEW then, PutAll(secrets, then) PROVE pc' = "put"
  BY <1>6, Zenon DEF PutAll, Goto
<1>7. CASE ThirdParty
  <2>1. pc # "put"
    BY <1>7, Zenon DEF ThirdParty, ReadChain, SortNext, SortMissing, SortDone, ProvidedDone
  <2>2. Invalid => Abort \/ UNCHANGED writing
    BY Zenon DEF Invalid, writing
  <2>3. QED
    BY <1>1, <1>3, <1>5, <1>6, <1>7, <2>1, <2>2, Zenon
       DEF ThirdParty, ReadChain, SortNext, SortMissing, SortDone, ProvidedDone, Kept
<1>8. CASE Prepare
  <2>1. pc # "put"
    BY <1>8, Zenon DEF Prepare, BeginSetup, BeginRename, Reuse, Decide, Issue, StopServer,
                       AlterName, Begin
  <2>2. QED
    BY <1>1, <1>3, <1>5, <1>6, <1>8, <2>1, Zenon
       DEF Prepare, BeginSetup, BeginRename, Reuse, Decide, Issue, StopServer,
           AlterName, Begin, Kept
<1>9. CASE \/ BeginAdd \/ Generate \/ AppendCA \/ BeginRotate \/ Fingerprint \/ CheckClients
           \/ Switch \/ Promote
  <2>1. pc # "put"
    BY <1>9, Zenon DEF BeginAdd, Generate, AppendCA, BeginRotate, Fingerprint, CheckClients,
                       Switch, Promote, Begin
  <2>2. QED
    BY <1>1, <1>3, <1>5, <1>6, <1>9, <2>1, Zenon
       DEF BeginAdd, Generate, AppendCA, BeginRotate, Fingerprint, CheckClients, Switch,
           Promote, Begin, Kept
<1>10. CASE Put
  BY <1>1, <1>2, <1>5, <1>10, Zenon DEF Put, Written, Goto
<1>11. CASE RestartDB \/ RestartServer \/ UpdateTrust
  <2>1. pc # "put"
    BY <1>11, Zenon DEF RestartDB, RestartServer, UpdateTrust
  <2>2. QED
    BY <1>3, <1>5, <1>11, <2>1, Zenon DEF RestartDB, RestartServer, UpdateTrust, Kept
<1>12. CASE Interrupt
  BY <1>5, <1>12, Zenon DEF Interrupt
<1>13. CASE Reboot \/ (\E c \in Client : Distribute(c)) \/ UNCHANGED vars
  BY <1>4, <1>13, Zenon DEF Reboot, Distribute, Kept, vars
<1>14. QED
  BY <1>7, <1>8, <1>9, <1>10, <1>11, <1>12, <1>13, Zenon DEF Next, Work, Rotate

-----------------------------------------------------------------------------
(* Secrets that belong together *)

\* Where an error of the server's certificates waits for those of the database.
Owed == {"dbchain", "dbwalk", "provided"}

\* A rotation that has got this far has written the secrets of the owner.
Renewed(o) ==
  IF o = "server" THEN {"dbchain", "dbwalk", "provided", "restartdb", "restart", "trust"}
  ELSE {"provided", "restartdb", "restart", "trust"}

Fitting ==
  /\ err => Ahead \in Owed
  /\ ~botched /\ ~err => \A o \in Owner : Sound(o)
  /\ cmd = "rotate" /\ ~err => \A o \in Owner : Ahead \in Renewed(o) => Sound(o)

\* A step that leaves the secrets and what is to be written to them.
LEMMA FittingKept ==
  ASSUME Fitting, sec' = sec, UNCHANGED writing \/ (todo = <<>> /\ todo' = <<>>),
         botched' = botched, cmd' = cmd, err' = err,
         err => Ahead' \in Owed,
         cmd = "rotate" => \A o \in Owner : Ahead' \in Renewed(o) => Ahead \in Renewed(o)
  PROVE  Fitting'
<1>1. \A o \in Owner : Sound(o)' <=> Sound(o)
  BY SoundKept
<1>2. err' => Ahead' \in Owed
  BY Zenon
<1>3. ~botched' /\ ~err' => \A o \in Owner : Sound(o)'
  BY <1>1, Zenon DEF Fitting
<1>4. cmd' = "rotate" /\ ~err' => \A o \in Owner : Ahead' \in Renewed(o) => Sound(o)'
  BY <1>1, Zenon DEF Fitting
<1>5. \A o : Renewed(o)' = Renewed(o)
  BY DEF Renewed
<1>6. Owed' = Owed
  BY DEF Owed
<1>7. QED
  BY <1>2, <1>3, <1>4, <1>5, <1>6, Zenon DEF Fitting


\* A command that begins has not renewed anything yet.
LEMMA FittingBegins ==
  ASSUME Typed, Settled, Fitting, BeginSetup \/ BeginRename \/ BeginAdd \/ BeginRotate
  PROVE  Fitting'
<1>1. pc = "idle" /\ sec' = sec /\ UNCHANGED writing /\ err' = err /\ botched' = botched
  BY Zenon DEF BeginSetup, BeginRename, BeginAdd, BeginRotate, Begin, Kept
<1>2. ~err
  BY <1>1 DEF Fitting, Ahead, Owed
<1>3. \A o \in Owner : Sound(o)' <=> Sound(o)
  BY <1>1, SoundKept
<1>4. ~botched' /\ ~err' => \A o \in Owner : Sound(o)'
  BY <1>1, <1>3, Zenon DEF Fitting
<1>5. cmd' = "rotate" => pc' \in {"chain", "generate", "fingerprint"}
  BY Zenon DEF BeginSetup, BeginRename, BeginAdd, BeginRotate, Begin
<1>6. cmd' = "rotate" => \A o \in Owner : Ahead' \notin Renewed(o)'
  BY <1>5 DEF Ahead, Renewed
<1>7. ~err'
  BY <1>1, <1>2, Zenon
<1>8. QED
  BY <1>4, <1>6, <1>7, Zenon DEF Fitting

\* One that ends has succeeded with all secrets together, or has failed.
LEMMA FittingEnds ==
  ASSUME Typed, Settled, Fitting, sec' = sec \/ Abort,
         Abort \/ (Succeed /\ pc \in {"switch", "restart", "trust"} /\ ~err
                   /\ (cmd = "rotate" /\ ~Set("checkonly") => pc = "trust"))
  PROVE  Fitting'
<1>1. cmd' = "none" /\ err' = FALSE /\ todo' = <<>>
  BY Zenon DEF Abort, Succeed, Finish
<1>2. CASE Abort
  <2>1. botched'
    BY <1>2, Zenon DEF Abort, Finish
  <2>2. QED
    BY <1>1, <2>1, Zenon DEF Fitting
<1>3. CASE ~Abort
  <2>1. todo = <<>>
    BY <1>3 DEF Settled
  <2>2. \A o \in Owner : Sound(o)' <=> Sound(o)
    BY <1>1, <1>3, <2>1, SoundKept
  <2>3. botched' = IF cmd = "rotate" /\ ~Set("checkonly") THEN FALSE
                   ELSE botched \/ (cmd = "addca" /\ Set("provided"))
    BY <1>3, Zenon DEF Succeed, Finish
  <2>4. CASE cmd = "rotate" /\ ~Set("checkonly")
    <3>1. pc = "trust" /\ ~err
      BY <1>3, <2>4, Zenon
    <3>2. \A o \in Owner : Ahead \in Renewed(o)
      BY <3>1 DEF Ahead, Renewed
    <3>3. \A o \in Owner : Sound(o)
      BY <2>4, <3>1, <3>2, Zenon DEF Fitting
    <3>4. QED
      BY <1>1, <2>2, <3>3, Zenon DEF Fitting
  <2>5. CASE ~(cmd = "rotate" /\ ~Set("checkonly"))
    <3>1. ~botched' => ~botched
      BY <2>3, <2>5, Zenon
    <3>2. ~err
      BY <1>3, Zenon
    <3>3. QED
      BY <1>1, <2>2, <3>1, <3>2, Zenon DEF Fitting
  <2>6. QED
    BY <2>4, <2>5
<1>4. QED
  BY <1>2, <1>3

\* A pair that is about to be written makes its owner's secrets sound.
LEMMA FittingWrites ==
  ASSUME Typed, Settled, Fitting, pc # "put", sec' = sec, botched' = botched, cmd' = cmd,
         err' = err, err => Ahead' \in Owed,
         NEW O \in SUBSET Owner, \A o \in O : Sound(o)',
         \A o \in Owner \ O : \A f : <<o, f>> \notin Elems(todo'),
         cmd = "rotate" => \A o \in Owner \ O : Ahead' \in Renewed(o) => Ahead \in Renewed(o)
  PROVE  Fitting'
<1>1. todo = <<>>
  BY DEF Settled
<1>2. \A o \in Owner \ O : Sound(o)' <=> Sound(o)
  BY <1>1, SoundOther
<1>3. ~botched' /\ ~err' => \A o \in Owner : Sound(o)'
  BY <1>2, Zenon DEF Fitting
<1>4. cmd' = "rotate" /\ ~err' => \A o \in Owner : Ahead' \in Renewed(o) => Sound(o)'
  BY <1>2, Zenon DEF Fitting
<1>5. (\A o : Renewed(o)' = Renewed(o)) /\ Owed' = Owed
  BY DEF Renewed, Owed
<1>6. QED
  BY <1>3, <1>4, <1>5, Zenon DEF Fitting

LEMMA FittingThirdParty ==
  ASSUME Typed, Settled, Fitting, ThirdParty
  PROVE  Fitting'
<1>0. /\ TypeOK /\ Phases /\ CallOK /\ WritingOK
      /\ pc \in {"chain", "dbchain", "walk", "dbwalk", "provided"}
  <2>1. pc \in {"chain", "dbchain", "walk", "dbwalk", "provided"}
    BY Zenon DEF ThirdParty, ReadChain, SortNext, SortMissing, SortDone, ProvidedDone
  <2>2. QED
    BY <2>1, TypeParts DEF Typed
<1>1. todo = <<>>
  BY <1>0 DEF Settled
<1>2. CASE Abort
  BY <1>2, FittingEnds
<1>3. CASE Invalid
  <2>1. CASE ~Abort
    <3>1. err' = TRUE /\ Goto("dbchain")
      BY <1>3, <2>1, Zenon DEF Invalid
    <3>2. pc' = "dbchain"
      BY <3>1, Zenon DEF Goto
    <3>3. Ahead' \in Owed'
      BY <3>2 DEF Ahead, Owed
    <3>4. QED
      BY <3>1, <3>3, Zenon DEF Fitting
  <2>2. QED
    BY <1>2, <2>1
<1>4. ASSUME NEW step, Goto(step), step # "put", Stay, UNCHANGED <<writing, err>>,
             err => step \in Owed,
             cmd = "rotate" => \A o \in Owner : step \in Renewed(o) => pc \in Renewed(o)
      PROVE  Fitting'
  <2>1. pc' = step /\ cmd' = cmd /\ botched' = botched
    BY <1>4, Zenon DEF Goto, args
  <2>2. Ahead' = step /\ Ahead = pc
    BY <1>0, <1>4, <2>1 DEF Ahead
  <2>3. sec' = sec /\ UNCHANGED writing /\ err' = err
    BY <1>4, Zenon DEF Stay
  <2>4. QED
    BY <1>4, <2>1, <2>2, <2>3, FittingKept
<1>5. err => pc \in Owed
  BY <1>0 DEF Fitting, Ahead
<1>6. CASE ReadChain /\ ~Invalid
  <2>1. /\ Goto(WalkOf(pc)) /\ Stay /\ UNCHANGED <<writing, err>> /\ pc \in {"chain", "dbchain"}
    BY <1>6, Zenon DEF ReadChain
  <2>2. WalkOf(pc) # "put"
    BY DEF WalkOf
  <2>3. err => WalkOf(pc) \in Owed
    BY <1>5, <2>1 DEF WalkOf, Owed
  <2>4. \A o \in Owner : WalkOf(pc) \in Renewed(o) => pc \in Renewed(o)
    BY <2>1 DEF WalkOf, Renewed
  <2>5. QED
    BY <1>4, <2>1, <2>2, <2>3, <2>4
<1>7. CASE SortNext
  BY <1>0, <1>4, <1>5, <1>7 DEF SortNext
<1>8. CASE SortDone /\ ~Invalid
  <2>1. /\ pair' = {Given(OwnerOf(pc))}
        /\ bundle' = [NoBundle EXCEPT ![OwnerOf(pc)] = <<Provided>>]
        /\ PutAll(TLSSecrets(OwnerOf(pc)), IF pc = "walk" THEN "dbchain" ELSE "provided")
        /\ Stay /\ err' = err /\ pc \in {"walk", "dbwalk"}
    BY <1>8, Zenon DEF SortDone
  <2>2. /\ todo' = TLSSecrets(OwnerOf(pc)) /\ Goto("put")
        /\ next' = IF pc = "walk" THEN "dbchain" ELSE "provided"
    BY <2>1, Zenon DEF PutAll
  <2>3. pc' = "put" /\ cmd' = cmd /\ botched' = botched /\ sec' = sec
    BY <2>1, <2>2, Zenon DEF Goto, args, Stay
  <2>4. PICK w \in Owner : w = OwnerOf(pc)
    BY DEF OwnerOf, Owner
  <2>5. Elems(todo') = {<<w, f>> : f \in Part}
    BY <2>2, <2>4, SecretsOf
  <2>6. Sound(w)'
    <3>1. bundle'[w] = <<Provided>>
      BY <2>1, <2>4 DEF NoBundle
    <3>2. Provided \in Elems(bundle'[w])
      BY <3>1, ElemsOfFew
    <3>3. Given(OwnerOf(pc)).ca = Provided
      BY DEF Given
    <3>4. \A p \in pair' : p.ca = Provided
      BY <2>1, <3>3
    <3>5. QED
      BY <2>1, <2>5, <3>2, <3>4, SoundWritten
  <2>7. Ahead' \in {"dbchain", "provided"} /\ (w = "server" => Ahead' = "dbchain")
    BY <2>1, <2>2, <2>3, <2>4 DEF Ahead, OwnerOf
  <2>8. err => Ahead' \in Owed
    BY <2>7 DEF Owed
  <2>9. {w} \in SUBSET Owner /\ \A o \in {w} : Sound(o)'
    BY <2>6
  <2>10. \A o \in Owner \ {w} : \A f : <<o, f>> \notin Elems(todo')
    BY <2>5
  <2>11. \A o \in Owner \ {w} : Ahead' \in Renewed(o) => Ahead \in Renewed(o)
    BY <2>1, <2>4, <2>7 DEF Ahead, Renewed, OwnerOf, Owner
  <2>12. pc # "put"
    BY <2>1
  <2>13. QED
    BY <2>1, <2>3, <2>8, <2>9, <2>10, <2>11, <2>12, FittingWrites
<1>9. CASE ProvidedDone
  <2>1. pc = "provided" /\ (Abort \/ (~err /\ Goto(IF cmd = "rotate" THEN "restartdb" ELSE "reuse") /\ Stay /\ Kept))
    BY <1>9, Zenon DEF ProvidedDone
  <2>2. UNCHANGED <<writing, err>> \/ Abort
    BY <2>1, Zenon DEF Kept
  <2>3. CASE cmd = "rotate"
    <3>1. \A o \in Owner : "restartdb" \in Renewed(o) => pc \in Renewed(o)
      BY <2>1 DEF Renewed
    <3>2. QED
      BY <1>2, <1>4, <2>1, <2>2, <2>3, <3>1
  <2>4. CASE cmd # "rotate"
    BY <1>2, <1>4, <2>1, <2>2, <2>4
  <2>5. QED
    BY <2>3, <2>4
<1>10. QED
  BY <1>2, <1>3, <1>6, <1>7, <1>8, <1>9, Zenon DEF ThirdParty, ReadChain, SortMissing, SortDone


LEMMA FittingPrepare ==
  ASSUME Typed, Settled, Fitting,
         Reuse \/ Decide \/ Issue \/ StopServer \/ AlterName
  PROVE  Fitting'
<1>0. /\ TypeOK /\ Phases /\ CallOK
      /\ pc \in {"reuse", "reusedb", "decide", "issue", "stop", "alter"}
  <2>1. pc \in {"reuse", "reusedb", "decide", "issue", "stop", "alter"}
    BY Zenon DEF Reuse, Decide, Issue, StopServer, AlterName
  <2>2. QED
    BY <2>1, TypeParts DEF Typed
<1>1. ~err /\ cmd # "rotate" /\ pc # "put"
  BY <1>0 DEF Fitting, Ahead, Owed, Phases, RotateSteps
<1>2. CASE Abort
  BY <1>2, FittingEnds
<1>3. ASSUME NEW step, Goto(step), sec' = sec, UNCHANGED <<writing, err>>
      PROVE  Fitting'
  <2>1. cmd' = cmd /\ botched' = botched
    BY <1>3, Zenon DEF Goto, args
  <2>2. err' = err /\ UNCHANGED writing
    BY <1>3, Zenon
  <2>3. QED
    BY <1>1, <1>3, <2>1, <2>2, FittingKept
<1>4. ASSUME NEW secrets, NEW then, PutAll(secrets, then), sec' = sec, err' = err,
             NEW O \in SUBSET Owner, Elems(secrets) = O \X Part, NEW p, pair' = {p},
             \A o \in O : p.ca \in Elems(bundle'[o])
      PROVE  Fitting'
  <2>1. todo' = secrets /\ cmd' = cmd /\ botched' = botched
    BY <1>4, Zenon DEF PutAll, Goto, args
  <2>2. \A o \in O : Sound(o)'
    BY <1>4, <2>1, SoundWritten
  <2>3. \A o \in Owner \ O : \A f : <<o, f>> \notin Elems(todo')
    BY <1>4, <2>1
  <2>4. QED
    BY <1>1, <1>4, <2>1, <2>2, <2>3, FittingWrites
<1>5. CASE Reuse
  <2>1. sec' = sec
    BY <1>5, Zenon DEF Reuse, Stay
  <2>2. CASE Goto(AfterReuse) /\ UNCHANGED <<writing, err>>
    BY <1>3, <2>1, <2>2
  <2>3. CASE /\ \E p \in files :
                  /\ p.host = fqdn /\ pair' = {p}
                  /\ bundle' = [NoBundle EXCEPT ![Reused] = <<p.ca>>]
             /\ PutAll(TLSSecrets(Reused), AfterReuse) /\ err' = err
    <3>1. PICK p \in files : /\ pair' = {p}
                             /\ bundle' = [NoBundle EXCEPT ![Reused] = <<p.ca>>]
      BY <2>3
    <3>2. PICK w \in Owner : w = Reused
      BY DEF Reused, Owner
    <3>3. Elems(TLSSecrets(w)) = {w} \X Part
      BY SecretsOf
    <3>4. bundle'[w] = <<p.ca>>
      BY <3>1, <3>2 DEF NoBundle
    <3>5. \A o \in {w} : p.ca \in Elems(bundle'[o])
      <4>1. Elems(<<p.ca>>) = {p.ca}
        BY ElemsOfFew
      <4>2. QED
        BY <3>4, <4>1
    <3>6. PutAll(TLSSecrets(w), AfterReuse) /\ {w} \in SUBSET Owner /\ err' = err
      BY <2>3, <3>2
    <3>7. QED
      BY <1>4, <2>1, <3>1, <3>3, <3>5, <3>6
  <2>4. QED
    BY <1>5, <2>2, <2>3, Zenon DEF Reuse, Kept
<1>6. CASE Decide
  BY <1>2, <1>3, <1>6, Zenon DEF Decide, Kept, Stay
<1>7. CASE Issue
  <2>1. CASE ~Abort
    <3>1. /\ pair' = {Issued(SetupCA, fqdn, issued + 1)}
          /\ bundle' = [o \in Owner |-> <<SetupCA>>]
          /\ PutAll(TLSSecrets("server") \o TLSSecrets("db"),
                    IF cmd = "rename" THEN "stop" ELSE "restartdb")
          /\ err' = err /\ sec' = sec
      BY <1>7, <2>1, Zenon DEF Issue
    <3>2. \A o \in Owner : SetupCA \in Elems(bundle'[o])
      <4>1. \A o \in Owner : bundle'[o] = <<SetupCA>>
        BY <3>1
      <4>2. QED
        BY <4>1, ElemsOfFew
    <3>3. Issued(SetupCA, fqdn, issued + 1).ca = SetupCA
      BY DEF Issued
    <3>4. QED
      BY <1>4, <3>1, <3>2, <3>3, SecretsOfBoth
  <2>2. QED
    BY <1>2, <2>1
<1>8. CASE StopServer \/ AlterName
  BY <1>2, <1>3, <1>8, Zenon DEF StopServer, AlterName, Kept
<1>9. QED
  BY <1>5, <1>6, <1>7, <1>8

\* A CA that is added leaves what the certificates need.
LEMMA FittingAppend ==
  ASSUME Typed, Settled, Fitting, AppendCA
  PROVE  Fitting'
<1>0. /\ TypeOK /\ Phases /\ CallOK /\ SecretsOK /\ pc = "append"
  <2>1. pc = "append"
    BY Zenon DEF AppendCA
  <2>2. QED
    BY <2>1, TypeParts DEF Typed
<1>1. ~err /\ cmd # "rotate" /\ todo = <<>>
  BY <1>0 DEF Fitting, Ahead, Owed, Phases, RotateSteps, Settled
<1>2. CASE Abort
  BY <1>2, FittingEnds
<1>3. CASE Goto("restartdb") /\ Kept
  <2>1. cmd' = cmd /\ botched' = botched /\ err' = err /\ UNCHANGED writing
    BY <1>3, Zenon DEF Goto, args, Kept
  <2>2. sec' = sec
    BY Zenon DEF AppendCA, Stay
  <2>3. QED
    BY <1>1, <2>1, <2>2, FittingKept
<1>4. CASE /\ bundle' = [o \in Owner |-> Append(sec[o].ca, NewCA)]
           /\ PutAll((IF Lacks("server") THEN << <<"server", "ca">> >> ELSE <<>>)
                       \o (IF Lacks("db") THEN << <<"db", "ca">> >> ELSE <<>>), "restartdb")
           /\ UNCHANGED <<pair, ready, err, chain, told>>
  <2>1. /\ cmd' = cmd /\ botched' = botched /\ err' = err /\ sec' = sec
        /\ todo' = (IF Lacks("server") THEN << <<"server", "ca">> >> ELSE <<>>)
                     \o (IF Lacks("db") THEN << <<"db", "ca">> >> ELSE <<>>)
    BY <1>4, Zenon DEF PutAll, Goto, args, AppendCA, Stay
  <2>2. \A o, f : <<o, f>> \in Elems(todo') => f = "ca"
    <3>1. PICK A \in {<<>>, << <<"server", "ca">> >>}, B \in {<<>>, << <<"db", "ca">> >>} :
            todo' = A \o B
      BY <2>1
    <3>2. A \in Seq(Owner \X Part) /\ B \in Seq(Owner \X Part)
      BY SecretsTyped
    <3>3. Elems(todo') = Elems(A) \cup Elems(B)
      BY <3>1, <3>2, ElemsOfBoth
    <3>4. \A x \in Elems(A) \cup Elems(B) : x = <<"server", "ca">> \/ x = <<"db", "ca">>
      BY ElemsOfFew
    <3>5. QED
      BY <3>3, <3>4
  <2>3. ASSUME NEW o \in Owner, Sound(o) PROVE Sound(o)'
    <3>1. /\ After(o, "key") = sec[o].key /\ After(o, "cert") = sec[o].cert
          /\ After(o, "ca") = sec[o].ca
      BY <1>1, ElemsOfFew DEF After
    <3>2. After(o, "key")' = sec[o].key /\ After(o, "cert")' = sec[o].cert
      BY <2>1, <2>2 DEF After
    <3>3. After(o, "ca")' = sec[o].ca \/ After(o, "ca")' = Append(sec[o].ca, NewCA)
      BY <1>4, <2>1 DEF After, New
    <3>4. Elems(sec[o].ca) \subseteq Elems(Append(sec[o].ca, NewCA))
      <4>1. sec[o].ca \in Seq(CA)
        BY <1>0 DEF SecretsOK, Stored
      <4>2. QED
        BY <4>1, ElemsOfAppend
    <3>5. QED
      BY <2>3, <3>1, <3>2, <3>3, <3>4 DEF Sound, Covered
  <2>4. ~botched' /\ ~err' => \A o \in Owner : Sound(o)'
    BY <2>1, <2>3, Zenon DEF Fitting
  <2>5. cmd' # "rotate" /\ ~err'
    BY <1>1, <2>1, Zenon
  <2>6. QED
    BY <2>4, <2>5, Zenon DEF Fitting
<1>5. QED
  BY <1>2, <1>3, <1>4, Zenon DEF AppendCA


LEMMA FittingRotate ==
  ASSUME Typed, Settled, Fitting,
         Generate \/ Fingerprint \/ CheckClients \/ Switch \/ Promote
  PROVE  Fitting'
<1>0. TypeOK /\ pc \in {"generate", "fingerprint", "check", "switch", "promote"}
  <2>1. pc \in {"generate", "fingerprint", "check", "switch", "promote"}
    BY Zenon DEF Generate, Fingerprint, CheckClients, Switch, Promote
  <2>2. QED
    BY <2>1 DEF Typed
<1>1. ~err /\ sec' = sec
  <2>1. ~err
    BY <1>0 DEF Fitting, Ahead, Owed
  <2>2. sec' = sec
    BY Zenon DEF Generate, Fingerprint, CheckClients, Switch, Promote, Stay
  <2>3. QED
    BY <2>1, <2>2
<1>2. CASE Abort
  BY <1>2, FittingEnds
<1>3. ASSUME NEW step \in {"append", "promote", "check", "switch", "chain"}, Goto(step),
             UNCHANGED <<writing, err>>
      PROVE  Fitting'
  <2>1. cmd' = cmd /\ botched' = botched /\ err' = err /\ UNCHANGED writing /\ pc' = step
    BY <1>3, Zenon DEF Goto, args
  <2>2. \A o \in Owner : Ahead' \notin Renewed(o)
    BY <2>1 DEF Ahead, Renewed
  <2>3. QED
    BY <1>1, <2>1, <2>2, FittingKept
<1>4. CASE Generate
  BY <1>2, <1>3, <1>4 DEF Generate, AfterGenerate, Kept
<1>5. CASE Fingerprint \/ CheckClients
  <2>1. Abort \/ ((Goto("check") \/ Goto("switch")) /\ UNCHANGED <<writing, err>>)
    BY <1>5, Zenon DEF Fingerprint, CheckClients, Kept
  <2>2. QED
    BY <1>2, <1>3, <2>1
<1>6. CASE Switch
  <2>1. CASE Set("checkonly") /\ Succeed
    <3>1. pc = "switch"
      BY <1>6, Zenon DEF Switch
    <3>2. QED
      BY <1>1, <2>1, <3>1, FittingEnds
  <2>2. CASE Goto(IF Set("provided") THEN "chain" ELSE "promote") /\ Kept
    <3>1. UNCHANGED <<writing, err>> /\ (Goto("chain") \/ Goto("promote"))
      BY <2>2 DEF Kept
    <3>2. QED
      BY <1>3, <3>1
  <2>3. QED
    BY <1>2, <1>6, <2>1, <2>2, Zenon DEF Switch
<1>7. CASE Promote
  <2>1. CASE ~Abort
    <3>1. /\ \E c \in staged : /\ pair' = {Issued(c, fqdn, issued + 1)}
                               /\ bundle' = [o \in Owner |-> <<c>>]
          /\ PutAll(TLSSecrets("server") \o TLSSecrets("db"), "restartdb")
          /\ err' = err
      BY <1>7, <2>1, Zenon DEF Promote
    <3>2. PICK c \in staged : /\ pair' = {Issued(c, fqdn, issued + 1)}
                              /\ bundle' = [o \in Owner |-> <<c>>]
      BY <3>1
    <3>3. /\ todo' = TLSSecrets("server") \o TLSSecrets("db")
          /\ cmd' = cmd /\ botched' = botched
      BY <3>1, Zenon DEF PutAll, Goto, args
    <3>4. \A o \in Owner : c \in Elems(bundle'[o])
      <4>1. Elems(<<c>>) = {c}
        BY ElemsOfFew
      <4>2. QED
        BY <3>2, <4>1
    <3>5. \A o \in Owner, f \in Part : <<o, f>> \in Elems(todo')
      BY <3>3, SecretsOfBoth
    <3>6. Issued(c, fqdn, issued + 1).ca = c
      BY DEF Issued
    <3>7. \A o \in Owner : Sound(o)'
      BY <3>2, <3>4, <3>5, <3>6, SoundWritten
    <3>8. QED
      BY <1>0, <1>1, <3>1, <3>3, <3>7, FittingWrites
  <2>2. QED
    BY <1>2, <2>1
<1>8. QED
  BY <1>4, <1>5, <1>6, <1>7

LEMMA FittingPut ==
  ASSUME Typed, Settled, Fitting, Put
  PROVE  Fitting'
<1>0. TypeOK /\ WritingOK /\ pc = "put" /\ todo # <<>> /\ Resumes
  <2>1. pc = "put" /\ todo # <<>>
    BY Zenon DEF Put
  <2>2. QED
    BY <2>1, TypeParts DEF Typed
<1>1. CASE Abort
  BY <1>1, FittingEnds
<1>2. PICK o \in Owner, f \in Part : o = Head(todo)[1] /\ f = Head(todo)[2] /\ Head(todo) = <<o, f>>
  BY <1>0, HeadTyped
<1>3. Ahead = next /\ next # "put"
  BY <1>0 DEF Ahead, Resumes
<1>4. CASE next = "dbchain" /\ err' = TRUE /\ Goto(next)
  <2>1. pc' = "dbchain"
    BY <1>4, Zenon DEF Goto
  <2>2. Ahead' \in Owed'
    BY <2>1 DEF Ahead, Owed
  <2>3. QED
    BY <1>4, <2>2, Zenon DEF Fitting
<1>5. CASE /\ sec' = [sec EXCEPT ![o][f] = New(o, f)] /\ err' = err
           /\ \/ Len(todo) = 1 /\ Goto(next) /\ Written
              \/ todo' = Tail(todo) /\ Goto("put") /\ UNCHANGED <<pair, bundle, next>>
  <2>1. cmd' = cmd /\ botched' = botched
    BY <1>5, Zenon DEF Goto, args
  <2>2. Ahead' = Ahead
    <3>1. CASE Goto(next)
      <4>1. pc' = next
        BY <3>1, Zenon DEF Goto
      <4>2. QED
        BY <1>3, <4>1 DEF Ahead
    <3>2. CASE Goto("put") /\ next' = next
      <4>1. pc' = "put"
        BY <3>2, Zenon DEF Goto
      <4>2. QED
        BY <1>3, <3>2, <4>1 DEF Ahead
    <3>3. QED
      BY <1>5, <3>1, <3>2, Zenon
  <2>3. \/ Len(todo) = 1 /\ todo' = <<>>
        \/ todo' = Tail(todo) /\ pair' = pair /\ bundle' = bundle
    BY <1>5, Zenon DEF Written
  <2>4. \A q \in Owner : Sound(q)' <=> Sound(q)
    <3>1. \A q \in Owner, g \in Part : After(q, g)' = After(q, g)
      BY <1>0, <1>2, <1>5, <2>3, AfterPut
    <3>2. QED
      BY <3>1, SoundPut
  <2>5. Owed' = Owed /\ \A q : Renewed(q)' = Renewed(q)
    BY DEF Owed, Renewed
  <2>6. QED
    BY <1>5, <2>1, <2>2, <2>4, <2>5, Zenon DEF Fitting
<1>6. QED
  BY <1>1, <1>2, <1>4, <1>5 DEF Put

LEMMA FittingStep == Typed /\ Settled /\ Fitting /\ [Next]_vars => Fitting'
<1> SUFFICES ASSUME Typed, Settled, Fitting, [Next]_vars PROVE Fitting'
  OBVIOUS
<1>1. CASE RestartDB \/ RestartServer \/ UpdateTrust
  <2>1. pc \in {"restartdb", "restart", "trust"} /\ sec' = sec
    BY <1>1, Zenon DEF RestartDB, RestartServer, UpdateTrust
  <2>2. ~err
    BY <2>1 DEF Fitting, Ahead, Owed
  <2>3. CASE Abort
    BY <2>3, FittingEnds
  <2>4. CASE Succeed
    <3>1. \/ pc = "restart" /\ cmd = "rename"
          \/ pc = "trust"
          \/ Abort
      BY <1>1, <2>4 DEF RestartDB, RestartServer, UpdateTrust, Goto, Succeed, Finish
    <3>2. QED
      BY <2>1, <2>2, <2>3, <2>4, <3>1, FittingEnds
  <2>5. CASE ~(Abort \/ Succeed)
    <3>1. /\ Kept
          /\ Goto("restart") \/ Goto("trust")
      <4>1. CASE RestartDB
        BY <2>5, <4>1, Zenon DEF RestartDB
      <4>2. CASE RestartServer
        BY <2>5, <4>2, Zenon DEF RestartServer
      <4>3. CASE UpdateTrust
        BY <2>5, <4>3, Zenon DEF UpdateTrust
      <4>4. QED
        BY <1>1, <4>1, <4>2, <4>3
    <3>2. cmd' = cmd /\ botched' = botched /\ err' = err /\ UNCHANGED writing
      BY <3>1, Zenon DEF Goto, args, Kept
    <3>3. pc' \in {"restart", "trust"}
      BY <3>1, Zenon DEF Goto
    <3>4. \A o \in Owner : Ahead \in Renewed(o)
      BY <2>1 DEF Ahead, Renewed
    <3>5. QED
      BY <2>1, <2>2, <3>2, <3>4, FittingKept
  <2>6. QED
    BY <2>3, <2>4, <2>5
<1>2. CASE Interrupt
  BY <1>2, FittingEnds, Zenon DEF Interrupt
<1>3. CASE Reboot \/ (\E c \in Client : Distribute(c)) \/ UNCHANGED vars
  <2>1. /\ sec' = sec /\ UNCHANGED writing /\ botched' = botched /\ cmd' = cmd /\ err' = err
        /\ pc' = pc /\ next' = next
    BY <1>3, Zenon DEF Reboot, Distribute, Kept, vars, args, writing
  <2>2. Ahead' = Ahead
    BY <2>1 DEF Ahead
  <2>3. err => Ahead' \in Owed
    BY <2>2, Zenon DEF Fitting
  <2>4. QED
    BY <2>1, <2>2, <2>3, FittingKept
<1>4. CASE Work
  BY <1>1, <1>4, FittingThirdParty, FittingBegins, FittingPrepare, FittingAppend, FittingRotate,
     FittingPut, Zenon DEF Work, Prepare, Rotate
<1>5. QED
  BY <1>2, <1>3, <1>4, Zenon DEF Next

LEMMA FittingInit == Init => Settled /\ Fitting
<1> SUFFICES ASSUME Init PROVE Settled /\ Fitting
  OBVIOUS
<1>1. todo = <<>> /\ ~err /\ cmd = "none"
  BY Zenon DEF Init
<1>2. ASSUME NEW o \in Owner PROVE Sound(o)
  <2> DEFINE first == Issued(0, name, 0)
  <2> DEFINE secrets(cas) == [cert |-> {first}, key |-> {first}, ca |-> cas]
  <2> DEFINE bundles == {<<0>>, <<0, 1>>}
  <2>1. sec[o] = NoSecrets \/ \E cas \in {<<0>>, <<0, 1>>} : sec[o] = secrets(cas)
    BY DEF Init
  <2>2. Elems(<<0>>) = {0} /\ Elems(<<0, 1>>) = {0, 1}
    BY ElemsOfFew
  <2>3. sec[o].key = sec[o].cert /\ \A p \in sec[o].cert : p.ca \in Elems(sec[o].ca)
    <3>1. CASE sec[o] = NoSecrets
      BY <3>1 DEF NoSecrets
    <3>2. ASSUME NEW cas \in bundles, sec[o] = secrets(cas)
          PROVE  sec[o].key = sec[o].cert /\ \A p \in sec[o].cert : p.ca \in Elems(sec[o].ca)
      <4>1. 0 \in Elems(cas)
        BY <2>2
      <4>2. sec[o].key = {first} /\ sec[o].cert = {first} /\ sec[o].ca = cas /\ first.ca = 0
        BY <3>2 DEF Issued
      <4>3. QED
        BY <4>1, <4>2
    <3>3. QED
      BY <2>1, <3>1, <3>2
  <2>4. QED
    BY <1>1, <2>3, ElemsOfFew DEF Sound, After, Covered
<1>3. QED
  BY <1>1, <1>2, Zenon DEF Settled, Fitting

\* The key that is stored is the certificate's own, or a third party gave both.
LEMMA FitsOrMisfit ==
  ASSUME SecretsOK, NEW o \in Owner
  PROVE  \A p \in sec[o].cert : p.fits \/ Misfit(p)
<1>1. sec[o].cert \in Maybe(Pair)
  BY DEF SecretsOK, Stored
<1>2. \A p \in sec[o].cert : p \in Pair
  BY <1>1 DEF Maybe
<1>3. QED
  BY <1>2 DEF Pair, Misfit

\* What the secrets hold between two commands belongs together, unless one has failed
\* since the last rotation: certificate and key were issued or given as one pair, and
\* the key is the certificate's unless a third party gave another.
THEOREM SecretsCoherent == Spec => []Coherent
<1>1. Typed /\ Settled /\ Fitting => Coherent
  <2> SUFFICES ASSUME Typed, Settled, Fitting, pc = "idle", ~botched, NEW o \in Owner
               PROVE  /\ sec[o].key = sec[o].cert
                      /\ \A p \in sec[o].cert :
                           (p.fits \/ Misfit(p)) /\ Covered(p, sec[o].ca)
    BY DEF Coherent
  <2>1. todo = <<>>
    BY DEF Settled
  <2>2. ~err
    BY DEF Fitting, Ahead, Owed
  <2>3. Sound(o)
    BY <2>2, Zenon DEF Fitting
  <2>4. sec[o].key = sec[o].cert /\ \A p \in sec[o].cert : Covered(p, sec[o].ca)
    BY <2>1, <2>3, ElemsOfFew DEF Sound, After
  <2>5. \A p \in sec[o].cert : p.fits \/ Misfit(p)
    BY TypeParts, FitsOrMisfit DEF Typed
  <2>6. QED
    BY <2>4, <2>5
<1>2. Init => Typed /\ Settled /\ Fitting
  BY TypedInit, FittingInit
<1>3. Typed /\ Settled /\ Fitting /\ [Next]_vars => (Typed /\ Settled /\ Fitting)'
  BY TypedStep, SettledStep, FittingStep
<1>4. QED
  BY <1>1, <1>2, <1>3, PTL DEF Spec


-----------------------------------------------------------------------------
(* What begins to write secrets, and what goes on with it *)

LEMMA PutSources ==
  ASSUME Typed, [Next]_vars, pc' = "put"
  PROVE  \/ SortDone /\ pc \in {"walk", "dbwalk"} /\ ~Invalid
         \/ Reuse /\ pc \in {"reuse", "reusedb"}
         \/ Issue /\ pc = "issue"
         \/ AppendCA /\ pc = "append"
         \/ Promote /\ pc = "promote"
         \/ Put /\ pc = "put" /\ Goto("put")
         \/ UNCHANGED <<sec, run, writing, args, pc, disk, botched, told>>
<1>0. Resumes
  BY DEF Typed
<1>1. ASSUME Abort \/ Succeed PROVE FALSE
  BY <1>1, Zenon DEF Abort, Succeed, Finish
<1>2. ASSUME NEW step, Goto(step), step # "put" PROVE FALSE
  BY <1>2, Zenon DEF Goto
<1>3. CASE ThirdParty
  <2>1. ~Invalid
    BY <1>1, <1>2, Zenon DEF Invalid
  <2>2. CASE ReadChain
    BY <1>2, <2>1, <2>2 DEF ReadChain, WalkOf
  <2>3. CASE SortNext
    BY <1>2, <2>3 DEF SortNext
  <2>4. CASE SortMissing
    BY <2>1, <2>4, Zenon DEF SortMissing
  <2>5. CASE SortDone
    BY <2>1, <2>5 DEF SortDone
  <2>6. CASE ProvidedDone
    BY <1>1, <1>2, <2>6 DEF ProvidedDone
  <2>7. QED
    BY <1>3, <2>2, <2>3, <2>4, <2>5, <2>6, Zenon DEF ThirdParty
<1>4. CASE BeginSetup \/ BeginRename
  <2>1. \E f : pc' = FirstStep(f)
    BY <1>4, Zenon DEF BeginSetup, BeginRename, Begin
  <2>2. QED
    BY <2>1 DEF FirstStep
<1>5. CASE BeginAdd \/ BeginRotate
  <2>1. \E step \in {"generate", "append", "chain", "fingerprint"} : pc' = step
    BY <1>5, Zenon DEF BeginAdd, BeginRotate, Begin
  <2>2. QED
    BY <2>1
<1>6. CASE Reuse \/ Issue \/ AppendCA \/ Promote
  BY <1>6, Zenon DEF Reuse, Issue, AppendCA, Promote
<1>7. CASE Decide
  BY <1>1, <1>2, <1>7 DEF Decide
<1>8. CASE StopServer \/ AlterName
  BY <1>1, <1>2, <1>8 DEF StopServer, AlterName
<1>9. CASE Generate
  BY <1>1, <1>2, <1>9 DEF Generate, AfterGenerate
<1>10. CASE Fingerprint \/ CheckClients \/ Switch
  BY <1>1, <1>2, <1>10 DEF Fingerprint, CheckClients, Switch
<1>11. CASE Put
  <2>1. pc = "put" /\ (Goto(next) \/ Goto("put"))
    BY <1>1, <1>11, Zenon DEF Put
  <2>2. next # "put"
    BY <1>0, <2>1 DEF Resumes
  <2>3. QED
    BY <1>2, <1>11, <2>1, <2>2
<1>12. CASE RestartDB \/ RestartServer \/ UpdateTrust \/ Interrupt
  BY <1>1, <1>2, <1>12 DEF RestartDB, RestartServer, UpdateTrust, Interrupt
<1>13. CASE Reboot
  BY <1>13, Zenon DEF Reboot
<1>14. CASE \E c \in Client : Distribute(c)
  BY <1>14, Zenon DEF Distribute, Kept
<1>15. CASE UNCHANGED vars
  BY <1>15, Zenon DEF vars
<1>16. QED
  BY <1>3, <1>4, <1>5, <1>6, <1>7, <1>8, <1>9, <1>10, <1>11, <1>12, <1>13, <1>14, <1>15, Zenon
     DEF Next, Work, Prepare, Rotate

-----------------------------------------------------------------------------
(* Adding a CA *)

\* What mgradm ssl addca has yet to write are bundles with all that was in them.
Adding ==
  cmd = "addca" =>
    \A o \in Owner, f \in Part :
      <<o, f>> \in Elems(todo) => f = "ca" /\ Elems(sec[o].ca) \subseteq Elems(bundle[o])

\* What it has yet to write when it has just added one.
LEMMA AppendWrites ==
  ASSUME Typed, AppendCA, pc' = "put"
  PROVE  /\ sec' = sec /\ cmd' = cmd /\ flags' = flags /\ botched' = botched
         /\ bundle' = [o \in Owner |-> Append(sec[o].ca, NewCA)]
         /\ \A o \in Owner, f \in Part : <<o, f>> \in Elems(todo') => f = "ca"
         /\ Lacks("server") <=> <<"server", "ca">> \in Elems(todo')
<1>1. ~Abort /\ ~Goto("restartdb")
  BY Zenon DEF Abort, Finish, Goto
<1>2. /\ bundle' = [o \in Owner |-> Append(sec[o].ca, NewCA)]
      /\ PutAll((IF Lacks("server") THEN << <<"server", "ca">> >> ELSE <<>>)
                  \o (IF Lacks("db") THEN << <<"db", "ca">> >> ELSE <<>>), "restartdb")
  BY <1>1, Zenon DEF AppendCA
<1>3. /\ todo' = (IF Lacks("server") THEN << <<"server", "ca">> >> ELSE <<>>)
                   \o (IF Lacks("db") THEN << <<"db", "ca">> >> ELSE <<>>)
      /\ cmd' = cmd /\ flags' = flags /\ botched' = botched
  BY <1>2, Zenon DEF PutAll, Goto, args
<1>4. sec' = sec
  BY Zenon DEF AppendCA, Stay
<1>5. PICK A \in {<<>>, << <<"server", "ca">> >>}, B \in {<<>>, << <<"db", "ca">> >>} :
        todo' = A \o B /\ A = (IF Lacks("server") THEN << <<"server", "ca">> >> ELSE <<>>)
  BY <1>3
<1>6. A \in Seq(Owner \X Part) /\ B \in Seq(Owner \X Part)
  BY SecretsTyped
<1>7. Elems(todo') = Elems(A) \cup Elems(B)
  <2>1. Elems(A \o B) = Elems(A) \cup Elems(B)
    BY <1>6, ElemsOfBoth
  <2>2. QED
    BY <1>5, <2>1, Zenon
<1>8. \A x \in Elems(A) \cup Elems(B) : x = <<"server", "ca">> \/ x = <<"db", "ca">>
  BY ElemsOfFew
<1>9. \A x \in Elems(B) : x = <<"db", "ca">>
  BY ElemsOfFew
<1>10. Lacks("server") <=> <<"server", "ca">> \in Elems(A)
  BY <1>5, ElemsOfFew
<1>11. QED
  BY <1>2, <1>3, <1>4, <1>7, <1>8, <1>9, <1>10

LEMMA AddingStep == Typed /\ Settled /\ Adding /\ [Next]_vars => Adding'
<1> SUFFICES ASSUME Typed, Settled, Adding, [Next]_vars, cmd' = "addca",
                    NEW o \in Owner, NEW f \in Part, <<o, f>> \in Elems(todo')
             PROVE  f = "ca" /\ Elems(sec'[o].ca) \subseteq Elems(bundle'[o])
  BY DEF Adding
<1>0. TypeOK /\ Phases /\ CallOK /\ WritingOK /\ SecretsOK
  BY TypeParts DEF Typed
<1>1. pc' = "put"
  <2>1. todo' # <<>>
    BY ElemsOfFew
  <2>2. QED
    BY <2>1, SettledStep DEF Settled
<1>2. CASE AppendCA
  <2>1. f = "ca" /\ sec' = sec /\ bundle' = [w \in Owner |-> Append(sec[w].ca, NewCA)]
    BY <1>1, <1>2, AppendWrites
  <2>2. sec[o].ca \in Seq(CA)
    BY <1>0 DEF SecretsOK, Stored
  <2>3. QED
    BY <2>1, <2>2, ElemsOfAppend
<1>3. CASE Put /\ pc = "put" /\ Goto("put")
  <2>1. cmd = "addca"
    BY <1>3, Zenon DEF Goto, args
  <2>2. next # "put" /\ todo # <<>>
    BY <1>3 DEF Typed, Resumes, Put
  <2>3. ~Abort /\ ~Goto(next)
    BY <1>1, <1>3, <2>2, Zenon DEF Abort, Finish, Goto
  <2>4. PICK w \in Owner, g \in Part : w = Head(todo)[1] /\ g = Head(todo)[2] /\ Head(todo) = <<w, g>>
    BY <1>0, <2>2, HeadTyped
  <2>5. /\ sec' = [sec EXCEPT ![w][g] = New(w, g)] /\ todo' = Tail(todo) /\ bundle' = bundle
    BY <1>3, <2>3, <2>4, Zenon DEF Put
  <2>6. Elems(todo) = {<<w, g>>} \cup Elems(Tail(todo))
    BY <1>0, <2>2, <2>4, ElemsOfTail DEF WritingOK
  <2>7. g = "ca" /\ f = "ca" /\ Elems(sec[o].ca) \subseteq Elems(bundle[o])
    BY <2>1, <2>5, <2>6 DEF Adding
  <2>8. sec'[o].ca = IF o = w THEN bundle[o] ELSE sec[o].ca
    BY <1>0, <2>5, <2>7 DEF SecretsOK, Stored, New
  <2>9. QED
    BY <2>5, <2>7, <2>8
<1>4. CASE UNCHANGED <<sec, writing, args>>
  <2>1. sec' = sec /\ todo' = todo /\ bundle' = bundle /\ cmd' = cmd
    BY <1>4, Zenon DEF writing, args
  <2>2. QED
    BY <2>1 DEF Adding
<1>5. CASE pc \in {"walk", "dbwalk", "reuse", "reusedb", "issue", "promote"}
           /\ (SortDone \/ Reuse \/ Issue \/ Promote) /\ ~Invalid
  <2>1. cmd' = cmd
    <3>1. ~Abort
      BY <1>1, Zenon DEF Abort, Finish
    <3>2. QED
      BY <1>5, <3>1, Zenon DEF SortDone, Reuse, Issue, Promote, PutAll, Goto, args
  <2>2. QED
    BY <1>0, <1>5, <2>1 DEF Phases, AddSteps
<1>6. CASE Invalid /\ (Reuse \/ Issue \/ Promote)
  <2>1. pc' = "dbchain" \/ pc' = "idle"
    BY <1>6, Zenon DEF Invalid, Goto, Abort, Finish
  <2>2. QED
    BY <1>1, <2>1
<1>7. QED
  BY <1>1, <1>2, <1>3, <1>4, <1>5, <1>6, PutSources, Zenon

\* Adding a CA changes neither certificate nor key, and takes no CA away that was
\* trusted, unless a secret is lost on the way.
THEOREM TrustIsKept == Spec => AddKeepsTrust
<1>1. Typed /\ Settled /\ Adding /\ [Next]_vars
        => [(cmd = "addca")
             => \A o \in Owner :
                  /\ sec'[o].cert = sec[o].cert /\ sec'[o].key = sec[o].key
                  /\ sec'[o].ca # <<>> => Elems(sec[o].ca) \subseteq Elems(sec'[o].ca)]_vars
  <2> SUFFICES ASSUME Typed, Settled, Adding, [Next]_vars, cmd = "addca", NEW o \in Owner
               PROVE  /\ sec'[o].cert = sec[o].cert /\ sec'[o].key = sec[o].key
                      /\ sec'[o].ca # <<>> => Elems(sec[o].ca) \subseteq Elems(sec'[o].ca)
    OBVIOUS
  <2>0. TypeOK /\ WritingOK /\ SecretsOK
    BY TypeParts DEF Typed
  <2>1. CASE sec' = sec
    BY <2>1
  <2>2. CASE sec' # sec
    <3>1. PICK w \in Owner, g \in Part :
            /\ Head(todo) = <<w, g>> /\ todo # <<>>
            /\ \/ sec' = [sec EXCEPT ![w][g] = New(w, g)]
               \/ sec' = [sec EXCEPT ![w][g] = Gone(g)]
      BY <2>0, <2>2, Writes
    <3>2. <<w, g>> \in Elems(todo)
      BY <2>0, <3>1, ElemsOfTail DEF WritingOK
    <3>3. g = "ca" /\ Elems(sec[w].ca) \subseteq Elems(bundle[w])
      BY <3>2 DEF Adding
    <3>4. /\ sec'[o].cert = sec[o].cert /\ sec'[o].key = sec[o].key
          /\ sec'[o].ca \in {sec[o].ca, <<>>} \cup {b \in {bundle[o]} : o = w}
      BY <2>0, <3>1, <3>3 DEF SecretsOK, Stored, New, Gone
    <3>5. QED
      BY <3>3, <3>4
  <2>3. QED
    BY <2>1, <2>2
<1>2. Init => Typed /\ Settled /\ Adding
  <2>1. Init => Adding
    BY Zenon DEF Init, Adding
  <2>2. QED
    BY <2>1, TypedInit, FittingInit
<1>3. Typed /\ Settled /\ Adding /\ [Next]_vars => (Typed /\ Settled /\ Adding)'
  BY TypedStep, SettledStep, AddingStep
<1>4. QED
  BY <1>1, <1>2, <1>3, PTL DEF Spec, AddKeepsTrust


-----------------------------------------------------------------------------
(* A rotation that succeeds *)

\* What a command has restarted runs with what the secrets hold.
Restarted ==
  /\ cmd = "rotate" /\ pc \in {"restart", "trust"}
       => run["db"] = Started("db") /\ run["db"] # {}
  /\ pc = "trust" => run["server"] = Started("server") /\ run["server"] # {}

LEMMA RestartedStep == Typed /\ Restarted /\ [Next]_vars => Restarted'
<1> SUFFICES ASSUME Typed, Restarted, [Next]_vars PROVE Restarted'
  OBVIOUS
<1>0. TypeOK /\ RunOK /\ Phases /\ CallOK
  BY TypeParts DEF Typed
<1>1. CASE pc' \notin {"restart", "trust"}
  BY <1>1 DEF Restarted
<1>2. ASSUME NEW step, Goto(step), step \notin {"restart", "trust"} PROVE Restarted'
  BY <1>1, <1>2, Zenon DEF Goto
<1>3. CASE Abort \/ Succeed
  BY <1>1, <1>3 DEF Abort, Succeed, Finish
<1>4. CASE UNCHANGED <<sec, run, pc, args>>
  <2>1. sec' = sec /\ run' = run /\ pc' = pc /\ cmd' = cmd
    BY <1>4, Zenon DEF args
  <2>2. \A o : Started(o)' = Started(o)
    BY <2>1 DEF Started, Mounted
  <2>3. QED
    BY <2>1, <2>2 DEF Restarted
<1>5. CASE ThirdParty
  <2>1. Invalid => Abort \/ Goto("dbchain")
    BY Zenon DEF Invalid
  <2>2. CASE ReadChain
    BY <1>2, <1>3, <2>1, <2>2 DEF ReadChain, WalkOf
  <2>3. CASE SortNext
    BY <1>2, <2>3 DEF SortNext
  <2>4. CASE SortMissing \/ SortDone
    BY <1>2, <1>3, <2>1, <2>4 DEF SortMissing, SortDone, PutAll
  <2>5. CASE ProvidedDone
    BY <1>2, <1>3, <2>5 DEF ProvidedDone
  <2>6. QED
    BY <1>5, <2>2, <2>3, <2>4, <2>5, Zenon DEF ThirdParty
<1>6. CASE BeginSetup \/ BeginRename
  <2>1. \E f : pc' = FirstStep(f)
    BY <1>6, Zenon DEF BeginSetup, BeginRename, Begin
  <2>2. QED
    BY <1>1, <2>1 DEF FirstStep
<1>7. CASE BeginAdd \/ BeginRotate
  <2>1. \E step \in {"generate", "append", "chain", "fingerprint"} : pc' = step
    BY <1>7, Zenon DEF BeginAdd, BeginRotate, Begin
  <2>2. QED
    BY <1>1, <2>1
<1>8. CASE Reuse \/ Decide \/ Issue \/ StopServer \/ AppendCA \/ Promote
  <2>1. Goto(AfterReuse) => Restarted'
    BY <1>2 DEF AfterReuse
  <2>2. QED
    BY <1>2, <1>3, <1>8, <2>1 DEF Reuse, Decide, Issue, StopServer, AppendCA, Promote, PutAll
<1>9. CASE AlterName
  <2>1. CASE Goto("restart")
    <3>1. pc' = "restart" /\ cmd' = cmd /\ pc = "alter"
      BY <1>9, <2>1, Zenon DEF Goto, args, AlterName
    <3>2. cmd # "rotate"
      BY <1>0, <3>1 DEF Phases, RotateSteps
    <3>3. QED
      BY <3>1, <3>2 DEF Restarted
  <2>2. QED
    BY <1>3, <1>9, <2>1, Zenon DEF AlterName
<1>10. CASE Generate \/ Fingerprint \/ CheckClients \/ Switch
  BY <1>2, <1>3, <1>10 DEF Generate, AfterGenerate, Fingerprint, CheckClients, Switch
<1>11. CASE Put
  <2>1. pc = "put" /\ (Abort \/ Goto(next) \/ Goto("put"))
    BY <1>11, Zenon DEF Put
  <2>2. next \notin {"restart", "trust"}
    BY <2>1 DEF Typed, Resumes
  <2>3. QED
    BY <1>2, <1>3, <2>1, <2>2
<1>12. CASE RestartDB
  <2>1. CASE ~Abort
    <3>1. /\ Started("db") # {} /\ run' = [run EXCEPT !["db"] = Started("db")]
          /\ Goto("restart") /\ sec' = sec
      BY <1>12, <2>1, Zenon DEF RestartDB
    <3>2. pc' = "restart"
      BY <3>1, Zenon DEF Goto
    <3>3. Started("db")' = Started("db")
      BY <3>1 DEF Started, Mounted
    <3>4. run'["db"] = Started("db")
      BY <1>0, <3>1 DEF RunOK, Owner
    <3>5. QED
      BY <3>1, <3>2, <3>3, <3>4 DEF Restarted
  <2>2. QED
    BY <1>3, <2>1
<1>13. CASE RestartServer
  <2>1. CASE ~(Abort \/ Succeed)
    <3>1. /\ Started("server") # {} /\ run' = [run EXCEPT !["server"] = Started("server")]
          /\ Goto("trust") /\ sec' = sec /\ pc = "restart"
      BY <1>13, <2>1, Zenon DEF RestartServer
    <3>2. pc' = "trust" /\ cmd' = cmd
      BY <3>1, Zenon DEF Goto, args
    <3>3. Started("server")' = Started("server") /\ Started("db")' = Started("db")
      BY <3>1 DEF Started, Mounted
    <3>4. run'["server"] = Started("server") /\ run'["db"] = run["db"]
      BY <1>0, <3>1 DEF RunOK, Owner
    <3>5. QED
      BY <3>1, <3>2, <3>3, <3>4 DEF Restarted
  <2>2. QED
    BY <1>3, <2>1
<1>14. CASE UpdateTrust \/ Interrupt
  BY <1>3, <1>14, Zenon DEF UpdateTrust, Interrupt
<1>15. CASE Reboot
  BY <1>1, <1>15 DEF Reboot
<1>16. CASE (\E c \in Client : Distribute(c)) \/ UNCHANGED vars
  BY <1>4, <1>16, Zenon DEF Distribute, vars
<1>17. QED
  BY <1>5, <1>6, <1>7, <1>8, <1>9, <1>10, <1>11, <1>12, <1>13, <1>14, <1>15, <1>16, Zenon
     DEF Next, Work, Prepare, Rotate

\* A rotation that succeeds leaves the server and the database on certificates that go
\* with their CAs and with their keys, unless a third party gave one with the key of
\* another, and the host trusting them, whatever came before.
THEOREM ServesAfterRotation == Spec => RotationServes
<1>1. Typed /\ Settled /\ Fitting /\ Restarted /\ [Next]_vars
        => [(cmd = "rotate" /\ ~Set("checkonly") /\ outcome' = "ok" /\ pc' = "idle")
             => /\ Serving'
                /\ \A m \in run'["server"] : Covered(m.cert, hostca')]_vars
  <2> SUFFICES ASSUME Typed, Settled, Fitting, Restarted, Next,
                      cmd = "rotate", ~Set("checkonly"), outcome' = "ok", pc' = "idle"
               PROVE  /\ Serving'
                      /\ \A m \in run'["server"] : Covered(m.cert, hostca')
    BY DEF vars
  <2>0. TypeOK /\ Phases /\ SecretsOK /\ pc # "idle"
    BY TypeParts DEF Typed, Phases
  <2>1. UpdateTrust
    <3>1. ASSUME NEW step, Goto(step), step # "idle" PROVE FALSE
      BY <3>1, Zenon DEF Goto
    <3>2. ~Abort
      BY DEF Abort, Finish
    <3>3. CASE ThirdParty
      <4>1. ~Invalid
        BY <3>1, <3>2 DEF Invalid
      <4>2. CASE ReadChain
        BY <3>1, <4>1, <4>2 DEF ReadChain, WalkOf
      <4>3. CASE SortNext
        BY <2>0, <3>1, <4>3 DEF SortNext
      <4>4. CASE SortMissing \/ SortDone
        BY <3>1, <4>1, <4>4 DEF SortMissing, SortDone, PutAll
      <4>5. CASE ProvidedDone
        BY <3>1, <3>2, <4>5 DEF ProvidedDone
      <4>6. QED
        BY <3>3, <4>2, <4>3, <4>4, <4>5, Zenon DEF ThirdParty
    <3>4. CASE BeginSetup \/ BeginRename \/ BeginAdd \/ BeginRotate
      BY <2>0, <3>4, Zenon DEF BeginSetup, BeginRename, BeginAdd, BeginRotate, Begin
    <3>5. CASE Reuse \/ Decide \/ Issue \/ StopServer \/ AppendCA \/ Promote
      <4>1. ~Goto(AfterReuse)
        BY <3>1 DEF AfterReuse
      <4>2. QED
        BY <3>1, <3>2, <3>5, <4>1 DEF Reuse, Decide, Issue, StopServer, AppendCA, Promote, PutAll
    <3>6. CASE AlterName
      BY <3>1, <3>2, <3>6 DEF AlterName
    <3>7. CASE Generate \/ Fingerprint \/ CheckClients \/ Switch
      BY <3>1, <3>2, <3>7 DEF Generate, AfterGenerate, Fingerprint, CheckClients, Switch
    <3>8. CASE Put
      <4>1. pc = "put" /\ (Goto(next) \/ Goto("put"))
        BY <3>2, <3>8, Zenon DEF Put
      <4>2. next # "idle"
        BY <4>1 DEF Typed, Resumes
      <4>3. QED
        BY <3>1, <4>1, <4>2
    <3>9. CASE RestartDB \/ RestartServer
      BY <3>1, <3>2, <3>9 DEF RestartDB, RestartServer
    <3>10. CASE Interrupt
      BY <3>2, <3>10, Zenon DEF Interrupt
    <3>11. CASE Reboot \/ \E c \in Client : Distribute(c)
      BY <2>0, <3>11, Zenon DEF Reboot, Distribute
    <3>12. QED
      BY <3>3, <3>4, <3>5, <3>6, <3>7, <3>8, <3>9, <3>10, <3>11, Zenon
         DEF Next, Work, Prepare, Rotate
  <2>2. /\ pc = "trust" /\ sec' = sec /\ run' = run
        /\ \E m \in run["server"] : hostca' = m.ca
    <3>1. ~Abort
      BY DEF Abort, Finish
    <3>2. QED
      BY <2>1, <3>1, Zenon DEF UpdateTrust
  <2>3. /\ run["db"] = Started("db") /\ run["db"] # {}
        /\ run["server"] = Started("server") /\ run["server"] # {}
    BY <2>2 DEF Restarted
  <2>4. \A o \in Owner : Sound(o)
    <3>1. ~err
      BY <2>2 DEF Fitting, Ahead, Owed
    <3>2. \A o \in Owner : Ahead \in Renewed(o)
      BY <2>2 DEF Ahead, Renewed
    <3>3. QED
      BY <3>1, <3>2, Zenon DEF Fitting
  <2>5. todo = <<>>
    BY <2>2 DEF Settled
  <2>6. ASSUME NEW o \in Owner PROVE /\ sec[o].key = sec[o].cert
                                     /\ \A p \in sec[o].cert : p.ca \in Elems(sec[o].ca)
    BY <2>4, <2>5, ElemsOfFew DEF Sound, After, Covered
  <2>7. ASSUME NEW o \in Owner, NEW m \in Started(o)
        PROVE  /\ m.cert \in sec[o].cert /\ m.key \in sec[o].key
               /\ m.ca = sec[o].ca /\ m.dbca = sec["db"].ca
    BY <2>7 DEF Started, Mounted
  <2>8. ASSUME NEW o \in Owner, NEW m \in Started(o)
        PROVE  m.cert = m.key /\ Covered(m.cert, sec[o].ca)
    <3>1. sec[o].cert \in Maybe(Pair)
      BY <2>0 DEF SecretsOK, Stored
    <3>2. \A x, y \in sec[o].cert : x = y
      BY <3>1 DEF Maybe
    <3>3. QED
      BY <2>6, <2>7, <3>2 DEF Covered
  <2>9. "server" \in Owner /\ "db" \in Owner /\ Owner = {"server", "db"}
    BY DEF Owner
  <2>10. Serving'
    <3>1. \A o \in Owner : run'[o] = Started(o) /\ run'[o] # {}
      BY <2>2, <2>3, <2>9
    <3>2. \A o \in Owner : \A m \in run'[o] :
            /\ m.cert = m.key /\ (m.cert.fits \/ Misfit(m.cert))
            /\ Covered(m.cert, m.ca)
      BY <3>1, <2>0, <2>7, <2>8, FitsOrMisfit
    <3>3. \A s \in run'["server"], d \in run'["db"] : Covered(d.cert, s.dbca)
      BY <3>1, <2>7, <2>8, <2>9
    <3>4. QED
      BY <3>1, <3>2, <3>3 DEF Serving, Covered, Elems, Owner
  <2>11. \A m \in run'["server"] : Covered(m.cert, hostca')
    <3>1. hostca' = sec["server"].ca
      BY <2>2, <2>3, <2>7, <2>9
    <3>2. QED
      BY <2>2, <2>3, <2>8, <2>9, <3>1
  <2>12. QED
    BY <2>10, <2>11
<1>2. Init => Typed /\ Settled /\ Fitting /\ Restarted
  <2>1. Init => Restarted
    BY Zenon DEF Init, Restarted
  <2>2. QED
    BY <2>1, TypedInit, FittingInit
<1>3. Typed /\ Settled /\ Fitting /\ Restarted /\ [Next]_vars
        => (Typed /\ Settled /\ Fitting /\ Restarted)'
  BY TypedStep, SettledStep, FittingStep, RestartedStep
<1>4. QED
  BY <1>1, <1>2, <1>3, PTL DEF Spec, RotationServes

-----------------------------------------------------------------------------
(* The clients: that a planned rotation takes no client away from the server that has *)
(* answered, since what is staged is the last CA of its bundle *)

-----------------------------------------------------------------------------
(* The CAs that have been made *)

\* The CAs the server trusts, as they will be.
Bundle == After("server", "ca")

Known == (0 .. made) \cup {Provided}

Fresh ==
  /\ Elems(sec["server"].ca) \subseteq Known /\ Elems(Bundle) \subseteq Known
  /\ build \subseteq 0 .. made /\ staged \subseteq 0 .. made
  /\ \A p \in files : p.ca \in 0 .. made

LEMMA ServerCA == "server" \in Owner /\ "ca" \in Part
BY DEF Owner, Part

\* The bundle that is meant when nothing is written.
LEMMA BundleSettled == todo = <<>> => Bundle = sec["server"].ca
BY ElemsOfFew DEF Bundle, After

\* The CAs on the disk after a step, and how many were made.
LEMMA FreshDisk ==
  ASSUME Typed, Fresh, [Next]_vars
  PROVE  /\ made' \in Nat /\ made <= made'
         /\ build' \subseteq 0 .. made' /\ staged' \subseteq 0 .. made'
         /\ \A p \in files' : p.ca \in 0 .. made'
         /\ Known \subseteq Known'
<1>0. TypeOK /\ DiskOK /\ made \in Nat
  BY TypeParts, BoundAssumption DEF Typed, DiskOK
<1>1. /\ made' \in {made, made + 1}
      /\ build' \subseteq build \cup staged \cup {made'} /\ staged' \subseteq staged \cup {made'}
  <2>1. CASE UNCHANGED disk
    <3>1. build' = build /\ staged' = staged /\ made' = made
      BY <2>1, Zenon DEF disk
    <3>2. QED
      BY <3>1
  <2>2. CASE Generate
    <3>1. made' = made + 1 /\ build' = build /\ staged' \in {staged, {}, {made + 1}}
      BY <2>2 DEF Generate
    <3>2. QED
      BY <3>1
  <2>3. CASE Issue
    <3>1. /\ staged' = staged
          /\ \/ build' = {SetupCA} /\ made' = IF build = {} THEN made + 1 ELSE made
             \/ build' \in {build, {SetupCA}} /\ made' = IF build = build' THEN made ELSE made + 1
      BY <2>3, Zenon DEF Issue
    <3>2. build # {} => build = {SetupCA}
      BY <1>0, OptionTyped DEF SetupCA, DiskOK
    <3>3. build = {} => SetupCA = made + 1
      BY DEF SetupCA
    <3>4. QED
      BY <3>1, <3>2, <3>3
  <2>4. CASE Promote
    <3>1. /\ made' = made
          /\ \/ \E c \in staged : build' = {c} /\ staged' = {}
             \/ build' = build /\ staged' = staged
             \/ build' = {} /\ staged' = staged
             \/ build' = staged /\ staged' = {}
      BY <2>4, Zenon DEF Promote
    <3>2. QED
      BY <3>1
  <2>5. QED
    BY <2>1, <2>2, <2>3, <2>4, Changes, Zenon DEF vars
<1>2. made' \in Nat /\ made <= made' /\ 0 .. made \subseteq 0 .. made' /\ made' \in 0 .. made'
  BY <1>0, <1>1
<1>3. files' = files
  BY Changes, Zenon DEF vars, world
<1>4. build \cup staged \cup {made'} \subseteq 0 .. made'
  BY <1>2 DEF Fresh
<1>5. QED
  BY <1>1, <1>2, <1>3, <1>4 DEF Fresh, Known

\* What a step does to the bundle: it is written as it was meant, or not at all, and
\* what is meant anew comes from the CAs there are.
LEMMA BundleStep ==
  ASSUME Typed, Settled, Settled', [Next]_vars
  PROVE  \/ Bundle' = Bundle
         \/ Bundle' = sec'["server"].ca /\ todo' = <<>>
         \/ \E c \in staged \cup {p.ca : p \in files} \cup {Provided} :
              Bundle' = <<c>> /\ pc' = "put" /\ sec' = sec
         \/ Issue /\ Bundle' = <<SetupCA>> /\ pc' = "put" /\ build' = {SetupCA} /\ sec' = sec
         \/ AppendCA /\ Bundle' = Append(sec["server"].ca, NewCA) /\ pc' = "put" /\ sec' = sec
<1>0. TypeOK /\ WritingOK /\ SecretsOK
  BY TypeParts DEF Typed
<1>1. CASE pc' # "put"
  BY <1>1, ElemsOfFew DEF Settled, Bundle, After
<1>2. ASSUME pc' = "put" PROVE ~Abort
  BY <1>2, Zenon DEF Abort, Finish
<1>3. CASE pc' = "put" /\ SortDone /\ pc \in {"walk", "dbwalk"} /\ ~Invalid
  <2>1. /\ bundle' = [NoBundle EXCEPT ![OwnerOf(pc)] = <<Provided>>]
        /\ todo' = TLSSecrets(OwnerOf(pc)) /\ sec' = sec
    BY <1>3, Zenon DEF SortDone, PutAll, Stay
  <2>2. PICK w \in Owner : w = OwnerOf(pc)
    BY DEF OwnerOf, Owner
  <2>3. Elems(todo') = {<<w, f>> : f \in Part}
    BY <2>1, <2>2, SecretsOf
  <2>4. CASE w = "server"
    <3>1. bundle'["server"] = <<Provided>>
      BY <2>1, <2>2, <2>4 DEF NoBundle
    <3>2. Bundle' = <<Provided>>
      BY <2>3, <2>4, <3>1, ServerCA DEF Bundle, After, New
    <3>3. QED
      BY <1>3, <2>1, <3>2
  <2>5. CASE w # "server"
    <3>1. todo = <<>>
      BY <1>3 DEF Settled
    <3>2. QED
      BY <2>1, <2>3, <2>5, <3>1, ElemsOfFew DEF Bundle, After
  <2>6. QED
    BY <2>4, <2>5
<1>4. CASE pc' = "put" /\ Reuse /\ pc \in {"reuse", "reusedb"}
  <2>1. ~Goto(AfterReuse)
    BY <1>4 DEF Goto, AfterReuse
  <2>2. PICK p \in files : /\ bundle' = [NoBundle EXCEPT ![Reused] = <<p.ca>>]
                           /\ todo' = TLSSecrets(Reused) /\ sec' = sec
    BY <1>4, <2>1, Zenon DEF Reuse, PutAll, Stay
  <2>3. PICK w \in Owner : w = Reused
    BY DEF Reused, Owner
  <2>4. Elems(todo') = {<<w, f>> : f \in Part}
    BY <2>2, <2>3, SecretsOf
  <2>5. CASE w = "server"
    <3>1. bundle'["server"] = <<p.ca>>
      BY <2>2, <2>3, <2>5 DEF NoBundle
    <3>2. Bundle' = <<p.ca>>
      BY <2>4, <2>5, <3>1, ServerCA DEF Bundle, After, New
    <3>3. QED
      BY <1>4, <2>2, <3>2
  <2>6. CASE w # "server"
    <3>1. todo = <<>>
      BY <1>4 DEF Settled
    <3>2. QED
      BY <2>2, <2>4, <2>6, <3>1, ElemsOfFew DEF Bundle, After
  <2>7. QED
    BY <2>5, <2>6
<1>5. CASE pc' = "put" /\ Issue
  <2>1. /\ bundle' = [o \in Owner |-> <<SetupCA>>] /\ build' = {SetupCA} /\ sec' = sec
        /\ todo' = TLSSecrets("server") \o TLSSecrets("db")
    BY <1>2, <1>5, Zenon DEF Issue, PutAll
  <2>2. <<"server", "ca">> \in Elems(todo')
    BY <2>1, SecretsOfBoth, ServerCA
  <2>3. Bundle' = <<SetupCA>>
    BY <2>1, <2>2, ServerCA DEF Bundle, After, New
  <2>4. QED
    BY <1>5, <2>1, <2>3
<1>6. CASE pc' = "put" /\ AppendCA
  <2>1. /\ sec' = sec /\ bundle' = [o \in Owner |-> Append(sec[o].ca, NewCA)]
        /\ Lacks("server") <=> <<"server", "ca">> \in Elems(todo')
    BY <1>6, AppendWrites
  <2>2. CASE <<"server", "ca">> \in Elems(todo')
    <3>1. Bundle' = Append(sec["server"].ca, NewCA)
      BY <2>1, <2>2, ServerCA DEF Bundle, After, New
    <3>2. QED
      BY <1>6, <2>1, <3>1
  <2>3. CASE <<"server", "ca">> \notin Elems(todo')
    <3>1. todo = <<>>
      BY <1>6 DEF Settled, AppendCA
    <3>2. Bundle = sec["server"].ca
      BY <3>1, BundleSettled
    <3>3. QED
      BY <2>1, <2>3, <3>2 DEF Bundle, After
  <2>4. QED
    BY <2>2, <2>3
<1>7. CASE pc' = "put" /\ Promote
  <2>1. PICK c \in staged : /\ bundle' = [o \in Owner |-> <<c>>] /\ sec' = sec
                            /\ todo' = TLSSecrets("server") \o TLSSecrets("db")
    BY <1>2, <1>7, Zenon DEF Promote, PutAll
  <2>2. <<"server", "ca">> \in Elems(todo')
    BY <2>1, SecretsOfBoth, ServerCA
  <2>3. Bundle' = <<c>>
    BY <2>1, <2>2, ServerCA DEF Bundle, After, New
  <2>4. QED
    BY <1>7, <2>1, <2>3
<1>8. CASE pc' = "put" /\ Put /\ pc = "put" /\ Goto("put")
  <2>1. next # "put" /\ todo # <<>>
    BY <1>8 DEF Typed, Resumes, Put
  <2>2. ~Abort /\ ~Goto(next)
    BY <1>2, <1>8, <2>1, Zenon DEF Goto
  <2>3. PICK w \in Owner, g \in Part : w = Head(todo)[1] /\ g = Head(todo)[2] /\ Head(todo) = <<w, g>>
    BY <1>0, <2>1, HeadTyped
  <2>4. /\ sec' = [sec EXCEPT ![w][g] = New(w, g)] /\ todo' = Tail(todo)
        /\ bundle' = bundle /\ pair' = pair
    BY <1>8, <2>2, <2>3, Zenon DEF Put
  <2>5. After("server", "ca")' = After("server", "ca")
    BY <1>0, <2>1, <2>3, <2>4, ServerCA, AfterPut
  <2>6. QED
    BY <2>5 DEF Bundle
<1>9. CASE UNCHANGED <<sec, writing>>
  <2>1. sec' = sec /\ todo' = todo /\ bundle' = bundle
    BY <1>9, Zenon DEF writing
  <2>2. Bundle' = Bundle
    BY <2>1 DEF Bundle, After, New
  <2>3. QED
    BY <2>2
<1>10. QED
  BY <1>1, <1>3, <1>4, <1>5, <1>6, <1>7, <1>8, <1>9, PutSources, Zenon

LEMMA FreshStep == Typed /\ Settled /\ Fresh /\ [Next]_vars => Fresh'
<1> SUFFICES ASSUME Typed, Settled, Fresh, [Next]_vars PROVE Fresh'
  OBVIOUS
<1>0. TypeOK /\ WritingOK /\ SecretsOK /\ DiskOK
  BY TypeParts DEF Typed
<1>1. /\ build' \subseteq 0 .. made' /\ staged' \subseteq 0 .. made'
      /\ \A p \in files' : p.ca \in 0 .. made'
      /\ Known \subseteq Known' /\ made' \in Nat
  BY FreshDisk
<1>2. 0 .. made \subseteq Known /\ 0 .. made' \subseteq Known' /\ Provided' \in Known'
      /\ Provided \in Known
  BY DEF Known
<1>3. Elems(sec'["server"].ca) \subseteq Known
  <2>1. CASE sec' = sec
    BY <2>1 DEF Fresh
  <2>2. CASE sec' # sec
    <3>1. PICK o \in Owner, f \in Part :
            /\ Head(todo) = <<o, f>> /\ todo # <<>>
            /\ \/ sec' = [sec EXCEPT ![o][f] = New(o, f)]
               \/ sec' = [sec EXCEPT ![o][f] = Gone(f)]
      BY <1>0, <2>2, Writes
    <3>2. <<o, f>> \in Elems(todo)
      BY <1>0, <3>1, ElemsOfTail DEF WritingOK
    <3>3. sec'["server"].ca \in {sec["server"].ca, <<>>, Bundle}
      <4>1. CASE o = "server" /\ f = "ca"
        <5>1. Bundle = New("server", "ca") /\ Gone("ca") = <<>>
          BY <3>2, <4>1 DEF Bundle, After, Gone
        <5>2. sec["server"] \in Stored
          BY <1>0, ServerCA DEF SecretsOK
        <5>3. QED
          BY <1>0, <3>1, <4>1, <5>1, <5>2, ServerCA DEF SecretsOK, Stored
      <4>2. CASE o # "server"
        BY <1>0, <3>1, <4>2, ServerCA DEF SecretsOK
      <4>3. CASE f # "ca"
        <5>1. sec["server"] \in Stored /\ (f = "cert" \/ f = "key")
          BY <1>0, <4>3, ServerCA DEF SecretsOK, Part
        <5>2. ASSUME NEW x PROVE [sec EXCEPT ![o][f] = x]["server"].ca = sec["server"].ca
          <6>1. CASE f = "cert"
            BY <1>0, <5>1, <6>1, ServerCA DEF SecretsOK, Stored
          <6>2. CASE f = "key"
            BY <1>0, <5>1, <6>2, ServerCA DEF SecretsOK, Stored
          <6>3. QED
            BY <5>1, <6>1, <6>2
        <5>3. QED
          BY <3>1, <5>2
      <4>4. QED
        BY <4>1, <4>2, <4>3
    <3>4. QED
      BY <3>3, ElemsOfFew DEF Fresh
  <2>3. QED
    BY <2>1, <2>2
<1>4. Elems(Bundle') \subseteq Known'
  <2>1. CASE Bundle' = Bundle \/ Bundle' = sec'["server"].ca
    BY <1>1, <1>3, <2>1 DEF Fresh
  <2>2. ASSUME NEW c \in staged \cup {p.ca : p \in files} \cup {Provided}, Bundle' = <<c>>
        PROVE  Elems(Bundle') \subseteq Known'
    <3>1. c \in Known
      BY <1>2, <2>2 DEF Fresh
    <3>2. Elems(<<c>>) = {c}
      BY ElemsOfFew
    <3>3. QED
      BY <1>1, <2>2, <3>1, <3>2
  <2>3. CASE Bundle' = <<SetupCA>> /\ build' = {SetupCA}
    <3>1. SetupCA \in Known'
      BY <1>1, <1>2, <2>3
    <3>2. Elems(<<SetupCA>>) = {SetupCA}
      BY ElemsOfFew
    <3>3. QED
      BY <2>3, <3>1, <3>2
  <2>4. CASE AppendCA /\ Bundle' = Append(sec["server"].ca, NewCA) /\ pc' = "put"
    <3>1. NewCA \in Known
      <4>1. CASE Set("provided")
        BY <1>2, <4>1 DEF NewCA
      <4>2. CASE ~Set("provided")
        <5>1. staged # {}
          BY <2>4, <4>2 DEF AppendCA, Typed, Possible, Set
        <5>2. NewCA \in staged
          BY <4>2, <5>1 DEF NewCA
        <5>3. QED
          BY <1>2, <5>2 DEF Fresh
      <4>3. QED
        BY <4>1, <4>2
    <3>2. sec["server"].ca \in Seq(CA)
      BY <1>0, ServerCA DEF SecretsOK, Stored
    <3>3. Elems(Append(sec["server"].ca, NewCA)) \subseteq Elems(sec["server"].ca) \cup {NewCA}
      BY <3>2, ElemsOfAppend
    <3>4. QED
      BY <1>1, <2>4, <3>1, <3>3 DEF Fresh
  <2>5. QED
    BY <2>1, <2>2, <2>3, <2>4, SettledStep, BundleStep
<1>5. Elems(sec["server"].ca)' \subseteq Known'
  BY <1>1, <1>3 DEF Elems
<1>6. QED
  BY <1>1, <1>4, <1>5 DEF Fresh, Elems

-----------------------------------------------------------------------------
(* Which rotation takes which steps *)

PlannedSteps ==
  {"fingerprint", "check", "switch", "promote", "restartdb", "restart", "trust"}

Kinds ==
  cmd = "rotate" =>
    /\ pc = "generate" => flags = {"emergency"}
    /\ pc \in {"fingerprint", "check", "switch"} => "emergency" \notin flags
    /\ flags = {} => Ahead \in PlannedSteps

LEMMA KindsGoto ==
  ASSUME Kinds, NEW step, Goto(step), step \notin {"generate", "fingerprint"},
         step \in {"check", "switch"} => pc \in {"fingerprint", "check", "switch"},
         cmd = "rotate" /\ flags = {} /\ Ahead \in PlannedSteps => Ahead' \in PlannedSteps
  PROVE  Kinds'
<1>1. pc' = step /\ cmd' = cmd /\ flags' = flags
  BY Zenon DEF Goto, args
<1>2. PlannedSteps' = PlannedSteps
  BY DEF PlannedSteps
<1>3. QED
  BY <1>1, <1>2 DEF Kinds

LEMMA KindsStep == Typed /\ Kinds /\ [Next]_vars => Kinds'
<1> SUFFICES ASSUME Typed, Kinds, [Next]_vars PROVE Kinds'
  OBVIOUS
<1>0. TypeOK /\ Phases /\ Resumes
  BY DEF Typed
<1>1. CASE Abort \/ Succeed
  <2>1. cmd' = "none"
    BY <1>1, Zenon DEF Abort, Succeed, Finish
  <2>2. QED
    BY <2>1 DEF Kinds
<1>2. CASE UNCHANGED <<args, pc, next>>
  <2>1. pc' = pc /\ cmd' = cmd /\ flags' = flags /\ next' = next
    BY <1>2, Zenon DEF args
  <2>2. QED
    BY <2>1 DEF Kinds, Ahead, PlannedSteps
<1>3. CASE ThirdParty
  <2>1. pc \in {"chain", "dbchain", "walk", "dbwalk", "provided"}
    BY <1>3, Zenon DEF ThirdParty, ReadChain, SortNext, SortMissing, SortDone, ProvidedDone
  <2>2. Ahead \notin PlannedSteps
    BY <2>1 DEF Ahead, PlannedSteps
  <2>3. ASSUME NEW step \in {"dbchain", "walk", "dbwalk", "restartdb", "reuse", "put"}, Goto(step)
        PROVE  Kinds'
    BY <2>2, <2>3, KindsGoto
  <2>4. Invalid => Abort \/ Goto("dbchain")
    BY Zenon DEF Invalid
  <2>5. CASE ReadChain
    BY <1>1, <2>3, <2>4, <2>5 DEF ReadChain, WalkOf
  <2>6. CASE SortNext
    BY <2>3, <2>6 DEF SortNext
  <2>7. CASE SortMissing
    BY <1>1, <2>3, <2>4, <2>7 DEF SortMissing
  <2>8. CASE SortDone
    BY <1>1, <2>3, <2>4, <2>8, Zenon DEF SortDone, PutAll
  <2>9. CASE ProvidedDone
    BY <1>1, <2>3, <2>9 DEF ProvidedDone
  <2>10. QED
    BY <1>3, <2>5, <2>6, <2>7, <2>8, <2>9, Zenon DEF ThirdParty
<1>4. CASE BeginSetup \/ BeginRename \/ BeginAdd
  <2>1. cmd' \in {"setup", "rename", "addca"}
    BY <1>4, Zenon DEF BeginSetup, BeginRename, BeginAdd, Begin
  <2>2. QED
    BY <2>1 DEF Kinds
<1>5. CASE BeginRotate
  <2>1. PICK f \in RotateFlags :
          Begin("rotate", f, name,
             IF "emergency" \in f THEN (IF "provided" \in f THEN "chain" ELSE "generate")
             ELSE "fingerprint")
    BY <1>5, Zenon DEF BeginRotate
  <2>2. /\ flags' = f
        /\ pc' = IF "emergency" \in f THEN (IF "provided" \in f THEN "chain" ELSE "generate")
                 ELSE "fingerprint"
    BY <2>1, Zenon DEF Begin
  <2>3. "emergency" \in f /\ "provided" \notin f => f = {"emergency"}
    BY DEF RotateFlags
  <2>4. QED
    BY <2>2, <2>3 DEF Kinds, Ahead, PlannedSteps
<1>6. CASE Reuse \/ Decide \/ Issue \/ StopServer \/ AlterName \/ AppendCA
  <2>1. cmd # "rotate"
    <3>1. pc \in {"reuse", "reusedb", "decide", "issue", "stop", "alter", "append"}
      BY <1>6, Zenon DEF Reuse, Decide, Issue, StopServer, AlterName, AppendCA
    <3>2. QED
      BY <1>0, <3>1 DEF Phases, RotateSteps
  <2>2. cmd' = cmd \/ Abort
    <3>1. ASSUME NEW step, Goto(step) PROVE cmd' = cmd
      BY <3>1, Zenon DEF Goto, args
    <3>2. QED
      BY <1>6, <3>1, Zenon DEF Reuse, Decide, Issue, StopServer, AlterName, AppendCA, PutAll
  <2>3. QED
    BY <1>1, <2>1, <2>2 DEF Kinds
<1>7. CASE Generate
  <2>1. CASE cmd = "rotate" /\ ~Abort
    <3>1. pc = "generate" /\ Goto("promote")
      BY <1>7, <2>1, Zenon DEF Generate, AfterGenerate
    <3>2. flags = {"emergency"}
      BY <2>1, <3>1 DEF Kinds
    <3>3. QED
      BY <3>1, <3>2, KindsGoto
  <2>2. CASE cmd # "rotate" /\ ~Abort
    <3>1. Goto(AfterGenerate)
      BY <1>7, <2>2, Zenon DEF Generate
    <3>2. cmd' = cmd
      BY <3>1, Zenon DEF Goto, args
    <3>3. QED
      BY <2>2, <3>2 DEF Kinds
  <2>3. QED
    BY <1>1, <2>1, <2>2
<1>8. CASE Fingerprint \/ CheckClients
  <2>1. CASE ~Abort
    <3>1. /\ pc \in {"fingerprint", "check"}
          /\ \E step \in {"check", "switch"} : Goto(step)
      BY <1>8, <2>1, Zenon DEF Fingerprint, CheckClients
    <3>2. PICK step \in {"check", "switch"} : Goto(step)
      BY <3>1
    <3>3. pc' = step
      BY <3>2, Zenon DEF Goto
    <3>4. Ahead' \in PlannedSteps
      BY <3>3 DEF Ahead, PlannedSteps
    <3>5. QED
      BY <3>1, <3>2, <3>4, KindsGoto
  <2>2. QED
    BY <1>1, <2>1
<1>9. CASE Switch
  <2>1. CASE ~(Abort \/ Succeed)
    <3>1. Goto(IF Set("provided") THEN "chain" ELSE "promote")
      BY <1>9, <2>1, Zenon DEF Switch
    <3>2. pc' = IF Set("provided") THEN "chain" ELSE "promote"
      BY <3>1, Zenon DEF Goto
    <3>3. flags = {} => Ahead' \in PlannedSteps
      BY <3>2 DEF Set, Ahead, PlannedSteps
    <3>4. QED
      BY <3>1, <3>3, KindsGoto
  <2>2. QED
    BY <1>1, <2>1
<1>10. CASE Promote
  <2>1. CASE ~Abort
    <3>1. Goto("put") /\ next' = "restartdb"
      BY <1>10, <2>1, Zenon DEF Promote, PutAll
    <3>2. pc' = "put"
      BY <3>1, Zenon DEF Goto
    <3>3. Ahead' \in PlannedSteps
      BY <3>1, <3>2 DEF Ahead, PlannedSteps
    <3>4. QED
      BY <3>1, <3>3, KindsGoto
  <2>2. QED
    BY <1>1, <2>1
<1>11. CASE Put
  <2>1. pc = "put" /\ (Abort \/ Goto(next) \/ (Goto("put") /\ next' = next))
    BY <1>11, Zenon DEF Put
  <2>2. next \notin {"generate", "fingerprint", "check", "switch", "put"} /\ Ahead = next
    BY <1>0, <2>1 DEF Resumes, Ahead
  <2>3. CASE Goto(next)
    <3>1. pc' = next
      BY <2>3, Zenon DEF Goto
    <3>2. Ahead' = Ahead
      BY <2>2, <3>1 DEF Ahead
    <3>3. QED
      BY <2>2, <2>3, <3>2, KindsGoto
  <2>4. CASE Goto("put") /\ next' = next
    <3>1. pc' = "put"
      BY <2>4, Zenon DEF Goto
    <3>2. Ahead' = Ahead
      BY <2>2, <2>4, <3>1 DEF Ahead
    <3>3. QED
      BY <2>4, <3>2, KindsGoto
  <2>5. QED
    BY <1>1, <2>1, <2>3, <2>4
<1>12. CASE RestartDB \/ RestartServer \/ UpdateTrust
  <2>1. CASE ~(Abort \/ Succeed)
    <3>1. PICK step \in {"restart", "trust"} : Goto(step)
      BY <1>12, <2>1 DEF RestartDB, RestartServer, UpdateTrust
    <3>2. pc' = step
      BY <3>1, Zenon DEF Goto
    <3>3. Ahead' \in PlannedSteps
      BY <3>2 DEF Ahead, PlannedSteps
    <3>4. QED
      BY <3>1, <3>3, KindsGoto
  <2>2. QED
    BY <1>1, <2>1
<1>13. CASE Interrupt
  BY <1>1, <1>13, Zenon DEF Interrupt
<1>14. CASE Reboot \/ (\E c \in Client : Distribute(c)) \/ UNCHANGED vars
  BY <1>2, <1>14, Zenon DEF Reboot, Distribute, Kept, writing, vars
<1>15. QED
  BY <1>3, <1>4, <1>5, <1>6, <1>7, <1>8, <1>9, <1>10, <1>11, <1>12, <1>13, <1>14, Zenon
     DEF Next, Work, Prepare, Rotate

-----------------------------------------------------------------------------
(* What is staged is what the server was told to trust last *)

Listed == Len(Bundle) > 1 => staged \subseteq {Last(Bundle)}

\* The commands that part the two: mgradm ssl addca until it has added the new CA, or
\* when it adds that of a third party, and an emergency rotation.
Parted ==
  \/ cmd = "addca" /\ (Set("provided") \/ pc = "append")
  \/ cmd = "rotate" /\ Set("emergency")

Lists ==
  /\ ~botched /\ ~err /\ ~Parted => Listed
  /\ cmd = "addca" /\ ~Set("provided") /\ pc = "append"
       => staged = {made} /\ made \notin Elems(sec["server"].ca)
  /\ cmd = "rotate" /\ ~err /\ Ahead \in Renewed("server") => Len(Bundle) = 1

LEMMA ListsKept ==
  ASSUME Lists, Bundle' = Bundle, staged' = staged, botched' = botched, err' = err,
         cmd' = cmd, flags' = flags, pc # "append", pc' # "append",
         cmd = "rotate" => (Ahead' \in Renewed("server") => Ahead \in Renewed("server"))
  PROVE  Lists'
<1>1. Parted' <=> Parted
  BY DEF Parted, Set
<1>2. Listed' <=> Listed
  BY DEF Listed, Last
<1>3. ~botched' /\ ~err' /\ ~Parted' => Listed'
  BY <1>1, <1>2, Zenon DEF Lists
<1>4. cmd' = "rotate" /\ ~err' /\ Ahead' \in Renewed("server")' => Len(Bundle)' = 1
  <2>1. Renewed("server")' = Renewed("server") /\ Len(Bundle)' = Len(Bundle)
    BY DEF Renewed
  <2>2. QED
    BY <2>1, Zenon DEF Lists
<1>5. QED
  BY <1>3, <1>4, Zenon DEF Lists

\* A bundle of one CA leaves nothing to say.
LEMMA ListsOne ==
  ASSUME NEW c, Bundle' = <<c>>, pc' # "append"
  PROVE  Lists'
BY DEF Lists, Listed


\* A command that fails says nothing of what it leaves.
LEMMA ListsAborted ==
  ASSUME Abort
  PROVE  Lists'
<1>1. cmd' = "none" /\ botched' = TRUE
  BY Zenon DEF Abort, Finish
<1>2. QED
  BY <1>1, Zenon DEF Lists

\* A step of a command that writes nothing and stages nothing.
LEMMA ListsGoto ==
  ASSUME Typed, Settled, Lists, NEW step, Goto(step), step \notin {"put", "append"},
         pc \notin {"put", "append"}, sec' = sec, UNCHANGED <<writing, err>>, staged' = staged,
         cmd = "rotate" => (step \in Renewed("server") => pc \in Renewed("server"))
  PROVE  Lists'
<1>1. /\ pc' = step /\ cmd' = cmd /\ flags' = flags /\ botched' = botched /\ err' = err
      /\ todo' = todo /\ bundle' = bundle
  BY Zenon DEF Goto, args, writing
<1>2. Bundle' = Bundle
  BY <1>1 DEF Bundle, After, New
<1>3. Ahead' = step /\ Ahead = pc
  BY <1>1 DEF Ahead
<1>4. pc # "append" /\ pc' # "append"
  BY <1>1
<1>5. QED
  BY <1>1, <1>2, <1>3, <1>4, ListsKept

LEMMA ListsBegins ==
  ASSUME Typed, Settled, Fitting, Lists, BeginSetup \/ BeginRename \/ BeginAdd \/ BeginRotate
  PROVE  Lists'
<1>1. /\ pc = "idle" /\ sec' = sec /\ UNCHANGED writing /\ err' = err /\ botched' = botched
      /\ staged' = staged
  BY Zenon DEF BeginSetup, BeginRename, BeginAdd, BeginRotate, Begin, Kept, disk
<1>2. cmd = "none" /\ todo = <<>> /\ todo' = todo /\ bundle' = bundle
  BY <1>1, Zenon DEF Typed, Phases, Settled, writing
<1>3. Bundle' = Bundle
  BY <1>1, <1>2 DEF Bundle, After, New
<1>4. ~botched /\ ~err => Listed
  BY <1>2 DEF Lists, Parted
<1>5. ~botched' /\ ~err' => Listed'
  <2>1. Listed' <=> Listed
    BY <1>1, <1>3 DEF Listed, Last
  <2>2. QED
    BY <1>1, <1>4, <2>1, Zenon
<1>6. cmd' = "rotate" => pc' \in {"chain", "generate", "fingerprint"}
  BY Zenon DEF BeginSetup, BeginRename, BeginAdd, BeginRotate, Begin
<1>7. cmd' = "rotate" => Ahead' \notin Renewed("server")'
  BY <1>6 DEF Ahead, Renewed
<1>8. cmd' = "addca" /\ pc' = "append" => flags' = {"provided"}
  <2>1. CASE BeginAdd
    BY <2>1, Zenon DEF BeginAdd, Begin
  <2>2. CASE BeginSetup \/ BeginRename \/ BeginRotate
    BY <2>2, Zenon DEF BeginSetup, BeginRename, BeginRotate, Begin
  <2>3. QED
    BY <2>1, <2>2
<1>9. cmd' = "addca" /\ pc' = "append" => Set("provided")'
  BY <1>8 DEF Set
<1>10. QED
  BY <1>5, <1>7, <1>9, Zenon DEF Lists

LEMMA ListsThirdParty ==
  ASSUME Typed, Settled, Fitting, Lists, ThirdParty
  PROVE  Lists'
<1>0. pc \in {"chain", "dbchain", "walk", "dbwalk", "provided"}
  BY Zenon DEF ThirdParty, ReadChain, SortNext, SortMissing, SortDone, ProvidedDone
<1>1. CASE Invalid
  <2>1. CASE ~Abort
    <3>1. err' = TRUE /\ Goto("dbchain")
      BY <1>1, <2>1, Zenon DEF Invalid
    <3>2. pc' = "dbchain"
      BY <3>1, Zenon DEF Goto
    <3>3. QED
      BY <3>1, <3>2 DEF Lists
  <2>2. QED
    BY <2>1, ListsAborted
<1>2. CASE Abort
  BY <1>2, ListsAborted
<1>3. CASE ReadChain /\ ~Invalid
  <2>1. /\ Goto(WalkOf(pc)) /\ sec' = sec /\ UNCHANGED <<writing, err>> /\ staged' = staged
        /\ pc \in {"chain", "dbchain"}
    BY <1>3, Zenon DEF ReadChain, Stay, disk
  <2>2. WalkOf(pc) \notin {"put", "append"}
    BY DEF WalkOf
  <2>3. WalkOf(pc) \in Renewed("server") => pc \in Renewed("server")
    BY <2>1 DEF WalkOf, Renewed
  <2>4. QED
    BY <1>0, <2>1, <2>2, <2>3, ListsGoto
<1>4. CASE SortNext
  <2>1. Goto(pc) /\ sec' = sec /\ UNCHANGED <<writing, err>> /\ staged' = staged
    BY <1>4, Zenon DEF SortNext, Stay, disk
  <2>2. QED
    BY <1>0, <2>1, ListsGoto
<1>5. CASE SortDone /\ ~Invalid
  <2>1. /\ bundle' = [NoBundle EXCEPT ![OwnerOf(pc)] = <<Provided>>]
        /\ PutAll(TLSSecrets(OwnerOf(pc)), IF pc = "walk" THEN "dbchain" ELSE "provided")
        /\ sec' = sec /\ err' = err /\ pc \in {"walk", "dbwalk"} /\ staged' = staged
    BY <1>5, Zenon DEF SortDone, Stay, disk
  <2>2. /\ todo' = TLSSecrets(OwnerOf(pc)) /\ pc' = "put" /\ cmd' = cmd /\ flags' = flags
        /\ botched' = botched /\ next' = IF pc = "walk" THEN "dbchain" ELSE "provided"
    BY <2>1, Zenon DEF PutAll, Goto, args
  <2>3. PICK w \in Owner : w = OwnerOf(pc)
    BY DEF OwnerOf, Owner
  <2>4. Elems(todo') = {<<w, f>> : f \in Part}
    BY <2>2, <2>3, SecretsOf
  <2>5. CASE w = "server"
    <3>1. bundle'["server"] = <<Provided>>
      BY <2>1, <2>3, <2>5 DEF NoBundle
    <3>2. Bundle' = <<Provided>>
      BY <2>4, <2>5, <3>1, ServerCA DEF Bundle, After, New
    <3>3. QED
      BY <2>2, <3>2, ListsOne
  <2>6. CASE w # "server"
    <3>1. todo = <<>>
      BY <1>0 DEF Settled
    <3>2. Bundle' = Bundle
      BY <2>1, <2>4, <2>6, <3>1, ElemsOfFew DEF Bundle, After
    <3>3. pc = "dbwalk"
      BY <2>1, <2>3, <2>6 DEF OwnerOf
    <3>4. Ahead = "dbwalk" /\ "dbwalk" \in Renewed("server")
      BY <3>3 DEF Ahead, Renewed
    <3>5. pc # "append" /\ pc' # "append"
      BY <3>3, <2>2
    <3>6. QED
      BY <2>1, <2>2, <3>2, <3>4, <3>5, ListsKept
  <2>7. QED
    BY <2>5, <2>6
<1>6. CASE ProvidedDone
  <2>1. \/ Abort
        \/ /\ Goto(IF cmd = "rotate" THEN "restartdb" ELSE "reuse")
           /\ sec' = sec /\ UNCHANGED <<writing, err>> /\ staged' = staged
    BY <1>6, Zenon DEF ProvidedDone, Stay, Kept, disk
  <2>2. pc = "provided" /\ "provided" \in Renewed("server")
    BY <1>6 DEF ProvidedDone, Renewed
  <2>3. ASSUME NEW step \in {"restartdb", "reuse"}, Goto(step), ~Abort PROVE Lists'
    BY <2>1, <2>2, <2>3, ListsGoto
  <2>4. QED
    BY <1>2, <2>1, <2>3
<1>7. QED
  BY <1>1, <1>2, <1>3, <1>4, <1>5, <1>6, Zenon DEF ThirdParty, ReadChain, SortMissing, SortDone

LEMMA ListsPrepare ==
  ASSUME Typed, Settled, Fitting, Lists, Settled', [Next]_vars,
         Reuse \/ Decide \/ Issue \/ StopServer \/ AlterName
  PROVE  Lists'
<1>0. pc \in {"reuse", "reusedb", "decide", "issue", "stop", "alter"}
  BY Zenon DEF Reuse, Decide, Issue, StopServer, AlterName
<1>1. cmd # "rotate" /\ cmd # "addca"
  BY <1>0 DEF Typed, Phases, RotateSteps, AddSteps
<1>2. CASE Abort
  BY <1>2, ListsAborted
<1>3. ASSUME NEW step \in {"reusedb", "decide", "stop", "restartdb", "issue", "alter", "restart"},
             Goto(step), UNCHANGED <<writing, err>>, sec' = sec, staged' = staged
      PROVE  Lists'
  BY <1>0, <1>1, <1>3, ListsGoto
<1>4. sec' = sec
  BY <1>0, Zenon DEF Reuse, Decide, Issue, StopServer, AlterName, Stay
<1>5. CASE Reuse
  <2>1. staged' = staged
    BY <1>5, Zenon DEF Reuse, Stay, disk
  <2>2. CASE Goto(AfterReuse)
    <3>1. UNCHANGED <<writing, err>>
      <4>1. ASSUME NEW S, PutAll(S, AfterReuse) PROVE FALSE
        <5>1. pc' = "put" /\ pc' = AfterReuse
          BY <2>2, <4>1, Zenon DEF PutAll, Goto
        <5>2. QED
          BY <5>1 DEF AfterReuse
      <4>2. QED
        BY <1>5, <4>1, Zenon DEF Reuse, Kept
    <3>2. QED
      BY <1>3, <1>4, <2>1, <2>2, <3>1 DEF AfterReuse
  <2>3. CASE ~Goto(AfterReuse)
    <3>1. /\ \E p \in files : bundle' = [NoBundle EXCEPT ![Reused] = <<p.ca>>]
          /\ PutAll(TLSSecrets(Reused), AfterReuse) /\ err' = err
      BY <1>5, <2>3, Zenon DEF Reuse
    <3>2. PICK p \in files : bundle' = [NoBundle EXCEPT ![Reused] = <<p.ca>>]
      BY <3>1
    <3>3. /\ todo' = TLSSecrets(Reused) /\ pc' = "put" /\ cmd' = cmd /\ flags' = flags
          /\ botched' = botched
      BY <3>1, Zenon DEF PutAll, Goto, args
    <3>4. PICK w \in Owner : w = Reused
      BY DEF Reused, Owner
    <3>5. Elems(todo') = {<<w, f>> : f \in Part}
      BY <3>3, <3>4, SecretsOf
    <3>6. CASE w = "server"
      <4>1. bundle'["server"] = <<p.ca>>
        BY <3>2, <3>4, <3>6 DEF NoBundle
      <4>2. Bundle' = <<p.ca>>
        BY <3>5, <3>6, <4>1, ServerCA DEF Bundle, After, New
      <4>3. QED
        BY <3>3, <4>2, ListsOne
    <3>7. CASE w # "server"
      <4>1. todo = <<>>
        BY <1>0 DEF Settled
      <4>2. Bundle' = Bundle
        BY <1>4, <3>5, <3>7, <4>1, ElemsOfFew DEF Bundle, After
      <4>3. pc # "append" /\ pc' # "append"
        BY <1>0, <3>3
      <4>4. QED
        BY <1>1, <2>1, <3>1, <3>3, <4>2, <4>3, ListsKept
    <3>8. QED
      BY <3>6, <3>7
  <2>4. QED
    BY <2>2, <2>3
<1>6. CASE Decide
  <2>1. staged' = staged
    BY <1>6, Zenon DEF Decide, Stay, disk
  <2>2. Abort \/ (UNCHANGED <<writing, err>> /\ (Goto("stop") \/ Goto("restartdb") \/ Goto("issue")))
    <3>1. CASE ~Abort
      <4>1. UNCHANGED <<writing, err>>
        BY <1>6, <3>1, Zenon DEF Decide, Kept
      <4>2. Goto("stop") \/ Goto("restartdb") \/ Goto("issue")
        BY <1>6, <3>1 DEF Decide
      <4>3. QED
        BY <4>1, <4>2
    <3>2. QED
      BY <3>1
  <2>3. QED
    BY <1>2, <1>3, <1>4, <2>1, <2>2
<1>7. CASE Issue
  <2>1. CASE ~Abort
    <3>1. /\ bundle' = [o \in Owner |-> <<SetupCA>>] /\ pc' = "put"
          /\ todo' = TLSSecrets("server") \o TLSSecrets("db")
      BY <1>7, <2>1, Zenon DEF Issue, PutAll, Goto
    <3>2. <<"server", "ca">> \in Elems(todo')
      BY <3>1, SecretsOfBoth, ServerCA
    <3>3. Bundle' = <<SetupCA>>
      BY <3>1, <3>2, ServerCA DEF Bundle, After, New
    <3>4. QED
      BY <3>1, <3>3, ListsOne
  <2>2. QED
    BY <1>2, <2>1
<1>8. CASE StopServer \/ AlterName
  <2>1. staged' = staged
    BY <1>8, Zenon DEF StopServer, AlterName, disk
  <2>2. Abort \/ (UNCHANGED <<writing, err>> /\ (Goto("alter") \/ Goto("restart")))
    BY <1>8, Zenon DEF StopServer, AlterName, Kept
  <2>3. QED
    BY <1>2, <1>3, <1>4, <2>1, <2>2
<1>9. QED
  BY <1>5, <1>6, <1>7, <1>8


\* A CA that is made is new, and one that is added is the last.
LEMMA ListsAdd ==
  ASSUME Typed, Settled, Fitting, Fresh, Kinds, Lists, Generate \/ AppendCA
  PROVE  Lists'
<1>0. TypeOK /\ SecretsOK /\ DiskOK /\ WritingOK /\ CallOK
  BY TypeParts DEF Typed
<1>1. CASE Abort
  BY <1>1, ListsAborted
<1>2. CASE Generate /\ ~Abort
  <2>1. /\ staged' = {made + 1} /\ made' = made + 1 /\ Goto(AfterGenerate) /\ pc = "generate"
        /\ sec' = sec /\ UNCHANGED <<writing, err>>
    BY <1>2, Zenon DEF Generate, Kept
  <2>2. pc' = AfterGenerate /\ cmd' = cmd /\ flags' = flags
    BY <2>1, Zenon DEF Goto, args
  <2>3. "provided" \notin flags /\ (cmd = "addca" \/ cmd = "rotate") /\ made < MaxCA
    BY <1>0, <2>1 DEF Typed, Possible, Phases, CallOK, Command, PrepareSteps, Preparing
  <2>4. CASE cmd = "addca"
    <3>1. pc' = "append" /\ cmd' = "addca"
      BY <2>2, <2>4 DEF AfterGenerate
    <3>2. made + 1 \notin Known
      BY <1>0, <2>3, BoundAssumption DEF Known, Provided, DiskOK
    <3>3. made' \notin Elems(sec'["server"].ca)
      BY <2>1, <3>2 DEF Fresh
    <3>4. QED
      BY <2>1, <3>1, <3>3 DEF Lists, Parted, Elems
  <2>5. CASE cmd = "rotate"
    <3>1. pc' = "promote" /\ cmd' = "rotate"
      BY <2>2, <2>5 DEF AfterGenerate
    <3>2. "emergency" \in flags
      BY <2>1, <2>5 DEF Kinds
    <3>3. Parted' /\ Ahead' \notin Renewed("server")'
      BY <2>2, <3>1, <3>2 DEF Parted, Set, Ahead, Renewed
    <3>4. QED
      BY <3>1, <3>3 DEF Lists
  <2>6. QED
    BY <2>3, <2>4, <2>5
<1>3. CASE AppendCA /\ ~Abort
  <2>1. pc = "append" /\ staged' = staged /\ made' = made /\ sec' = sec
    BY <1>3, Zenon DEF AppendCA, Stay, disk
  <2>2. pc' \in {"put", "restartdb"} /\ cmd' = cmd /\ flags' = flags /\ cmd = "addca"
    <3>1. Goto("put") \/ Goto("restartdb")
      BY <1>3, Zenon DEF AppendCA, PutAll
    <3>2. pc' \in {"put", "restartdb"} /\ cmd' = cmd /\ flags' = flags
      BY <3>1, Zenon DEF Goto, args
    <3>3. cmd = "addca"
      BY <1>0, <2>1 DEF Typed, Phases, CallOK, Command, PrepareSteps, RotateSteps, Preparing
    <3>4. QED
      BY <3>2, <3>3
  <2>3. CASE Set("provided")
    <3>1. Parted'
      BY <2>2, <2>3 DEF Parted, Set
    <3>2. QED
      BY <2>2, <3>1 DEF Lists
  <2>4. CASE ~Set("provided")
    <3>1. staged = {made} /\ made \notin Elems(sec["server"].ca)
      BY <2>1, <2>2, <2>4 DEF Lists
    <3>2. NewCA = made
      BY <2>4, <3>1 DEF NewCA
    <3>3. Lacks("server")
      BY <3>1, <3>2 DEF Lacks
    <3>4. pc' = "put"
      <4>1. ~(~(\E o \in Owner : Lacks(o)))
        BY <3>3, ServerCA
      <4>2. Goto("put")
        BY <1>3, <4>1, Zenon DEF AppendCA, PutAll
      <4>3. QED
        BY <4>2, Zenon DEF Goto
    <3>5. /\ bundle' = [o \in Owner |-> Append(sec[o].ca, NewCA)]
          /\ <<"server", "ca">> \in Elems(todo')
      BY <1>3, <3>3, <3>4, AppendWrites
    <3>6. Bundle' = Append(sec["server"].ca, made)
      BY <3>2, <3>5, ServerCA DEF Bundle, After, New
    <3>7. sec["server"].ca \in Seq(CA)
      BY <1>0, ServerCA DEF SecretsOK, Stored
    <3>8. Last(Append(sec["server"].ca, made)) = made
      BY <3>7 DEF Last
    <3>9. Listed'
      BY <2>1, <3>1, <3>6, <3>8 DEF Listed, Last
    <3>10. QED
      BY <2>2, <3>4, <3>9 DEF Lists
  <2>5. QED
    BY <2>3, <2>4
<1>4. QED
  BY <1>1, <1>2, <1>3

LEMMA ListsRotate ==
  ASSUME Typed, Settled, Fitting, Kinds, Lists, Fingerprint \/ CheckClients \/ Switch \/ Promote
  PROVE  Lists'
<1>0. pc \in {"fingerprint", "check", "switch", "promote"} /\ sec' = sec /\ ~err
  <2>1. pc \in {"fingerprint", "check", "switch", "promote"}
    BY Zenon DEF Fingerprint, CheckClients, Switch, Promote
  <2>2. sec' = sec
    BY Zenon DEF Fingerprint, CheckClients, Switch, Promote, Stay
  <2>3. ~err
    BY <2>1 DEF Fitting, Ahead, Owed
  <2>4. QED
    BY <2>1, <2>2, <2>3
<1>1. CASE Abort
  BY <1>1, ListsAborted
<1>2. ASSUME NEW step \in {"check", "switch", "promote", "chain"}, Goto(step),
             UNCHANGED <<writing, err>>, staged' = staged
      PROVE  Lists'
  <2>1. step \notin Renewed("server")
    BY DEF Renewed
  <2>2. QED
    BY <1>0, <1>2, <2>1, ListsGoto
<1>3. CASE Fingerprint \/ CheckClients
  <2>1. staged' = staged
    BY <1>3, Zenon DEF Fingerprint, CheckClients, Stay, disk
  <2>2. Abort \/ ((Goto("check") \/ Goto("switch")) /\ UNCHANGED <<writing, err>>)
    BY <1>3, Zenon DEF Fingerprint, CheckClients, Kept
  <2>3. QED
    BY <1>1, <1>2, <2>1, <2>2
<1>4. CASE Switch
  <2>1. staged' = staged
    BY <1>4, Zenon DEF Switch, Stay, disk
  <2>2. CASE Set("checkonly") /\ Succeed
    <3>1. /\ todo = <<>> /\ todo' = <<>> /\ cmd' = "none"
          /\ botched' = IF cmd = "rotate" /\ ~Set("checkonly") THEN FALSE
                        ELSE botched \/ (cmd = "addca" /\ Set("provided"))
      BY <1>0, <2>2, Zenon DEF Settled, Succeed, Finish
    <3>2. Bundle' = Bundle
      BY <1>0, <3>1, ElemsOfFew DEF Bundle, After
    <3>3. Listed' <=> Listed
      BY <2>1, <3>2 DEF Listed, Last
    <3>4. ~botched' => ~botched
      BY <2>2, <3>1, Zenon
    <3>5. ~Parted
      <4>1. cmd = "rotate"
        BY <1>0, <1>4 DEF Typed, Phases, TypeOK, Command, AddSteps, PrepareSteps, Preparing, Switch
      <4>2. QED
        BY <1>4, <4>1 DEF Kinds, Parted, Set, Switch
    <3>6. ~botched' => Listed'
      BY <1>0, <3>3, <3>4, <3>5, Zenon DEF Lists
    <3>7. QED
      BY <3>1, <3>6, Zenon DEF Lists
  <2>3. CASE Goto(IF Set("provided") THEN "chain" ELSE "promote") /\ Kept
    <3>1. UNCHANGED <<writing, err>> /\ (Goto("chain") \/ Goto("promote"))
      BY <2>3 DEF Kept
    <3>2. QED
      BY <1>2, <2>1, <3>1
  <2>4. QED
    BY <1>1, <1>4, <2>2, <2>3, Zenon DEF Switch
<1>5. CASE Promote
  <2>1. CASE ~Abort
    <3>1. PICK c \in staged : /\ bundle' = [o \in Owner |-> <<c>>] /\ pc' = "put"
                              /\ todo' = TLSSecrets("server") \o TLSSecrets("db")
      BY <1>5, <2>1, Zenon DEF Promote, PutAll, Goto
    <3>2. <<"server", "ca">> \in Elems(todo')
      BY <3>1, SecretsOfBoth, ServerCA
    <3>3. Bundle' = <<c>>
      BY <3>1, <3>2, ServerCA DEF Bundle, After, New
    <3>4. QED
      BY <3>1, <3>3, ListsOne
  <2>2. QED
    BY <1>1, <2>1
<1>6. QED
  BY <1>3, <1>4, <1>5

LEMMA ListsPut ==
  ASSUME Typed, Settled, Fitting, Lists, Put
  PROVE  Lists'
<1>0. TypeOK /\ WritingOK /\ pc = "put" /\ todo # <<>> /\ Resumes
  <2>1. pc = "put" /\ todo # <<>>
    BY Zenon DEF Put
  <2>2. QED
    BY <2>1, TypeParts DEF Typed
<1>1. CASE Abort
  BY <1>1, ListsAborted
<1>2. PICK o \in Owner, f \in Part : o = Head(todo)[1] /\ f = Head(todo)[2] /\ Head(todo) = <<o, f>>
  BY <1>0, HeadTyped
<1>3. Ahead = next /\ next \notin {"put", "append"}
  BY <1>0 DEF Ahead, Resumes
<1>4. CASE next = "dbchain" /\ err' = TRUE /\ Goto(next)
  <2>1. pc' = "dbchain"
    BY <1>4, Zenon DEF Goto
  <2>2. QED
    BY <1>4, <2>1 DEF Lists
<1>5. CASE /\ sec' = [sec EXCEPT ![o][f] = New(o, f)] /\ err' = err
           /\ \/ Len(todo) = 1 /\ Goto(next) /\ Written
              \/ todo' = Tail(todo) /\ Goto("put") /\ UNCHANGED <<pair, bundle, next>>
  <2>1. cmd' = cmd /\ flags' = flags /\ botched' = botched
    BY <1>5, Zenon DEF Goto, args
  <2>2. Ahead' = Ahead /\ pc' # "append"
    <3>1. CASE Goto(next)
      <4>1. pc' = next
        BY <3>1, Zenon DEF Goto
      <4>2. QED
        BY <1>3, <4>1 DEF Ahead
    <3>2. CASE Goto("put") /\ next' = next
      <4>1. pc' = "put"
        BY <3>2, Zenon DEF Goto
      <4>2. QED
        BY <1>3, <3>2, <4>1 DEF Ahead
    <3>3. QED
      BY <1>5, <3>1, <3>2, Zenon
  <2>3. \/ Len(todo) = 1 /\ todo' = <<>>
        \/ todo' = Tail(todo) /\ pair' = pair /\ bundle' = bundle
    BY <1>5, Zenon DEF Written
  <2>4. After("server", "ca")' = After("server", "ca")
    BY <1>0, <1>2, <1>5, <2>3, AfterPut, ServerCA
  <2>5. Bundle' = Bundle
    BY <2>4 DEF Bundle
  <2>6. staged' = staged
    BY Zenon DEF Put, disk
  <2>7. cmd = "rotate" => (Ahead' \in Renewed("server") => Ahead \in Renewed("server"))
    BY <2>2
  <2>8. pc # "append"
    BY <1>0
  <2>9. err' = err
    BY <1>5
  <2>10. QED
    BY <2>1, <2>2, <2>5, <2>6, <2>7, <2>8, <2>9, ListsKept
<1>6. QED
  BY <1>1, <1>2, <1>4, <1>5 DEF Put

\* A rotation that succeeds leaves one CA; other commands leave what they have kept.
LEMMA ListsRestarts ==
  ASSUME Typed, Settled, Fitting, Lists, RestartDB \/ RestartServer \/ UpdateTrust
  PROVE  Lists'
<1>0. /\ pc \in {"restartdb", "restart", "trust"} /\ sec' = sec /\ staged' = staged
  BY Zenon DEF RestartDB, RestartServer, UpdateTrust, disk
<1>1. ~err /\ todo = <<>>
  BY <1>0 DEF Fitting, Ahead, Owed, Settled
<1>2. CASE Abort
  BY <1>2, ListsAborted
<1>3. CASE ~(Abort \/ Succeed)
  <2>1. UNCHANGED <<writing, err>> /\ (Goto("restart") \/ Goto("trust"))
    BY <1>3, Zenon DEF RestartDB, RestartServer, UpdateTrust, Kept
  <2>2. pc \in Renewed("server")
    BY <1>0 DEF Renewed
  <2>3. ASSUME NEW step \in {"restart", "trust"}, Goto(step) PROVE Lists'
    BY <1>0, <2>1, <2>2, <2>3, ListsGoto
  <2>4. QED
    BY <2>1, <2>3
<1>4. CASE Succeed
  <2>1. /\ todo' = <<>> /\ cmd' = "none"
        /\ botched' = IF cmd = "rotate" /\ ~Set("checkonly") THEN FALSE
                      ELSE botched \/ (cmd = "addca" /\ Set("provided"))
    BY <1>4, Zenon DEF Succeed, Finish
  <2>2. Bundle' = Bundle
    BY <1>0, <1>1, <2>1, ElemsOfFew DEF Bundle, After
  <2>3. Listed' <=> Listed
    BY <1>0, <2>2 DEF Listed, Last
  <2>4. ~botched' => Listed'
    <3>1. CASE cmd = "rotate"
      <4>1. Ahead \in Renewed("server")
        BY <1>0 DEF Ahead, Renewed
      <4>2. Len(Bundle) = 1
        BY <1>1, <3>1, <4>1, Zenon DEF Lists
      <4>3. QED
        BY <2>3, <4>2 DEF Listed
    <3>2. CASE cmd # "rotate"
      <4>1. ~botched' => ~botched /\ ~(cmd = "addca" /\ Set("provided"))
        BY <2>1, <3>2, Zenon
      <4>2. pc # "append"
        BY <1>0
      <4>3. ~botched' => ~Parted
        BY <3>2, <4>1, <4>2, Zenon DEF Parted
      <4>4. QED
        BY <1>1, <2>3, <4>1, <4>3, Zenon DEF Lists
    <3>3. QED
      BY <3>1, <3>2
  <2>5. QED
    BY <2>1, <2>4, Zenon DEF Lists
<1>5. QED
  BY <1>2, <1>3, <1>4

LEMMA ListsStep ==
  Typed /\ Settled /\ Fitting /\ Fresh /\ Kinds /\ Lists /\ [Next]_vars => Lists'
<1> SUFFICES ASSUME Typed, Settled, Fitting, Fresh, Kinds, Lists, [Next]_vars PROVE Lists'
  OBVIOUS
<1>1. Settled'
  BY SettledStep
<1>2. CASE Interrupt
  BY <1>2, ListsAborted, Zenon DEF Interrupt
<1>3. CASE Reboot \/ (\E c \in Client : Distribute(c)) \/ UNCHANGED vars
  <2>1. /\ sec' = sec /\ todo' = todo /\ bundle' = bundle /\ next' = next /\ pc' = pc
        /\ cmd' = cmd /\ flags' = flags /\ staged' = staged /\ made' = made
    BY <1>3, Zenon DEF Reboot, Distribute, Kept, vars, args, writing, disk
  <2>2. botched' = botched /\ err' = err
    BY <1>3, Zenon DEF Reboot, Distribute, Kept, vars
  <2>3. Bundle' = Bundle
    BY <2>1 DEF Bundle, After, New
  <2>4. Parted' = Parted /\ Listed' = Listed /\ Ahead' = Ahead /\ Set("provided")' = Set("provided")
        /\ Renewed("server")' = Renewed("server") /\ Elems(sec["server"].ca)' = Elems(sec["server"].ca)
        /\ Len(Bundle)' = Len(Bundle)
    BY <2>1, <2>3 DEF Parted, Set, Listed, Last, Ahead, Renewed
  <2>5. ~botched' /\ ~err' /\ ~Parted' => Listed'
    BY <2>2, <2>4, Zenon DEF Lists
  <2>6. cmd' = "addca" /\ ~Set("provided")' /\ pc' = "append"
          => staged' = {made'} /\ made' \notin Elems(sec["server"].ca)'
    BY <2>1, <2>4 DEF Lists
  <2>7. cmd' = "rotate" /\ ~err' /\ Ahead' \in Renewed("server")' => Len(Bundle)' = 1
    BY <2>1, <2>2, <2>4, Zenon DEF Lists
  <2>8. QED
    BY <2>5, <2>6, <2>7, Zenon DEF Lists
<1>4. CASE Work
  BY <1>1, <1>4, ListsThirdParty, ListsBegins, ListsPrepare, ListsAdd, ListsRotate, ListsPut,
     ListsRestarts, Zenon DEF Work, Prepare, Rotate
<1>5. QED
  BY <1>2, <1>3, <1>4, Zenon DEF Next

-----------------------------------------------------------------------------
(* What the server runs with is what its secrets hold *)

\* The steps before which nothing is written that is not read again.
Quiet == {"idle", "generate", "fingerprint", "check", "switch", "promote"}

LEMMA QuietSources ==
  ASSUME Typed, [Next]_vars, pc' \in Quiet
  PROVE  \/ Abort
         \/ BeginAdd \/ BeginRotate \/ Generate \/ Fingerprint \/ CheckClients \/ Switch
         \/ RestartServer /\ Succeed
         \/ UpdateTrust
         \/ Reboot \/ (\E c \in Client : Distribute(c)) \/ UNCHANGED vars
<1>1. ASSUME NEW step, Goto(step), step \notin Quiet PROVE FALSE
  BY <1>1, Zenon DEF Goto
<1> DEFINE Loud == {"put", "reuse", "reusedb", "decide", "issue", "stop", "alter", "restartdb",
                    "restart", "trust", "chain", "dbchain", "walk", "dbwalk", "provided"}
<1>2. ASSUME NEW step \in Loud, Goto(step) PROVE FALSE
  BY <1>1, <1>2 DEF Quiet
<1>3. CASE ThirdParty
  <2>1. Invalid => Abort
    BY <1>2 DEF Invalid
  <2>2. CASE ReadChain
    BY <1>2, <2>1, <2>2 DEF ReadChain, WalkOf
  <2>3. CASE SortNext
    <3>1. pc \in Loud /\ Goto(pc)
      BY <2>3 DEF SortNext
    <3>2. QED
      BY <1>2, <3>1
  <2>4. CASE SortMissing
    BY <2>1, <2>4, Zenon DEF SortMissing
  <2>5. CASE SortDone
    BY <1>2, <2>1, <2>5 DEF SortDone, PutAll
  <2>6. CASE ProvidedDone
    BY <1>2, <2>6 DEF ProvidedDone
  <2>7. QED
    BY <1>3, <2>2, <2>3, <2>4, <2>5, <2>6, Zenon DEF ThirdParty
<1>4. CASE BeginSetup \/ BeginRename
  <2>1. \E f : pc' = FirstStep(f)
    BY <1>4, Zenon DEF BeginSetup, BeginRename, Begin
  <2>2. QED
    BY <2>1 DEF FirstStep, Quiet
<1>5. CASE Reuse
  <2>1. Goto(AfterReuse) => FALSE
    BY <1>2 DEF AfterReuse
  <2>2. QED
    BY <1>2, <1>5, <2>1 DEF Reuse, PutAll
<1>6. CASE Decide \/ Issue \/ StopServer \/ AlterName
  BY <1>2, <1>6 DEF Decide, Issue, StopServer, AlterName, PutAll
<1>7. CASE AppendCA \/ Promote
  BY <1>2, <1>7 DEF AppendCA, Promote, PutAll
<1>8. CASE Put
  <2>1. pc = "put" /\ (Abort \/ Goto(next) \/ Goto("put"))
    BY <1>8, Zenon DEF Put
  <2>2. next \in Loud
    BY <2>1 DEF Typed, Resumes
  <2>3. QED
    BY <1>2, <2>1, <2>2
<1>9. CASE RestartDB \/ RestartServer
  BY <1>2, <1>9 DEF RestartDB, RestartServer
<1>10. CASE Interrupt
  BY <1>10, Zenon DEF Interrupt
<1>11. QED
  BY <1>3, <1>4, <1>5, <1>6, <1>7, <1>8, <1>9, <1>10, Zenon DEF Next, Work, Prepare, Rotate

RunsFit == ~botched /\ pc \in Quiet => \A m \in run["server"] : m.ca = sec["server"].ca

LEMMA RunsFitStep == Typed /\ Restarted /\ RunsFit /\ [Next]_vars => RunsFit'
<1> SUFFICES ASSUME Typed, Restarted, RunsFit, [Next]_vars, ~botched', pc' \in Quiet
             PROVE  \A m \in run'["server"] : m.ca = sec'["server"].ca
  BY DEF RunsFit, Quiet
<1>0. TypeOK /\ RunOK
  BY TypeParts DEF Typed
<1>1. ~Abort
  BY Zenon DEF Abort, Finish
<1>2. \A m \in Started("server") : m.ca = sec["server"].ca
  BY DEF Started, Mounted
<1>3. ASSUME run'["server"] \in {run["server"], Started("server")}, sec' = sec,
             run'["server"] = run["server"] => (~botched /\ pc \in Quiet) \/ run["server"] = Started("server")
      PROVE  \A m \in run'["server"] : m.ca = sec'["server"].ca
  <2>1. CASE ~botched /\ pc \in Quiet /\ run'["server"] = run["server"]
    <3>1. \A m \in run["server"] : m.ca = sec["server"].ca
      BY <2>1, Zenon DEF RunsFit
    <3>2. QED
      BY <1>3, <2>1, <3>1
  <2>2. CASE run'["server"] = Started("server")
    BY <1>2, <1>3, <2>2
  <2>3. QED
    BY <1>3, <2>1, <2>2, Zenon
<1>4. CASE BeginAdd \/ BeginRotate \/ (\E c \in Client : Distribute(c)) \/ UNCHANGED vars
  <2>1. sec' = sec /\ run' = run /\ botched' = botched /\ (pc = "idle" \/ pc' = pc)
    BY <1>4, Zenon DEF BeginAdd, BeginRotate, Begin, Distribute, vars
  <2>2. ~botched /\ pc \in Quiet
    <3>1. pc \in Quiet
      BY <2>1 DEF Quiet
    <3>2. QED
      BY <2>1, <3>1, Zenon
  <2>3. QED
    BY <1>3, <2>1, <2>2
<1>5. CASE Generate \/ Fingerprint \/ CheckClients \/ Switch
  <2>1. sec' = sec /\ run' = run /\ pc \in {"generate", "fingerprint", "check", "switch"}
    BY <1>5, Zenon DEF Generate, Fingerprint, CheckClients, Switch, Stay
  <2>2. ~botched
    <3>1. ASSUME NEW step, Goto(step) PROVE botched' = botched
      BY <3>1, Zenon DEF Goto
    <3>2. Set("checkonly") /\ Succeed => botched' = (botched \/ (cmd = "addca" /\ Set("provided")))
      BY Zenon DEF Succeed, Finish
    <3>3. (\E step : Goto(step)) \/ (Set("checkonly") /\ Succeed)
      BY <1>1, <1>5, Zenon DEF Generate, Fingerprint, CheckClients, Switch
    <3>4. QED
      BY <3>1, <3>2, <3>3, Zenon
  <2>3. pc \in Quiet
    BY <2>1 DEF Quiet
  <2>4. QED
    BY <1>3, <2>1, <2>2, <2>3
<1>6. CASE RestartServer /\ Succeed
  <2>1. sec' = sec /\ run' = [run EXCEPT !["server"] = Started("server")]
    BY <1>1, <1>6, Zenon DEF RestartServer
  <2>2. run'["server"] = Started("server")
    BY <1>0, <2>1 DEF RunOK, Owner
  <2>3. QED
    BY <1>3, <2>1, <2>2
<1>7. CASE UpdateTrust
  <2>1. sec' = sec /\ run' = run /\ pc = "trust"
    BY <1>7, Zenon DEF UpdateTrust
  <2>2. run["server"] = Started("server")
    BY <2>1 DEF Restarted
  <2>3. QED
    BY <1>3, <2>1, <2>2
<1>8. CASE Reboot
  <2>1. sec' = sec /\ run' = [o \in Owner |-> Started(o)]
    BY <1>8, Zenon DEF Reboot
  <2>2. run'["server"] = Started("server")
    BY <2>1 DEF Owner
  <2>3. QED
    BY <1>3, <2>1, <2>2
<1>9. QED
  BY <1>1, <1>4, <1>5, <1>6, <1>7, <1>8, QuietSources, Zenon

-----------------------------------------------------------------------------
(* A planned rotation *)

\* It has asked the clients for the CA it writes, and who asks the server gets it too.
Asked == \A c \in answered : checked \subseteq trusts[c]

Planned ==
  cmd = "rotate" /\ flags = {} /\ ~botched =>
    /\ pc \in {"check", "switch", "promote"}
         => Len(sec["server"].ca) > 1 /\ checked = {Last(sec["server"].ca)}
    /\ pc \in {"switch", "promote", "put"} => Asked
    /\ pc = "put" => /\ \A p \in pair : checked = {p.ca}
                     /\ \A m \in run["server"] : checked \subseteq Elems(m.ca)

\* What a client is given by the server is no less than what was asked for.
LEMMA AskedDistribute ==
  ASSUME Typed, Asked, NEW c \in Client, Distribute(c),
         \A m \in run["server"] : checked \subseteq Elems(m.ca)
  PROVE  Asked'
<1>1. PICK m \in run["server"] : trusts' = [trusts EXCEPT ![c] = Elems(m.ca)]
  BY Zenon DEF Distribute
<1>2. checked' = checked /\ answered' = answered
  BY Zenon DEF Distribute, Kept, told
<1>3. answered \subseteq Client /\ trusts \in [Client -> SUBSET CA]
  BY TypeParts DEF Typed, RestOK, WorldOK
<1>4. QED
  BY <1>1, <1>2, <1>3 DEF Asked

\* The last CA of a bundle of several is one of them.
LEMMA LastOf ==
  ASSUME NEW S, NEW s \in Seq(S), Len(s) > 1
  PROVE  Last(s) \in Elems(s)
BY DEF Last, Elems

LEMMA PlannedChecks ==
  ASSUME Typed, RunsFit, Planned, Kinds, [Next]_vars,
         cmd' = "rotate", flags' = {}, ~botched', pc' \in {"check", "switch", "promote"}
  PROVE  /\ Len(sec'["server"].ca) > 1 /\ checked' = {Last(sec'["server"].ca)}
         /\ pc' \in {"switch", "promote"} => Asked'
<1>0. SecretsOK /\ sec["server"].ca \in Seq(CA) /\ Phases
  BY TypeParts, ServerCA DEF Typed, SecretsOK, Stored
<1>1. ASSUME NEW step, Goto(step)
      PROVE  pc' = step /\ cmd = "rotate" /\ flags = {} /\ ~botched /\ trusts' = trusts
  BY <1>1, Zenon DEF Goto, args, world
<1>2. ~Abort /\ ~Succeed
  BY Zenon DEF Abort, Succeed, Finish
<1>3. CASE Fingerprint
  <2>1. /\ Len(sec["server"].ca) > 1 /\ checked' = {Last(sec["server"].ca)} /\ Goto("check")
        /\ sec' = sec
    BY <1>2, <1>3, Zenon DEF Fingerprint, Stay
  <2>2. pc' = "check"
    BY <1>1, <2>1
  <2>3. QED
    BY <2>1, <2>2
<1>4. CASE CheckClients
  <2>1. pc = "check" /\ Goto("switch") /\ sec' = sec
    BY <1>2, <1>4, Zenon DEF CheckClients, Stay
  <2>2. cmd = "rotate" /\ flags = {} /\ ~botched /\ trusts' = trusts
    BY <1>1, <2>1
  <2>3. ~Set("force")
    BY <2>2 DEF Set
  <2>4. /\ \E a \in SUBSET Client :
             (\A c \in a : checked \subseteq trusts[c]) /\ answered' = a
        /\ checked' = checked
    BY <1>2, <1>4, <2>3, Zenon DEF CheckClients
  <2>5. Asked'
    BY <2>2, <2>4 DEF Asked
  <2>6. Len(sec["server"].ca) > 1 /\ checked = {Last(sec["server"].ca)}
    BY <2>1, <2>2 DEF Planned
  <2>7. QED
    BY <2>1, <2>4, <2>5, <2>6
<1>5. CASE Switch
  <2>1. pc = "switch" /\ sec' = sec /\ Kept
        /\ Goto(IF Set("provided") THEN "chain" ELSE "promote")
    BY <1>2, <1>5, Zenon DEF Switch, Stay
  <2>2. cmd = "rotate" /\ flags = {} /\ ~botched /\ trusts' = trusts
    BY <1>1, <2>1
  <2>3. checked' = checked /\ answered' = answered
    BY <2>1, Zenon DEF Kept, told
  <2>4. Asked /\ Len(sec["server"].ca) > 1 /\ checked = {Last(sec["server"].ca)}
    BY <2>1, <2>2 DEF Planned
  <2>5. QED
    BY <2>1, <2>2, <2>3, <2>4 DEF Asked
<1>6. CASE Generate
  <2>1. pc = "generate" /\ Goto(AfterGenerate)
    BY <1>2, <1>6, Zenon DEF Generate
  <2>2. cmd = "rotate" /\ flags = {}
    BY <1>1, <2>1
  <2>3. QED
    BY <2>1, <2>2 DEF Kinds
<1>7. CASE (\E c \in Client : Distribute(c)) \/ UNCHANGED vars
  <2>1. /\ sec' = sec /\ pc' = pc /\ cmd' = cmd /\ flags' = flags
        /\ checked' = checked /\ answered' = answered
    BY <1>7, Zenon DEF Distribute, Kept, told, args, vars
  <2>2. botched' = botched
    BY <1>7, Zenon DEF Distribute, vars
  <2>3. ~botched
    BY <2>2, Zenon
  <2>4. /\ Len(sec["server"].ca) > 1 /\ checked = {Last(sec["server"].ca)}
        /\ pc \in {"switch", "promote"} => Asked
    BY <2>1, <2>3 DEF Planned
  <2>5. ASSUME pc \in {"switch", "promote"} PROVE Asked'
    <3>1. CASE UNCHANGED vars
      <4>1. trusts' = trusts
        BY <3>1, Zenon DEF vars, world
      <4>2. QED
        BY <2>1, <2>4, <2>5, <4>1 DEF Asked
    <3>2. CASE \E c \in Client : Distribute(c)
      <4>1. PICK c \in Client : Distribute(c)
        BY <3>2
      <4>2. pc \in Quiet
        BY <2>5 DEF Quiet
      <4>3. \A m \in run["server"] : m.ca = sec["server"].ca
        BY <2>3, <4>2, Zenon DEF RunsFit
      <4>4. Last(sec["server"].ca) \in Elems(sec["server"].ca)
        BY <1>0, <2>4, LastOf
      <4>5. \A m \in run["server"] : checked \subseteq Elems(m.ca)
        BY <2>4, <4>3, <4>4
      <4>6. QED
        BY <2>4, <2>5, <4>1, <4>5, AskedDistribute
    <3>3. QED
      BY <1>7, <3>1, <3>2
  <2>6. QED
    BY <2>1, <2>4, <2>5
<1>8. CASE BeginAdd \/ BeginRotate \/ Reboot
  <2>1. CASE BeginAdd \/ Reboot
    <3>1. cmd' = "addca" \/ (pc' = pc /\ pc = "idle")
      BY <2>1, Zenon DEF BeginAdd, Begin, Reboot
    <3>2. QED
      BY <3>1
  <2>2. CASE BeginRotate
    <3>1. \E step \in {"generate", "chain", "fingerprint"} : pc' = step
      BY <2>2, Zenon DEF BeginRotate, Begin
    <3>2. QED
      BY <3>1
  <2>3. QED
    BY <1>8, <2>1, <2>2
<1>9. CASE UpdateTrust
  BY <1>2, <1>9, Zenon DEF UpdateTrust
<1>10. pc' \in Quiet
  BY DEF Quiet
<1>11. QED
  BY <1>2, <1>3, <1>4, <1>5, <1>6, <1>7, <1>8, <1>9, <1>10, QuietSources, Zenon

LEMMA PlannedWrites ==
  ASSUME Typed, Settled, Fitting, Kinds, Lists, RunsFit, Planned, [Next]_vars,
         cmd' = "rotate", flags' = {}, ~botched', pc' = "put"
  PROVE  /\ Asked'
         /\ \A p \in pair' : checked' = {p.ca}
         /\ \A m \in run'["server"] : checked' \subseteq Elems(m.ca)
<1>0. SecretsOK /\ sec["server"].ca \in Seq(CA)
  BY TypeParts, ServerCA DEF Typed, SecretsOK, Stored
<1>1. ASSUME NEW step, Goto(step)
      PROVE  cmd = "rotate" /\ flags = {} /\ ~botched /\ trusts' = trusts
  BY <1>1, Zenon DEF Goto, args, world
<1>2. ~Abort
  BY Zenon DEF Abort, Finish
<1>3. CASE Promote
  <2>1. /\ pc = "promote" /\ sec' = sec /\ run' = run /\ checked' = checked /\ answered' = answered
        /\ Goto("put")
    BY <1>2, <1>3, Zenon DEF Promote, told, PutAll
  <2>2. PICK s \in staged : pair' = {Issued(s, fqdn, issued + 1)}
    BY <1>2, <1>3, Zenon DEF Promote
  <2>3. cmd = "rotate" /\ flags = {} /\ ~botched /\ trusts' = trusts
    BY <1>1, <2>1
  <2>4. Asked /\ Len(sec["server"].ca) > 1 /\ checked = {Last(sec["server"].ca)}
    BY <2>1, <2>3 DEF Planned
  <2>5. Bundle = sec["server"].ca
    BY <2>1, BundleSettled DEF Settled
  <2>6. ~err
    BY <2>1 DEF Fitting, Ahead, Owed
  <2>7. ~Parted
    BY <2>1, <2>3 DEF Parted, Set
  <2>8. Listed
    BY <2>3, <2>6, <2>7, Zenon DEF Lists
  <2>9. staged \subseteq checked
    BY <2>4, <2>5, <2>8 DEF Listed
  <2>10. \A p \in pair' : checked' = {p.ca}
    <3>1. checked = {s}
      BY <2>4, <2>9
    <3>2. Issued(s, fqdn, issued + 1).ca = s
      BY DEF Issued
    <3>3. QED
      BY <2>1, <2>2, <3>1, <3>2
  <2>11. Last(sec["server"].ca) \in Elems(sec["server"].ca)
    BY <1>0, <2>4, LastOf
  <2>12. pc \in Quiet
    BY <2>1 DEF Quiet
  <2>13. \A m \in run["server"] : m.ca = sec["server"].ca
    BY <2>3, <2>12, Zenon DEF RunsFit
  <2>14. Asked'
    BY <2>1, <2>3, <2>4 DEF Asked
  <2>15. QED
    BY <2>1, <2>4, <2>10, <2>11, <2>13, <2>14
<1>4. CASE Put /\ pc = "put" /\ Goto("put")
  <2>1. next # "put" /\ todo # <<>>
    BY <1>4 DEF Typed, Resumes, Put
  <2>2. ~Goto(next)
    <3>1. pc' # next
      BY <2>1
    <3>2. QED
      BY <3>1, Zenon DEF Goto
  <2>3. pair' = pair /\ run' = run /\ checked' = checked /\ answered' = answered
    BY <1>2, <1>4, <2>2, Zenon DEF Put, told
  <2>4. cmd = "rotate" /\ flags = {} /\ ~botched /\ trusts' = trusts
    BY <1>1, <1>4
  <2>5. /\ Asked /\ \A p \in pair : checked = {p.ca}
        /\ \A m \in run["server"] : checked \subseteq Elems(m.ca)
    BY <1>4, <2>4 DEF Planned
  <2>6. QED
    BY <2>3, <2>4, <2>5 DEF Asked
<1>5. CASE UNCHANGED <<sec, run, writing, args, pc, disk, botched, told>>
  <2>1. /\ run' = run /\ pair' = pair /\ cmd' = cmd /\ flags' = flags /\ pc' = pc
        /\ checked' = checked /\ answered' = answered
    BY <1>5, Zenon DEF writing, args, told
  <2>2. ~botched
    BY <1>5, Zenon
  <2>3. /\ Asked /\ \A p \in pair : checked = {p.ca}
        /\ \A m \in run["server"] : checked \subseteq Elems(m.ca)
    BY <2>1, <2>2 DEF Planned
  <2>4. Asked'
    <3>1. CASE trusts' = trusts
      BY <2>1, <2>3, <3>1 DEF Asked
    <3>2. CASE \E c \in Client : Distribute(c)
      BY <2>3, <3>2, AskedDistribute
    <3>3. QED
      BY <3>1, <3>2, Changes, Zenon DEF vars, world
  <2>5. QED
    BY <2>1, <2>3, <2>4
<1>6. ASSUME pc \in {"walk", "dbwalk", "reuse", "reusedb", "issue", "append"}, cmd = "rotate", flags = {}
      PROVE  FALSE
  BY <1>6 DEF Kinds, Ahead, PlannedSteps
<1>7. CASE SortDone /\ pc \in {"walk", "dbwalk"} /\ ~Invalid
  <2>1. Goto("put")
    BY <1>7, Zenon DEF SortDone, PutAll
  <2>2. QED
    BY <1>1, <1>6, <1>7, <2>1
<1>8. CASE Reuse /\ pc \in {"reuse", "reusedb"}
  <2>1. \E step : Goto(step)
    BY <1>8, Zenon DEF Reuse, PutAll
  <2>2. QED
    BY <1>1, <1>6, <1>8, <2>1
<1>9. CASE (Issue /\ pc = "issue") \/ (AppendCA /\ pc = "append")
  <2>1. \E step : Goto(step)
    BY <1>2, <1>9, Zenon DEF Issue, AppendCA, PutAll
  <2>2. QED
    BY <1>1, <1>6, <1>9, <2>1
<1>10. QED
  BY <1>3, <1>4, <1>5, <1>7, <1>8, <1>9, PutSources, Zenon

LEMMA PlannedStep ==
  Typed /\ Settled /\ Fitting /\ Kinds /\ Lists /\ RunsFit /\ Planned /\ [Next]_vars => Planned'
<1> SUFFICES ASSUME Typed, Settled, Fitting, Kinds, Lists, RunsFit, Planned, [Next]_vars,
                    cmd' = "rotate", flags' = {}, ~botched'
             PROVE  /\ pc' \in {"check", "switch", "promote"}
                         => Len(sec'["server"].ca) > 1 /\ checked' = {Last(sec'["server"].ca)}
                    /\ pc' \in {"switch", "promote", "put"} => Asked'
                    /\ pc' = "put" => /\ \A p \in pair' : checked' = {p.ca}
                                      /\ \A m \in run'["server"] : checked' \subseteq Elems(m.ca)
  BY DEF Planned, Last, Elems
<1>1. CASE pc' \in {"check", "switch", "promote"}
  BY <1>1, PlannedChecks
<1>2. CASE pc' = "put"
  BY <1>2, PlannedWrites
<1>3. QED
  BY <1>1, <1>2

-----------------------------------------------------------------------------
(* At the beginning *)

LEMMA ClientsInit == Init => Fresh /\ Kinds /\ Lists /\ RunsFit /\ Planned /\ Restarted
<1> SUFFICES ASSUME Init PROVE Fresh /\ Kinds /\ Lists /\ RunsFit /\ Planned /\ Restarted
  OBVIOUS
<1>1. cmd = "none" /\ pc = "idle" /\ todo = <<>>
  BY Zenon DEF Init
<1>2. Kinds /\ Planned /\ Restarted
  BY <1>1 DEF Kinds, Planned, Restarted
<1>3. Bundle = sec["server"].ca
  BY <1>1, BundleSettled
<1> DEFINE first == Issued(0, name, 0)
<1> DEFINE secrets(cas) == [cert |-> {first}, key |-> {first}, ca |-> cas]
<1> DEFINE mounts(cas) == [cert |-> first, key |-> first, ca |-> cas, dbca |-> cas]
<1> DEFINE bundles == {<<0>>, <<0, 1>>}
<1>4. \/ /\ sec = [o \in Owner |-> NoSecrets] /\ run = [o \in Owner |-> {}]
         /\ \/ build = {} /\ files = {}
            \/ build = {0} /\ files = {first}
         /\ staged = {} /\ made = 0 /\ hostca = <<>>
      \/ \E cas \in {<<0>>, <<0, 1>>} :
           /\ sec = [o \in Owner |-> secrets(cas)]
           /\ run = [o \in Owner |-> {mounts(cas)}]
           /\ build = {0} /\ files = {} /\ hostca = cas
           /\ made = Last(cas) /\ staged = IF made = 0 THEN {} ELSE {1}
  BY Zenon DEF Init
<1>5. CASE /\ sec = [o \in Owner |-> NoSecrets] /\ run = [o \in Owner |-> {}]
           /\ \/ build = {} /\ files = {}
              \/ build = {0} /\ files = {first}
           /\ staged = {} /\ made = 0
  <2>1. sec["server"].ca = <<>> /\ run["server"] = {}
    BY <1>5, ServerCA DEF NoSecrets
  <2>2. first.ca = 0
    BY DEF Issued
  <2>3. Fresh
    BY <1>3, <1>5, <2>1, <2>2, ElemsOfFew DEF Fresh
  <2>4. Lists
    BY <1>1, <1>3, <2>1 DEF Lists, Listed
  <2>5. RunsFit
    BY <2>1 DEF RunsFit
  <2>6. QED
    BY <1>2, <2>3, <2>4, <2>5
<1>6. ASSUME NEW cas \in bundles,
             sec = [o \in Owner |-> secrets(cas)], run = [o \in Owner |-> {mounts(cas)}],
             build = {0}, files = {}, made = Last(cas), staged = IF made = 0 THEN {} ELSE {1}
      PROVE  Fresh /\ Kinds /\ Lists /\ RunsFit /\ Planned /\ Restarted
  <2>1. /\ sec["server"].ca = cas
        /\ \A m \in run["server"] : m.ca = cas
    BY <1>6, ServerCA
  <2>2. \/ cas = <<0>> /\ Last(cas) = 0 /\ Len(cas) = 1 /\ Elems(cas) = {0}
        \/ cas = <<0, 1>> /\ Last(cas) = 1 /\ Len(cas) = 2 /\ Elems(cas) = {0, 1}
    BY ElemsOfFew DEF Last
  <2>3. Fresh
    <3>1. Elems(cas) \subseteq 0 .. made /\ build \subseteq 0 .. made /\ staged \subseteq 0 .. made
      BY <1>6, <2>2
    <3>2. QED
      BY <1>3, <1>6, <2>1, <3>1 DEF Fresh, Known
  <2>4. Lists
    <3>1. Listed
      BY <1>3, <1>6, <2>1, <2>2 DEF Listed
    <3>2. QED
      BY <1>1, <3>1, Zenon DEF Lists
  <2>5. RunsFit
    BY <2>1 DEF RunsFit
  <2>6. QED
    BY <1>2, <2>3, <2>4, <2>5
<1> HIDE DEF secrets, mounts
<1>7. QED
  BY <1>4, <1>5, <1>6

\* A planned rotation to a CA of one's own takes no client that has answered away from
\* the server, as long as no command has failed since the last rotation.
THEOREM ClientsKept == Spec => NoClientCutOff
<1> DEFINE Inv == /\ Typed /\ Settled /\ Fitting /\ Restarted /\ Fresh /\ Kinds /\ Lists
                  /\ RunsFit /\ Planned
<1>1. Inv /\ [Next]_vars
        => [(cmd = "rotate" /\ ~botched /\ flags = {} /\ sec'["server"].cert # sec["server"].cert)
             => \A c \in answered : \A p \in sec'["server"].cert : p.ca \in trusts[c]]_vars
  <2> SUFFICES ASSUME Inv, [Next]_vars, cmd = "rotate", ~botched, flags = {},
                      sec'["server"].cert # sec["server"].cert,
                      NEW c \in answered, NEW p \in sec'["server"].cert
               PROVE  p.ca \in trusts[c]
    OBVIOUS
  <2>0. TypeOK /\ SecretsOK /\ WritingOK /\ "server" \in Owner
    BY TypeParts DEF Typed, Owner
  <2>1. sec["server"] \in Stored
    BY <2>0 DEF SecretsOK
  <2>2. pc = "put"
    BY <2>0, Writes
  <2>3. PICK o \in Owner, f \in Part :
          \/ sec' = [sec EXCEPT ![o][f] = New(o, f)]
          \/ sec' = [sec EXCEPT ![o][f] = Gone(f)]
    BY <2>0, Writes
  <2>4. o = "server" /\ f = "cert"
    BY <2>0, <2>1, <2>3 DEF SecretsOK, Stored, Part
  <2>5. sec'["server"].cert \in {pair, {}}
    BY <2>0, <2>1, <2>3, <2>4 DEF SecretsOK, Stored, New, Gone
  <2>6. Asked /\ checked = {p.ca}
    BY <2>2, <2>5 DEF Planned
  <2>7. QED
    BY <2>6 DEF Asked
<1>2. Init => Inv
  BY ClientsInit, TypedInit, FittingInit
<1>3. Inv /\ [Next]_vars => Inv'
  BY TypedStep, SettledStep, FittingStep, RestartedStep, FreshStep, KindsStep, ListsStep,
     RunsFitStep, PlannedStep
<1>4. QED
  BY <1>1, <1>2, <1>3, PTL DEF Spec, NoClientCutOff

==============================================================================
