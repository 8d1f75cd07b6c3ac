------------------------------ MODULE DataCopies ------------------------------
(***************************************************************************)
(* What backing a server up and restoring it promises about its data: a    *)
(* copy is only ever made from another one, and none is lost but by the    *)
(* world or by a restoration that was forced over it and is cut, which     *)
(* leaves the one it restores from unless it was told not to verify it.    *)
(***************************************************************************)
EXTENDS Naturals

CONSTANT Volume  \* the volumes of the server

VARIABLES
  busy,    \* what runs: a backup, one of the restorations or nothing
  copies,  \* the places that hold all the data of each volume
  site     \* the host of the server: another one takes the place of a lost one

Place == {"server", "backup"}

\* A plain restoration, one that may overwrite what exists, and one that does so
\* and trusts the files unread.
Restoring == {"restore", "forced", "careless"}

Init == busy = "none" /\ copies \in [Volume -> {{}, {"server"}}] /\ site = 0

Begin(c) == busy = "none" /\ busy' = c /\ UNCHANGED <<copies, site>>

End == busy' = "none" /\ UNCHANGED <<copies, site>>

\* A backup copies the data of one volume from the server, and may stop right
\* after it.
Save(v) ==
  /\ busy = "create" /\ "server" \in copies[v]
  /\ copies' = [copies EXCEPT ![v] = @ \cup {"backup"}]
  /\ busy' \in {busy, "none"} /\ UNCHANGED site

\* A restoration brings the data of one volume back from the backup.
Bring(v) ==
  /\ busy \in Restoring /\ "backup" \in copies[v]
  /\ copies' = [copies EXCEPT ![v] = @ \cup {"server"}]
  /\ busy' \in {busy, "none"} /\ UNCHANGED site

\* A forced restoration that fails or is cut spoils the volume it was bringing.
Spoil(v) ==
  /\ busy \in {"forced", "careless"} /\ busy' = "none"
  /\ busy = "forced" => "backup" \in copies[v]
  /\ copies' = [copies EXCEPT ![v] = @ \ {"server"}]
  /\ UNCHANGED site

\* A file of the backup goes bad while no command runs.
Rot(v) ==
  /\ busy = "none" /\ busy' = "none"
  /\ copies' = [copies EXCEPT ![v] = @ \ {"backup"}]
  /\ UNCHANGED site

\* The host is lost, whatever runs on it.
LoseHost ==
  /\ busy' = "none" /\ site' = 1 - site
  /\ copies' = [v \in Volume |-> copies[v] \ {"server"}]

Next ==
  \/ \E c \in Restoring \cup {"create"} : Begin(c)
  \/ End
  \/ \E v \in Volume : Save(v) \/ Bring(v) \/ Spoil(v) \/ Rot(v)
  \/ LoseHost

Spec == Init /\ [][Next]_<<busy, copies, site>>
===============================================================================
