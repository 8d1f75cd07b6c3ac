------------------------------ MODULE Deployment ------------------------------
(***************************************************************************)
(* A host with the server or with a proxy: the same steps of podman and    *)
(* systemd under two sets of commands.                                     *)
(***************************************************************************)
EXTENDS ServerDeployment, ProxyDeployment

VARIABLE role  \* what the host is for

vars == <<host, serverVars, proxyVars, role>>

TypeOK ==
  /\ HostTypeOK /\ ServerTypeOK /\ ProxyTypeOK /\ role \in {"server", "proxy"}

Init ==
  \/ role = "server" /\ ServerInit /\ NoProxy
  \/ role = "proxy" /\ ProxyInit /\ NoServer

Next ==
  \/ role = "server" /\ ServerNext /\ UNCHANGED <<proxyVars, role>>
  \/ role = "proxy" /\ ProxyNext /\ UNCHANGED <<serverVars, role>>

Spec == Init /\ [][Next]_vars

-----------------------------------------------------------------------------
\* A unit file names a secret that is not there only if making that secret failed or was
\* cut, or the file could not be removed: the secrets are made before the files that name
\* them and removed after them.
UnitsUsable == \A u \in unit \ stuck : mounts[u] \subseteq Present \cup unmade

\* The secrets fit the data, as far as LoginFits and ConfigurationKept go: the login in them
\* is that of the database, and no extraction loses a certificate of the proxy.
CredentialsKept == LoginFits /\ ConfigurationKept
=============================================================================
