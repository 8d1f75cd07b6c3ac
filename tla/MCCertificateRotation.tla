------------------------ MODULE MCCertificateRotation ------------------------
(* A client, two names, and two commands with the CAs and the certificates they need
   from a server that has one, to which another was added, or that is not there yet.
   A third party gives a key that does not fit for the server under one name and for
   the database under the other. *)
EXTENDS CertificateRotation

OneEach == {<<"server", "new">>, <<"db", "old">>}
=============================================================================
