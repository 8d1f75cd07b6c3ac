-------------------------- MODULE MCServerUpgrade --------------------------
(* ServerUpgrade with three releases, each with its own PostgreSQL version: *)
(* it takes two upgrades of PostgreSQL in a row to find a _data_old in the  *)
(* way.  An upgrade to the same release or a PTF leaves the version alone.  *)
EXTENDS ServerUpgrade, TLC

Pg123 == <<1, 2, 3>>
Writes == Permutations(Write)
=============================================================================
