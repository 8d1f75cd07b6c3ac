----------------------- MODULE MCContinuousArchiving -----------------------
(* ContinuousArchiving with two writes: the second one may follow the first  *)
(* in a database, come after a base backup that has it, or replace it after  *)
(* a restore that lost it.                                                   *)
EXTENDS ContinuousArchiving
=============================================================================
