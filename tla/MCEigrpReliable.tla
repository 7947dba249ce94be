-------------------------- MODULE MCEigrpReliable --------------------------
(***************************************************************************)
(* Instances of EigrpReliable for TLC.                                     *)
(***************************************************************************)
EXTENDS EigrpReliableClaims, TLC

\* The routers are alike; used by safety runs only.
Alike == Permutations(Router)
=============================================================================
