------------------------ MODULE MCEigrpGracefulRestart ------------------------
(* An instance of EigrpGracefulRestart for TLC.                               *)
EXTENDS EigrpGracefulRestart, TLC

CONSTANTS i1, i2

\* The outgoing filter denies nothing or the first destination.
Lists == {{}, {1}}
===============================================================================
