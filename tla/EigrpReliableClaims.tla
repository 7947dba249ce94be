------------------------ MODULE EigrpReliableClaims ------------------------
(***************************************************************************)
(* What the specifications and comments of the repository say of INITs.    *)
(* EigrpReliable, translated from the code, does not satisfy them: one run *)
(* refutes each.                                                           *)
(***************************************************************************)
EXTENDS EigrpReliable

\* "We don't need to send separate Ack for INIT Update. INIT will be acked in
\* EOT Update." (eigrp_update_receive): the INIT of a router that waits is
\* acknowledged at last, unless the wait ends otherwise.
InitAckedInEot ==
    \A r \in Router :
        (rt[r].nbr = "pending") ~> (rt[r].nbr # "pending" \/ fault # "none")
=============================================================================
