--------------------------- MODULE EigrpDualClaims ---------------------------
(***************************************************************************)
(* What comments, assertions and specifications of the repository say of   *)
(* the DUAL engine and the work queue.  EigrpDual, translated from the     *)
(* code, does not satisfy these statements: one run refutes each.          *)
(***************************************************************************)
EXTENDS EigrpDual

\* "Set infinite metrics to routes learned by this interface and start query
\* process" (eigrp_interface.c): a route of a neighbour that was deleted is
\* at an infinite distance until another event removes it.
LostRoutesInfinite ==
    fault = "none" =>
        \A n \in ToSet(entries) : nbr[n] = "gone" => route[n].dist = MaxMetric

\* assert(successors) in eigrp_fsm_event_lr: when the last reply ends a
\* computation that a query of the successor started, a route still has the
\* SUCCESSOR flag.
SuccessorAsserted == fault # "assert_successors"
=============================================================================
