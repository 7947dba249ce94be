---------------------------- MODULE MCEigrpDual ----------------------------
(***************************************************************************)
(* Instances of EigrpDual for TLC: two neighbours, the metrics they        *)
(* advertise and the links to them.  With MaxMetric = 31 the composite of  *)
(* an unreachable route wraps to a small number, as 2^32 - 1 + bw does.    *)
(***************************************************************************)
EXTENDS EigrpDualClaims, TLC

CONSTANTS n1, n2

near   == [bw |-> 2, delay |-> 1]
far    == [bw |-> 2, delay |-> 8]
poison == [bw |-> 2, delay |-> MaxMetric]  \* delay 0xffffffff on the wire
edge   == [bw |-> 2, delay |-> 28]         \* over a link of delay 1 exactly MaxMetric
wide   == [bw |-> 9, delay |-> 1]          \* its bandwidth is cut by the link

MCHeard     == {near, far, poison}
EdgeHeard   == {near, edge, wide}
MCLinkBw    == [n \in Nbr |-> 4]
MCLinkDelay == (n1 :> 1) @@ (n2 :> 2)
EqualDelay  == [n \in Nbr |-> 1]
=============================================================================
