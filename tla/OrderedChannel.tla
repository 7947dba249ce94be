---------------------------- MODULE OrderedChannel ----------------------------
(* What the reliable transport promises of the packets of one router to the    *)
(* other, which are numbered as they are built: the other handles none before  *)
(* it is built and none after a later one.  It may miss some, and handle the   *)
(* same one again.                                                             *)
EXTENDS Naturals

CONSTANTS
    Router,
    Other(_)     \* the router at the far end

VARIABLES
    built,       \* [Router -> Nat]: the last packet a router built
    heard        \* [Router -> Nat]: the last packet of the other it handled

Init == /\ built = [r \in Router |-> 0]
        /\ heard = [r \in Router |-> 0]

\* r builds packets, or none.
Build(r) == built' = [built EXCEPT ![r] = built'[r]] /\ built'[r] >= built[r]

\* r handles a packet, or none.
Hear(r) == /\ heard' = [heard EXCEPT ![r] = heard'[r]]
           /\ heard'[r] \in heard[r] .. built[Other(r)]

\* The handler of a packet may build others.
Next == \E r \in Router : Build(r) /\ Hear(r)

Spec == Init /\ [][Next]_<<built, heard>>
===============================================================================
