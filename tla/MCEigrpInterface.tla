-------------------------- MODULE MCEigrpInterface --------------------------
(* Instances of EigrpInterface for TLC: which addresses an interface may get *)
(* and which networks match them.                                            *)
EXTENDS EigrpInterface, TLC

CONSTANTS i1, i2, p1, p2

\* Each interface has an address of its own.
OneEach == [i \in Ifp |-> IF i = i1 THEN {p1} ELSE {p2}]

\* Every network matches every address.
Wide == Net \X Addr

\* The autonomous systems are interchangeable: nothing but the order in which
\* they were made tells one instance from another.
Alike == Permutations(As)
=============================================================================
