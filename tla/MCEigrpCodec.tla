----------------------------- MODULE MCEigrpCodec -----------------------------
(* Instances of EigrpCodec for TLC.  The words are small: 4 for the scaler,    *)
(* 6 bits for a classic delay and 8 for a wide one.                            *)
EXTENDS EigrpCodecClaims, TLC

\* A delay both formats carry and one whose scaled value overflows the classic
\* word; the infinite one is what the filter makes of them.
Delays == {1, 20}

\* No prefix length, one that fits a destination of two bytes, and the usual
\* reliability, which is beyond every prefix length.
Reliabilities == {0, 10, 255}
Lengths == [d \in Dest |-> 16]
Exts == {[as |-> 2, tag |-> 1, last |-> 8]}

Defaults == [k \in Coeff |-> 0]

\* Routers that nothing tells apart.
Alike == Permutations(Peer)
===============================================================================
