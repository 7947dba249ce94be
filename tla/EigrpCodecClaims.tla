--------------------------- MODULE EigrpCodecClaims ---------------------------
(* What comments of the source say of routes on the wire.  The module         *)
(* EigrpCodec, translated from the code, does not satisfy it.                 *)
EXTENDS EigrpCodec

\* "All data ... returned from this TLV processor will be normalized to the system
\* (meaning a delay is a delay ...)" (eigrp_tlv1.c:11-13): a router with this
\* software to which the neighbour is a classic one makes out, of what this
\* router writes for a classic neighbour, the route it was made from.
ClassicNormalized ==
    ~ iface.rebound =>
        \A p \in UpWith(1), d \in Dest :
            LET r == Filtered(d)
            IN  UpdateLoop(1, Encode(iface.encoder, r)) = <<Carried(1, r)>>

\* "process all TLVs in the packet" (eigrp_query_receive): on a link with
\* routers of both versions, which all have neighbours of both, a QUERY that one
\* of them sends for a route hands that route over.
QueryProcessed ==
    UpWith(1) # {} /\ UpWith(2) # {} =>
        \A v \in Version, d \in Dest, m \in Heard :
            LET r == [type |-> "int", dest |-> d, delay |-> m, reliability |-> 255,
                  ext |-> NoExt]
            IN  QueryLoop(v, Encode("both", r)) # <<>>
===============================================================================
