------------------------------ MODULE EigrpCodec ------------------------------
(* The two TLV formats of eigrpd on one interface: which format each          *)
(* neighbour is bound to, which encoder the interface selects for all of them *)
(* (eigrp_interface.c, eigrp_neighbor.c, eigrp_hello.c), what the classic and *)
(* the wide codec make of a route (eigrp_tlv1.c, eigrp_tlv2.c, eigrp_metric.c)*)
(* and what the receive loops hand over to DUAL (eigrp_update.c,              *)
(* eigrp_query.c, eigrp_reply.c).                                             *)
(*                                                                            *)
(* Of a metric there is the delay, which the two formats carry differently,   *)
(* and the reliability, which the classic decoder takes for a prefix length.  *)
(* Which route is the first of a destination's list is left to DUAL.          *)
EXTENDS Integers, FiniteSets, SequencesExt

CONSTANTS
    Peer,        \* routers on the link
    Dest,        \* destinations
    PrefixLen,   \* [Dest -> their prefix lengths]
    AnyNet,      \* 0.0.0.0/0
    Misread,     \* a prefix made of other bytes of a TLV
    Delay,       \* delays of routes, in the unit the daemon computes with
    Heard,       \* those a received packet may carry
    Reliability, \* reliabilities of routes
    Nexthop,     \* next hops of received routes, 0 for the sender
    ExtData,     \* [as, tag, last] of external routes
    Coeff,       \* K1 .. K5
    Weight,      \* values of one of them
    Default,     \* [Coeff -> Weight]: EIGRP_K1_DEFAULT ..
    Scaler,      \* EIGRP_CLASSIC_SCALER, 256 in the code
    Word,        \* 2^32
    WideWord,    \* 2^48
    MaxTlvs,     \* bound on the TLVs of a received packet
    MaxCount     \* bound on the peers the interface counts

ASSUME CodecAssumption ==
    /\ IsFiniteSet(Peer)
    /\ Default \in [Coeff -> Weight]
    /\ Scaler \in Nat /\ Word \in Nat /\ WideWord \in Nat
    /\ 1 < Scaler /\ Scaler < Word /\ Word < WideWord /\ Word % Scaler = 0
    /\ Delay \subseteq 0 .. WideWord - 2
    /\ Heard \subseteq Delay
    /\ PrefixLen \in [Dest -> 0 .. 32]
    /\ Reliability \subseteq 0 .. 255 /\ 0 \in Reliability
    /\ Nexthop \subseteq Nat
    /\ ExtData \subseteq [as : Nat, tag : Nat, last : Nat]
    /\ MaxTlvs \in Nat /\ MaxCount \in Nat

VARIABLES
    nbr,       \* [Peer -> the neighbour object]
    iface,     \* the peer counts and the encoder of the interface
    weights,   \* [Coeff -> Weight]: eigrp->k_values
    speaks,    \* [Peer -> the TLV version the router's software uses]
    route,     \* [Dest -> the first route of its list]
    denied     \* destinations the outgoing filter denies

vars == <<nbr, iface, weights, speaks, route, denied>>

MaxMetric == Word - 1           \* EIGRP_MAX_METRIC
Inaccessible == WideWord - 1    \* EIGRP_TLV2_INACCESSIBLE

Version == {1, 2}               \* EIGRP_TLV_32B_VERSION, EIGRP_TLV_64B_VERSION
NbrType == [state : {"none", "down", "pending", "up"}, version : {0} \cup Version]
Encoder == {"safe", "tlv1", "tlv2", "both"}

NoNbr == [state |-> "none", version |-> 0]

-------------------------------------------------------------------------------
(* Binding: eigrp_interface.c, eigrp_neighbor.c                               *)

\* mutant: a mixed interface keeps to the classic format
EncoderOfClassic(tlv1, tlv2) ==
    IF tlv1 > 0 THEN "tlv1" ELSE IF tlv2 > 0 THEN "tlv2" ELSE "safe"

\* eigrp_interface_encoder_select
EncoderOf(tlv1, tlv2) ==
    IF tlv1 > 0 /\ tlv2 > 0 THEN "both"
    ELSE IF tlv1 > 0 THEN "tlv1"
    ELSE IF tlv2 > 0 THEN "tlv2"
    ELSE "safe"

Counted(i, tlv1, tlv2) ==
    [i EXCEPT !.tlv1 = tlv1, !.tlv2 = tlv2, !.encoder = EncoderOf(tlv1, tlv2)]

\* mutant: the encoder is not selected again
EncoderBindOnly(i, v) ==
    [i EXCEPT !.tlv1 = @ + (IF v = 1 THEN 1 ELSE 0),
              !.tlv2 = @ + (IF v = 2 THEN 1 ELSE 0)]

\* eigrp_interface_encoder_bind; a neighbour of no version changes nothing
EncoderBind(i, v) == Counted(i, i.tlv1 + (IF v = 1 THEN 1 ELSE 0),
                                i.tlv2 + (IF v = 2 THEN 1 ELSE 0))

\* mutant: only the classic peers are counted down
EncoderUnbindOne(i, v) ==
    Counted(i, i.tlv1 - (IF v = 1 /\ i.tlv1 > 0 THEN 1 ELSE 0), i.tlv2)

\* eigrp_interface_encoder_unbind: a count never goes below 0
EncoderUnbind(i, v) == Counted(i, i.tlv1 - (IF v = 1 /\ i.tlv1 > 0 THEN 1 ELSE 0),
                                  i.tlv2 - (IF v = 2 /\ i.tlv2 > 0 THEN 1 ELSE 0))

\* eigrp_interface_encoder_clear.  "rebound" is not in the code: it remembers
\* that a neighbour changed its version while it was counted.
EncoderClear == [tlv1 |-> 0, tlv2 |-> 0, encoder |-> "safe", rebound |-> FALSE]

\* eigrp_nbr_state_set, as far as the interface's encoder goes
StateSet(i, n, state) ==
    IF n.state = "up" /\ state # "up" THEN EncoderUnbind(i, n.version)
    ELSE IF n.state # "up" /\ state = "up" THEN EncoderBind(i, n.version)
    ELSE i

-------------------------------------------------------------------------------
(* The formats: eigrp_tlv1.c, eigrp_tlv2.c, eigrp_metric.c                    *)

\* eigrp_delay_to_scaled, whose product is cut to 32 bits, and its inverse
DelayToScaled(delay) == ((IF delay = 0 THEN 1 ELSE delay) * Scaler) % Word
ScaledToDelay(scaled) ==
    IF scaled \div Scaler = 0 THEN 1 ELSE scaled \div Scaler

MaxBitlen == 32                 \* IPV4_MAX_BITLEN

\* eigrp_tlv1_ipv4_prefix_bytes
PrefixBytes(len) == IF len = 0 THEN 0 ELSE (len - 1) \div 8 + 1

\* What of the external data is told apart: two of its words, and the last one
\* (reserved, protocol and flags).
NoExt == [as |-> 0, tag |-> 0, last |-> 0]

\* A TLV by the places of its format.  "" is one of another protocol or topology,
\* or of a type that is not a route's; one that is not sound has a length its
\* body does not agree with.
Tlv(format, r, delay, ext) ==
    [format |-> format, type |-> r.type, dest |-> r.dest, delay |-> delay,
     reliability |-> r.reliability, nexthop |-> 0, ext |-> ext, sound |-> TRUE]

\* eigrp_tlv1_encoder, but for the filter.  The next hop of a route is always 0.
Tlv1Encode(r) == Tlv("tlv1", r, DelayToScaled(r.delay), r.ext)

\* eigrp_tlv2_encoder: the external data has no tag
Tlv2Encode(r) ==
    Tlv("tlv2", r, IF r.delay = MaxMetric THEN Inaccessible ELSE r.delay, NoExt)

\* A route as it is decoded: the descriptor's type, destination, delay and tag.
Decoded(tlv, dest, delay, tag) ==
    [type |-> tlv.type, dest |-> dest, delay |-> delay, tag |-> tag]

\* eigrp_tlv1_decoder.  The next hop is counted but not read, so that everything
\* after it is read four bytes early: the delay is the word before the metric,
\* the tag is the word before it, and the prefix length is the reliability.
Tlv1Decode(tlv) ==
    Decoded(tlv, IF tlv.reliability = 0 THEN AnyNet ELSE Misread,
            ScaledToDelay(IF tlv.type = "int" THEN tlv.nexthop ELSE tlv.ext.last),
            tlv.ext.as)

\* Whether a decoder makes out a route in a TLV of its own format.  In a classic
\* one the address it reads must not have more bytes than that of the destination.
MakesOut(v, tlv) ==
    /\ tlv.sound
    /\ v = 1 => /\ tlv.reliability <= MaxBitlen
                /\ PrefixBytes(tlv.reliability) <= PrefixBytes(PrefixLen[tlv.dest])

Tlv2Decode(tlv) ==
    Decoded(tlv, tlv.dest,
            IF tlv.delay = Inaccessible THEN MaxMetric ELSE tlv.delay, tlv.ext.tag)

FormatOf(v) == CASE v = 1 -> "tlv1" [] v = 2 -> "tlv2" [] OTHER -> "safe"

\* What one call of nbr->decoder does with the next TLV: hands a route over,
\* skips it, or gives up the rest of the packet.  The safe decoder of a
\* neighbour without a version gives everything up.
Outcome(v, tlv) ==
    IF v = 0 THEN "abort"
    ELSE IF tlv.format = FormatOf(v) THEN (IF MakesOut(v, tlv) THEN "route" ELSE "abort")
    ELSE IF tlv.format = "" /\ ~ tlv.sound THEN "abort"
    ELSE "skip"

Decode(v, tlv) == IF v = 1 THEN Tlv1Decode(tlv) ELSE Tlv2Decode(tlv)

\* ei->encoder for one route: eigrp_packet_encoder_safe writes nothing,
\* eigrp_packet_encoder_both the two formats, classic first.
Encode(encoder, r) ==
    CASE encoder = "safe" -> <<>>
      [] encoder = "tlv1" -> <<Tlv1Encode(r)>>
      [] encoder = "tlv2" -> <<Tlv2Encode(r)>>
      [] encoder = "both" -> <<Tlv1Encode(r), Tlv2Encode(r)>>

-------------------------------------------------------------------------------
(* The receive loops                                                          *)

\* mutant: the loop leaves at a TLV it has no route from
UpdateLoopBreaks(v, packet) ==
    FoldLeft(LAMBDA s, tlv :
                IF ~ s.more THEN s
                ELSE [routes |-> IF Outcome(v, tlv) = "route"
                                 THEN Append(s.routes, Decode(v, tlv)) ELSE s.routes,
                      more |-> FALSE],
             [routes |-> <<>>, more |-> TRUE], packet).routes

\* eigrp_update_receive: goes on over what the decoder skips, and leaves after
\* the first route.
UpdateLoop(v, packet) ==
    FoldLeft(LAMBDA s, tlv :
                IF ~ s.more THEN s
                ELSE [routes |-> IF Outcome(v, tlv) = "route"
                                 THEN Append(s.routes, Decode(v, tlv)) ELSE s.routes,
                      more |-> Outcome(v, tlv) = "skip"],
             [routes |-> <<>>, more |-> TRUE], packet).routes

\* eigrp_query_receive, eigrp_reply_receive: leave as soon as the decoder
\* returns no route.
QueryLoop(v, packet) ==
    FoldLeft(LAMBDA s, tlv :
                IF ~ s.more \/ Outcome(v, tlv) # "route" THEN [s EXCEPT !.more = FALSE]
                ELSE [s EXCEPT !.routes = Append(@, Decode(v, tlv))],
             [routes |-> <<>>, more |-> TRUE], packet).routes

-------------------------------------------------------------------------------
\* A route of the table.  What is sent of it is route->metric: the metric the
\* neighbour advertised, nothing of the link to it added, and all zero for a
\* connected route.
RouteType == [type : {"int", "ext"}, dest : Dest, delay : Delay \cup {0, MaxMetric},
              reliability : Reliability, ext : ExtData \cup {NoExt}]

Connected(d) == [type |-> "int", dest |-> d, delay |-> 0, reliability |-> 0,
                 ext |-> NoExt]
Learned(d) ==
    [type : {"int"}, dest : {d}, delay : Delay, reliability : Reliability, ext : {NoExt}]
    \cup [type : {"ext"}, dest : {d}, delay : Delay, reliability : Reliability,
          ext : ExtData]

\* What the encoders make of the route to d: a denied one goes out with an
\* infinite delay, which they write into the table's own descriptor.
Filtered(d) == [route[d] EXCEPT !.delay = IF d \in denied THEN MaxMetric ELSE @]

\* What routers of either software put into a packet, and what they do not.
Tlvs ==
    LET Routes == [type : {"int"}, dest : Dest, delay : Heard,
                   reliability : Reliability, ext : {NoExt}]
        Sound == {[Tlv1Encode(r) EXCEPT !.nexthop = n] : r \in Routes, n \in Nexthop}
                 \cup {Tlv2Encode(r) : r \in {q \in Routes : q.reliability = 0}}
        Plain(t, format, sound) ==
            [t EXCEPT !.format = format, !.sound = sound, !.delay = 0,
                      !.reliability = 0, !.nexthop = 0]
        Foreign == {Plain(t, "", TRUE) : t \in Sound}
    IN  Sound \cup Foreign \cup {Plain(t, t.format, FALSE) : t \in Sound \cup Foreign}
Packets == BoundedSeq(Tlvs, MaxTlvs)

Init == /\ nbr = [p \in Peer |-> NoNbr]
        /\ iface = EncoderClear
        /\ weights = Default
        /\ speaks \in [Peer -> Version]
        /\ route = [d \in Dest |-> Connected(d)]
        /\ denied = {}

Becomes(p, n) ==
    /\ nbr' = [nbr EXCEPT ![p] = n]
    /\ UNCHANGED <<weights, speaks, route, denied>>

\* eigrp_hello_parameter_decode: a neighbour whose K1 .. K5 are ours comes up
\* from DOWN, one with others goes down and stays.
ParameterDecode(state, k) ==
    IF k # weights THEN "down" ELSE IF state = "down" THEN "pending" ELSE state

\* eigrp_sw_version_decode: binds the neighbour to the codec of its version and
\* leaves what the interface counted as it is.
SwVersionDecode(i, state, old, new) ==
    [i EXCEPT !.rebound = @ \/ (state = "up" /\ old # new)]

\* eigrp_hello_receive: its sender is known from then on, and each of the two
\* TLVs may be there or not (an ACK has none), the Parameter TLV before the other.
\* Without a Software Version TLV the neighbour keeps its codec, at first the safe
\* one of version 0, whatever its state becomes.
HelloReceive(p) ==
    \E k \in [Coeff -> Weight], parameter, version \in BOOLEAN :
        LET n == IF nbr[p].state = "none" THEN [NoNbr EXCEPT !.state = "down"]
                 ELSE nbr[p]
            state == IF parameter THEN ParameterDecode(n.state, k) ELSE n.state
            v == IF version THEN speaks[p] ELSE n.version
        IN  /\ Becomes(p, [state |-> state, version |-> v])
            /\ iface' = SwVersionDecode(StateSet(iface, n, state), state, n.version, v)

\* eigrp_packet_ack: the INIT of a PENDING neighbour is acknowledged.  Stale
\* counts pile up, hence the bound.
AckInit(p) ==
    /\ nbr[p].state = "pending" /\ iface.tlv1 + iface.tlv2 < MaxCount
    /\ iface' = StateSet(iface, nbr[p], "up")
    /\ Becomes(p, [nbr[p] EXCEPT !.state = "up"])

\* An INIT from a neighbour that is UP: it restarted.
InitReceive(p) ==
    /\ nbr[p].state = "up"
    /\ iface' = StateSet(iface, nbr[p], "down")
    /\ Becomes(p, [nbr[p] EXCEPT !.state = "pending"])

\* eigrp_nbr_delete: peer termination, a K value of 255, an expired hold timer,
\* a cleared neighbour, too many retransmissions.
Delete(p) ==
    /\ nbr[p].state # "none"
    /\ iface' = StateSet(iface, nbr[p], "down")
    /\ Becomes(p, NoNbr)

\* eigrp_intf_down
IntfDown ==
    /\ nbr' = [p \in Peer |-> NoNbr]
    /\ iface' = EncoderClear
    /\ UNCHANGED <<weights, speaks, route, denied>>

\* The router behind the neighbour starts other software.
Replace(p) ==
    /\ \E v \in Version : speaks' = [speaks EXCEPT ![p] = v]
    /\ UNCHANGED <<nbr, iface, weights, route, denied>>

\* The configuration of one of K1 .. K5 and its removal; no neighbour is told or
\* taken down before its next Hello.
WeightModify(k, w) ==
    /\ weights' = [weights EXCEPT ![k] = w]
    /\ UNCHANGED <<nbr, iface, speaks, route, denied>>

WeightDestroy(k) ==
    /\ weights' = [weights EXCEPT ![k] = Default[k]]
    /\ UNCHANGED <<nbr, iface, speaks, route, denied>>

\* The outgoing distribute list is changed.
FilterChange ==
    /\ denied' \in SUBSET Dest
    /\ UNCHANGED <<nbr, iface, weights, speaks, route>>

\* DUAL puts another route first, or updates the one that is.
RouteChange(d) ==
    /\ \E r \in {Connected(d)} \cup Learned(d) : route' = [route EXCEPT ![d] = r]
    /\ UNCHANGED <<nbr, iface, weights, speaks, denied>>

\* A QUERY for d is built: ei->encoder writes the filter's poison into the table.
SendQuery(d) ==
    /\ iface.encoder # "safe"
    /\ route' = [route EXCEPT ![d] = Filtered(d)]
    /\ UNCHANGED <<nbr, iface, weights, speaks, denied>>

Next ==
    \/ \E p \in Peer : \/ HelloReceive(p)
                       \/ AckInit(p)
                       \/ InitReceive(p)
                       \/ Delete(p)
                       \/ Replace(p)
    \/ \E d \in Dest : RouteChange(d) \/ SendQuery(d)
    \/ IntfDown
    \/ \E k \in Coeff : WeightDestroy(k) \/ \E w \in Weight : WeightModify(k, w)
    \/ FilterChange

Spec == Init /\ [][Next]_vars

-------------------------------------------------------------------------------
\* Types: the counts are natural numbers and the encoder is the one that the
\* counts select.
TypeOK ==
    /\ nbr \in [Peer -> NbrType]
    /\ iface \in [tlv1 : Nat, tlv2 : Nat, encoder : Encoder, rebound : BOOLEAN]
    /\ iface.encoder = EncoderOf(iface.tlv1, iface.tlv2)
    /\ weights \in [Coeff -> Weight]
    /\ speaks \in [Peer -> Version]
    /\ route \in [Dest -> RouteType]
    /\ denied \in SUBSET Dest

UpWith(v) == {p \in Peer : nbr[p].state = "up" /\ nbr[p].version = v}

\* The interface counts the UP neighbours of each version, in whichever order
\* they come up, restart, mismatch and are deleted, as long as none changed its
\* version while it was UP.
CountsMatchPeers ==
    ~ iface.rebound => /\ iface.tlv1 = Cardinality(UpWith(1))
                       /\ iface.tlv2 = Cardinality(UpWith(2))

\* What is left of a route in each format: all of its delay in the wide one, its
\* low bits and at least 1 in the classic one, which alone has the tag.
Carried(v, r) ==
    LET low == r.delay % (Word \div Scaler)
    IN  [type |-> r.type, dest |-> r.dest,
         delay |-> IF v = 2 THEN r.delay ELSE IF low = 0 THEN 1 ELSE low,
         tag |-> IF v = 2 THEN 0 ELSE r.ext.tag]

\* What a router that reads every field at its place finds in a TLV, which this
\* one's classic decoder does not.
Written(tlv) ==
    Decoded(tlv, tlv.dest,
            IF tlv.format = "tlv1" THEN ScaledToDelay(tlv.delay)
            ELSE IF tlv.delay = Inaccessible THEN MaxMetric ELSE tlv.delay,
            tlv.ext.tag)

\* The places of a packet that hold a TLV of a version's format.
Own(v, packet) == {i \in DOMAIN packet : packet[i].format = FormatOf(v)}

\* Every UP neighbour that told its version finds in a multicast packet just one
\* TLV in the format its software understands, on a mixed link too, with what
\* that format carries of the route.  The wide one is what this router's own
\* UPDATE loop hands over.
EncoderServesPeers ==
    ~ iface.rebound =>
        \A v \in Version, d \in Dest : UpWith(v) # {} =>
            LET packet == Encode(iface.encoder, Filtered(d))
                carried == Carried(v, Filtered(d))
            IN  /\ \E i \in DOMAIN packet :
                       Own(v, packet) = {i} /\ Written(packet[i]) = carried
                /\ v = 2 => UpdateLoop(v, packet) = <<carried>>

\* The places of a packet at which the receiver's decoder makes out a route and
\* that no TLV at which it gives up stands before.  The classic one makes out
\* another destination, and gives up where the reliability is no prefix length.
Readable(v, packet) ==
    {i \in DOMAIN packet :
        /\ Outcome(v, packet[i]) = "route"
        /\ \A j \in 1 .. i - 1 : Outcome(v, packet[j]) # "abort"}

\* Of every packet a known neighbour may send, an UPDATE hands over the first
\* route that this router makes out, wherever it stands, and a QUERY or a REPLY
\* those that it begins with, in their order; nothing behind a TLV at which the
\* decoder gives up is handled.
HandedOver ==
    \A v \in {nbr[p].version : p \in Peer}, packet \in Packets :
        LET own == Readable(v, packet)
        IN  /\ UpdateLoop(v, packet) =
                   IF own = {} THEN <<>> ELSE <<Decode(v, packet[Min(own)])>>
            /\ QueryLoop(v, packet) =
                   [i \in {j \in own : 1 .. j \subseteq own} |-> Decode(v, packet[i])]
===============================================================================
