---------------------------- MODULE EigrpReliable ----------------------------
(***************************************************************************)
(* The reliable transport of eigrpd and the adjacency it brings up          *)
(* (eigrp_packet.c, eigrp_hello.c, eigrp_update.c, eigrp_neighbor.c,        *)
(* eigrp_packetizer.c): two routers on one link, each with at most one      *)
(* neighbour object for the other.                                          *)
(*                                                                          *)
(* A reliable packet waits in the neighbour's retrans_queue; a duplicate of *)
(* the head goes to the interface's output queue (obuf), from there to the  *)
(* link, which may lose it.  Each handler of the single-threaded daemon is  *)
(* one action; the two daemons interleave.  What a packet says of routes is *)
(* left out, and one full-table UPDATE fits in one packet.                  *)
(*                                                                          *)
(* "id" is not in the code: it tells packets with one number apart.         *)
(***************************************************************************)
EXTENDS Integers, FiniteSets, SequencesExt

CONSTANTS
    Router,        \* the two routers
    RetransMax,    \* EIGRP_PACKET_RETRANS_MAX, 16 in the code
    MaxSeq,        \* the largest sequence number, 2^32 - 1 in the code
    Late,          \* may a timer expire while the answer is on its way?
    MaxBuilt,      \* bound: packets built by a router that sends routes
    MaxLosses,     \* bound: packets the link loses
    MaxFailures,   \* bound: restarts, expired hold timers, cleared neighbours
    MaxOutput      \* bound: packets sent and not arrived, for a timer to add one

ASSUME RouterAssumption == IsFiniteSet(Router) /\ Cardinality(Router) = 2
ASSUME TransportAssumption ==
    /\ RetransMax \in Nat \ {0} /\ MaxSeq \in Nat \ {0} /\ Late \in BOOLEAN
    /\ MaxBuilt \in Nat /\ MaxLosses \in Nat /\ MaxFailures \in Nat
    /\ MaxOutput \in Nat

VARIABLES
    rt,         \* [Router -> RouterState]: the daemon's state
    wire,       \* [Router -> Seq(Sent)]: what a router sent, oldest first
    heard,      \* [Router -> Nat]: id of the last packet of the peer it handled
    losses, failures,
    fault       \* "none", or the use of a freed neighbour that ended the run
vars == <<rt, wire, heard, losses, failures, fault>>

Hello    == {"hello", "bye"}   \* "bye": with the Peer Termination TLV
Update   == {"init", "eot", "update"}
Reliable == Update \cup {"query"}  \* "query": a QUERY or a REPLY

\* A packet in retrans_queue: retrans_counter, t_retrans_timer and
\* sequence_reserved.
Held == [kind : Reliable, id : Nat, seq : Nat, count : Nat, timer : BOOLEAN,
         reserved : BOOLEAN]
\* A packet on the link; an ACK is a "hello" whose ack is not 0.
Sent == [kind : Hello \cup Reliable, id : Nat, seq : Nat, ack : Nat]
\* A packet in obuf: packet->nbr is null, a neighbour, or one that was freed.
Output == [kind : Hello \cup Reliable, id : Nat, seq : Nat, ack : Nat,
           nbr : {"null", "live", "freed"}]

\* "none": the peer is unknown.  DOWN does not outlast a handler, since the
\* routers agree on the K values.
NbrState == {"none", "down", "pending", "up"}
RouterState == [nbr : NbrState, seq : 1..MaxSeq, recv : Nat, init : Nat,
                queue : Seq(Held), obuf : Seq(Output), built : Nat]

Started == [nbr |-> "none", seq |-> 1, recv |-> 0, init |-> 0, queue |-> <<>>,
            obuf |-> <<>>, built |-> 0]

Peer(r) == CHOOSE p \in Router : p # r

-----------------------------------------------------------------------------
(* Building and queueing.                                                  *)

BumpToZero(n) == (n + 1) % (MaxSeq + 1) \* mutant: 0 is a number like others

\* sequence_number++, which skips 0
Bump(n) == IF n = MaxSeq THEN 1 ELSE n + 1

Out(s, kind, ack) ==
    [s EXCEPT !.obuf = Append(@, [kind |-> kind, id |-> 0, seq |-> 0,
                                  ack |-> ack, nbr |-> "null"])]

\* mutant: the copy goes to the wrong end of the output queue
OutCopyFirst(s, p, owner) ==
    [s EXCEPT !.obuf = <<[kind |-> p.kind, id |-> p.id, seq |-> p.seq,
                          ack |-> 0, nbr |-> owner]>> \o @]

\* A copy of a held packet; its ACK is filled in when it is written.
OutCopy(s, p, owner) ==
    [s EXCEPT !.obuf = Append(@, [kind |-> p.kind, id |-> p.id, seq |-> p.seq,
                                  ack |-> 0, nbr |-> owner])]

\* mutant: the copy is sent without a timer
SendReliablyOnce(s) == IF s.queue = <<>> THEN s ELSE OutCopy(s, Head(s.queue), "live")

SendReliably(s) ==
    IF s.queue = <<>> THEN s
    ELSE LET p == Head(s.queue)
         IN  [OutCopy(s, p, "live") EXCEPT
                !.queue[1].timer = TRUE, !.queue[1].reserved = TRUE,
                !.seq = IF p.reserved THEN @ ELSE Bump(@)]

Enqueue(s, kind, number, reserved) ==
    [s EXCEPT !.built = @ + 1,
              !.queue = Append(@, [kind |-> kind, id |-> s.built + 1,
                                   seq |-> number, count |-> 0,
                                   timer |-> FALSE, reserved |-> reserved])]

\* mutant: the packet is sent at once, whatever waits before it
PlaceAndSend(s, kind, number, reserved) ==
    LET t == Enqueue(s, kind, number, reserved)
    IN  IF Len(t.queue) = 1 THEN SendReliably(t)
        ELSE OutCopy(t, Last(t.queue), "live")

\* Only a packet that is alone in the queue is sent now.
Place(s, kind, number, reserved) ==
    LET t == Enqueue(s, kind, number, reserved)
    IN  IF Len(t.queue) = 1 THEN SendReliably(t) ELSE t

SendInit(s) == [Place(s, "init", s.seq, FALSE) EXCEPT !.init = s.seq]

\* sequence_number = seq_no++ stores the number that was just used.
SendFullTable(s) == [Place(s, "eot", s.seq, FALSE) EXCEPT !.seq = s.seq]
SendChanges(s)   == [Place(s, "update", s.seq, FALSE) EXCEPT !.seq = s.seq]

\* eigrp_packetizer_neighbor_route_send
SendToNeighbor(s) == Place([s EXCEPT !.seq = Bump(@)], "query", s.seq, TRUE)

\* eigrp_packetizer_query_interface_send: the neighbour keeps a duplicate and
\* the multicast original, which has no neighbour, goes out without an ACK.
SendToInterface(s) ==
    LET t == Enqueue([s EXCEPT !.seq = Bump(@)], "query", s.seq, TRUE)
    IN  IF Len(t.queue) = 1
        THEN [OutCopy(t, Head(t.queue), "null") EXCEPT !.queue[1].timer = TRUE]
        ELSE t
-----------------------------------------------------------------------------
(* The neighbour object.                                                   *)

\* mutant: the queue outlives the adjacency
StateDownKeepsQueue(s) == [s EXCEPT !.nbr = "down", !.recv = 0, !.init = 0]

\* eigrp_nbr_state_set(nbr, EIGRP_NEIGHBOR_DOWN)
StateDown(s) == [s EXCEPT !.nbr = "down", !.recv = 0, !.init = 0, !.queue = <<>>]

\* eigrp_nbr_delete; packets in obuf keep the pointer to the freed object.
Delete(s) ==
    [StateDown(s) EXCEPT
        !.nbr  = "none",
        !.obuf = [i \in DOMAIN @ |->
                    IF @[i].nbr = "live" THEN [@[i] EXCEPT !.nbr = "freed"]
                    ELSE @[i]]]

\* The parameter TLV comes first: an unknown peer is created and greeted even
\* if the Peer Termination TLV that follows deletes it.
HelloReceive(s, kind) ==
    LET known == IF s.nbr = "none"
                 THEN [SendInit(Out(s, "hello", 0)) EXCEPT !.nbr = "pending"]
                 ELSE s
    IN  IF kind = "bye" THEN Delete(known) ELSE known

\* mutant: the ACK of the INIT does not complete the adjacency
AckForgetsInit(s, p) ==
    IF s.queue = <<>> \/ Head(s.queue).seq # p.ack THEN s
    ELSE SendReliably([s EXCEPT !.queue = Tail(@)])

\* eigrp_packet_ack: only the head is compared.
AckReceive(s, p) ==
    IF p.ack = 0 \/ s.queue = <<>> \/ Head(s.queue).seq # p.ack THEN s
    ELSE LET t == [s EXCEPT !.queue = Tail(@)]
         IN  IF s.nbr = "pending" /\ p.ack = s.init
             THEN SendFullTable([t EXCEPT !.nbr = "up", !.init = 0, !.recv = p.seq])
             ELSE SendReliably(t)

\* An INIT with a new number: the peer restarted.
InitReceive(s, p) ==
    CASE s.nbr = "pending" /\ s.init = 0 -> SendInit(s)
      [] s.nbr = "up" ->
             SendInit([StateDown(s) EXCEPT !.nbr = "pending", !.recv = p.seq])
      [] OTHER -> s

\* mutant: an INIT that was heard before counts as a restart
UpdateReceiveAny(s, p) ==
    LET t == [s EXCEPT !.recv = p.seq]
        u == IF p.kind = "init" THEN InitReceive(t, p) ELSE t
    IN  IF u.nbr = "up" /\ p.kind # "init" THEN Out(u, "hello", u.recv) ELSE u

UpdateReceive(s, p) ==
    LET t == [s EXCEPT !.recv = p.seq]
        u == IF p.kind = "init" /\ s.recv # p.seq THEN InitReceive(t, p) ELSE t
    IN  IF u.nbr = "up" /\ p.kind # "init" THEN Out(u, "hello", u.recv) ELSE u

QueryReceive(s, p) == Out([s EXCEPT !.recv = p.seq], "hello", p.seq)

\* eigrp_packet_read: a Hello is handled before its ACK is looked at, other
\* packets of an unknown peer are dropped.
PacketRead(s, p) ==
    CASE p.kind \in Hello  -> HelloReceive(s, p.kind)
      [] p.kind \in Reliable /\ s.nbr = "none" -> s
      [] p.kind \in Update /\ s.nbr # "none" -> UpdateReceive(AckReceive(s, p), p)
      [] p.kind = "query" /\ s.nbr # "none" -> QueryReceive(AckReceive(s, p), p)
-----------------------------------------------------------------------------
Init ==
    /\ rt = [r \in Router |-> Started]
    /\ wire = [r \in Router |-> <<>>]
    /\ heard = [r \in Router |-> 0]
    /\ losses = 0 /\ failures = 0 /\ fault = "none"

Becomes(r, s) == rt' = [rt EXCEPT ![r] = s]

\* Bound: a timer or the work queue adds no packet while many are on their way.
Room(r) == fault = "none" /\ Len(rt[r].obuf) + Len(wire[r]) < MaxOutput

\* eigrp_packet_write: the ACK is brought up to date through packet->nbr.
Write(r) ==
    /\ fault = "none" /\ rt[r].obuf # <<>>
    /\ LET p == Head(rt[r].obuf)
       IN  IF p.nbr = "freed"
           THEN /\ fault' = "freed_neighbor"
                /\ UNCHANGED <<rt, wire>>
           ELSE /\ wire' = [wire EXCEPT ![r] =
                     Append(@, [kind |-> p.kind, id |-> p.id, seq |-> p.seq,
                                ack |-> IF p.nbr = "live" THEN rt[r].recv
                                        ELSE p.ack])]
                /\ Becomes(r, [rt[r] EXCEPT !.obuf = Tail(@)])
                /\ UNCHANGED fault
    /\ UNCHANGED <<heard, losses, failures>>

Read(r) ==
    /\ fault = "none" /\ wire[Peer(r)] # <<>>
    /\ LET p == Head(wire[Peer(r)])
       IN  /\ Becomes(r, PacketRead(rt[r], p))
           /\ heard' = IF p.kind \in Reliable /\ rt[r].nbr # "none"
                       THEN [heard EXCEPT ![r] = p.id] ELSE heard
    /\ wire' = [wire EXCEPT ![Peer(r)] = Tail(@)]
    /\ UNCHANGED <<losses, failures, fault>>

\* The link loses the oldest packet.
Lose(r) ==
    /\ fault = "none" /\ wire[r] # <<>> /\ losses < MaxLosses
    /\ wire' = [wire EXCEPT ![r] = Tail(@)]
    /\ losses' = losses + 1
    /\ UNCHANGED <<rt, heard, failures, fault>>

\* Bound: a periodic Hello is sent when the last packet has arrived.
HelloTimer(r) ==
    /\ Room(r) /\ rt[r].obuf = <<>> /\ wire[r] = <<>>
    /\ Becomes(r, Out(rt[r], "hello", 0))
    /\ UNCHANGED <<wire, heard, losses, failures, fault>>

\* No reliable packet or ACK is between the routers.
Quiet == \A r \in Router : \A p \in ToSet(rt[r].obuf) \cup ToSet(wire[r]) :
             p.kind \in Hello /\ p.ack = 0

\* eigrp_packet_unack_retrans.  Unless Late, the timer (2 s) outlasts a round
\* trip, and the peer hears a Hello (5 s) before the packet is given up (32 s).
RetransTimer(r) ==
    /\ Room(r) /\ rt[r].queue # <<>> /\ Head(rt[r].queue).timer
    /\ Late \/ (Quiet /\ rt[Peer(r)].nbr # "none")
    /\ LET p == Head(rt[r].queue)
       IN  Becomes(r, [OutCopy(rt[r], p, "live") EXCEPT
                         !.queue[1].count = @ + 1,
                         !.queue[1].timer = p.count + 1 # RetransMax])
    /\ UNCHANGED <<wire, heard, losses, failures, fault>>

\* The work queue builds a packet for the peer.
SendRoutes(r, s) ==
    /\ Room(r) /\ rt[r].nbr = "up" /\ rt[r].built < MaxBuilt
    /\ Becomes(r, s)
    /\ UNCHANGED <<wire, heard, losses, failures, fault>>
SendUpdate(r) == SendRoutes(r, SendChanges(rt[r]))
SendReply(r)  == SendRoutes(r, SendToNeighbor(rt[r]))
SendQuery(r)  == SendRoutes(r, SendToInterface(rt[r]))

Fails(r, s) ==
    /\ fault = "none" /\ failures < MaxFailures
    /\ Becomes(r, s)
    /\ failures' = failures + 1
    /\ UNCHANGED <<wire, heard, losses, fault>>
HoldTimer(r) == rt[r].nbr # "none" /\ Fails(r, Delete(rt[r]))
\* "clear ip eigrp neighbors": the peer is told in a Hello.
ClearNeighbor(r) == rt[r].nbr # "none" /\ Fails(r, Delete(Out(rt[r], "bye", 0)))
\* The daemon ends and starts again; ids stay unique.
Restart(r) == Fails(r, [Started EXCEPT !.built = rt[r].built])

Next == \E r \in Router :
    \/ Write(r) \/ Read(r) \/ Lose(r) \/ HelloTimer(r) \/ RetransTimer(r)
    \/ SendUpdate(r) \/ SendReply(r) \/ SendQuery(r)
    \/ HoldTimer(r) \/ ClearNeighbor(r) \/ Restart(r)

Spec == Init /\ [][Next]_vars

\* The event loop serves every socket and timer that is ready.
Fairness == \A r \in Router : /\ WF_vars(Write(r)) /\ WF_vars(Read(r))
                              /\ WF_vars(HelloTimer(r)) /\ WF_vars(RetransTimer(r))
FairSpec == Spec /\ Fairness
-----------------------------------------------------------------------------
(* Properties.                                                             *)

\* Every variable keeps its type; the next sequence number is never 0, which
\* as an ACK means none.
TypeOK ==
    /\ rt \in [Router -> RouterState]
    /\ wire \in [Router -> Seq(Sent)]
    /\ heard \in [Router -> Nat]
    /\ losses \in 0..MaxLosses /\ failures \in 0..MaxFailures
    /\ fault \in {"none", "freed_neighbor"}

\* A queue never waits for nothing: the retransmission timer of its head is
\* running, unless the head was retransmitted as often as the code allows, and
\* no other packet has one.
HeadTimed ==
    \A r \in Router : LET q == rt[r].queue IN
        /\ q # <<>> => Head(q).timer \/ Head(q).count = RetransMax
        /\ \A i \in 2..Len(q) : ~q[i].timer /\ q[i].count = 0

\* One packet at a time: of the packets that wait for their ACK only the head
\* was ever sent.
StopAndWait ==
    \A r \in Router : \A i \in 2..Len(rt[r].queue) :
        /\ \A p \in ToSet(rt[r].obuf) \cup ToSet(wire[r]) :
               p.id # rt[r].queue[i].id
        /\ heard[Peer(r)] # rt[r].queue[i].id

\* A neighbour is PENDING exactly while the INIT it was sent awaits its ACK
\* and nothing else is queued; init_sequence_number is the INIT's number, so
\* that update_receive never sends a second INIT.
PendingHoldsInit ==
    \A r \in Router : LET s == rt[r] IN
        /\ s.nbr = "pending" <=> s.init # 0
        /\ s.nbr = "pending" <=> \E p \in ToSet(s.queue) : p.kind = "init"
        /\ s.nbr = "pending" => Len(s.queue) = 1 /\ Head(s.queue).seq = s.init
        /\ s.nbr = "none" => s.queue = <<>> /\ s.recv = 0

\* The transport implements an ordered channel through losses, retransmissions
\* and restarts: a duplicate may come late, an older packet never, and none is
\* handled before it was built.
Channel == INSTANCE OrderedChannel WITH
    Other <- Peer,
    built <- [r \in Router |-> rt[r].built]

ImplementsChannel == Channel!Spec

\* A retransmitted INIT does not take down the adjacency it began: a router
\* that knows the peer greets it anew only for an INIT it had not handled.
OldInitIgnored ==
    [][\A r \in Router :
          (rt[r].nbr # "none" /\ rt'[r].nbr = "pending" /\ rt'[r].built > rt[r].built)
            => heard'[r] > heard[r]]_vars

\* On a link that loses a bounded number of packets both routers come up and
\* stay up.
BecomesFull == <>[](\A r \in Router : rt[r].nbr = "up")
=============================================================================
