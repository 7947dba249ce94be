------------------------- MODULE EigrpGracefulRestart -------------------------
(* How eigrpd tells its neighbours that a filter was changed                  *)
(* (eigrp_filter.c, eigrp_update.c, eigrp_vty.c): ten seconds after the change, *)
(* or on `clear ... neighbors soft', each neighbour is sent the whole topology *)
(* table in UPDATEs whose flags mark the first and the last; its own eigrpd   *)
(* puts what was not among them to DUAL with an infinite delay.  One          *)
(* neighbour on each interface, EIGRP runs on all of them, and only outgoing  *)
(* filters change.                                                            *)
(*                                                                            *)
(* Packets arrive in their order, as EigrpReliable shows.  Of their numbers   *)
(* only this matters, whether one is that of the packet before it: the other  *)
(* router takes such a packet for a duplicate.  QUERYs and REPLYs, which take *)
(* a number of their own, are left out.                                       *)
(*                                                                            *)
(* What DUAL does with a metric is left to EigrpDual, where the infinite delay *)
(* wraps: a route may stay.  Here "offered" is what the DUAL of the neighbour *)
(* has last heard of from this router with the metric of a TLV.               *)
EXTENDS Integers, FiniteSets, FiniteSetsExt, SequencesExt

CONSTANTS
    Ifp,         \* interfaces
    Prefix,      \* destinations, in the order of the topology table
    MaxIPv4,     \* EIGRP_TLV_MAX_IPv4, 25 in the code
    List,        \* what an access or prefix list may deny
    MaxChanges   \* bound on filter changes, soft clears and changes DUAL sends

ASSUME ResyncAssumption ==
    /\ IsFiniteSet(Ifp)
    /\ Prefix \subseteq Nat /\ IsFiniteSet(Prefix)
    /\ MaxIPv4 \in Nat \ {0}
    /\ {} \in List /\ List \subseteq SUBSET Prefix
    /\ MaxChanges \in Nat
    /\ {"none", "process"} \cap Ifp = {}

Process == "process"         \* a distribute list without an interface
Scope == Ifp \cup {Process}

VARIABLES
    table,      \* destinations of the topology table
    out,        \* [Scope -> what the outgoing list there denies]
    timers,     \* [Scope -> how many timers run that start a resynchronisation]
    scheduled,  \* eigrp->t_distribute: the scope of the timer it points to
    nbr,        \* [Ifp -> the neighbour object]
    peer,       \* [Ifp -> the router at the other end]
    untold,     \* interfaces whose neighbour was not sent a first packet since
                \* a filter on its way was changed; not in the code
    sameSeq,    \* interfaces whose neighbour was last sent the number that
                \* eigrp->sequence_number still has
    changes     \* how many of what MaxChanges bounds
vars == <<table, out, timers, scheduled, nbr, peer, untold, sameSeq, changes>>

None == "none"

\* A packet in retrans_queue: its flags ("plain": none), the destinations of its
\* TLVs, and whether it has the number of the packet before it.
Packet == [flags : {"init+rs+eot", "init+rs", "eot", "plain"},
           tlvs : SUBSET Prefix, same : BOOLEAN]
FirstFlags == {"init+rs+eot", "init+rs"}

\* type, toSend and timer are nbr_gr_packet_type, nbr_gr_prefixes_send and
\* t_nbr_send_gr.
NbrType == [known : BOOLEAN, type : {"na", "first", "last"},
            toSend : SUBSET Prefix, timer : BOOLEAN, queue : Seq(Packet)]
NoNbr == [known |-> FALSE, type |-> "na", toSend |-> {}, timer |-> FALSE,
          queue |-> <<>>]

\* "saved": nbr_gr_prefixes of the other router points to a list, which
\* eigrp_update_receive has freed.  "ignored" is not in the code: the first
\* packet of the last resynchronisation was taken for a duplicate.
PeerType == [offered : SUBSET Prefix, saved : BOOLEAN, ignored : BOOLEAN,
             crashed : BOOLEAN]
Fresh == [offered |-> {}, saved |-> FALSE, ignored |-> FALSE, crashed |-> FALSE]

-------------------------------------------------------------------------------
(* Sending: eigrp_update.c                                                    *)

\* eigrp_update_prefix_apply for the outgoing direction
Allowed(i) == table \ (out[Process] \cup out[i])

\* The first m elements of a set of destinations.
FirstOf(m, S) == {p \in S : Cardinality({q \in S : q < p}) < m}

\* eigrp_update_send_GR_part, which walks the table from its top for each
\* packet, and leaves when it has filled one.
SendPart(n, i, same) ==
    IF n.type = "last" THEN n
    ELSE LET one  == Cardinality(n.toSend) <= MaxIPv4
             full == Cardinality(Allowed(i)) >= MaxIPv4
             tlvs == FirstOf(MaxIPv4, Allowed(i))
             seen == IF full THEN {p \in table : p <= Max(tlvs)} ELSE table
         IN  [n EXCEPT
                !.type = IF one THEN "last" ELSE "na",
                !.toSend = @ \ seen,
                !.queue = Append(@,
                    [flags |-> IF n.type = "first"
                               THEN IF one THEN "init+rs+eot" ELSE "init+rs"
                               ELSE IF one THEN "eot" ELSE "plain",
                     tlvs |-> tlvs, same |-> same])]

\* mutant: the packet waits for its turn and nobody wakes it
SendEventOnce(n, i, same) == IF n.queue # <<>> THEN n ELSE SendPart(n, i, same)

\* eigrp_update_send_GR_event: while a packet waits for its ACK, and when there
\* is more to send, it comes back in 10 ms.
SendEvent(n, i, same) ==
    IF n.queue # <<>> THEN [n EXCEPT !.timer = TRUE]
    ELSE LET sent == SendPart(n, i, same)
         IN  IF sent.type = "last" THEN sent ELSE [sent EXCEPT !.timer = TRUE]

\* mutant: a resynchronisation that is under way is left alone
ResyncUnlessBusy(n, i, same) ==
    IF ~ n.known \/ n.timer THEN n
    ELSE SendEvent([n EXCEPT !.toSend = table, !.type = "first"], i, same)

\* eigrp_update_send_GR
Resync(n, i, same) ==
    IF ~ n.known THEN n
    ELSE SendEvent([n EXCEPT !.toSend = table, !.type = "first"], i, same)

\* eigrp_update_send_process_GR and eigrp_update_send_interface_GR.  The first
\* packet that is sent at once, to the neighbour on f, takes the number that is
\* there, and the next ones are numbered from it.
ResyncAll(scope) ==
    LET sending == {i \in Ifp : /\ scope \in {i, Process}
                                /\ nbr[i].known /\ nbr[i].queue = <<>>}
    IN  \E f \in sending \cup {None} :
           /\ f = None <=> sending = {}
           /\ nbr' = [i \in Ifp |-> IF scope \in {i, Process}
                                    THEN Resync(nbr[i], i, i = f /\ i \in sameSeq)
                                    ELSE nbr[i]]
           /\ sameSeq' = IF sending = {} THEN sameSeq ELSE {}

-------------------------------------------------------------------------------
(* Receiving: eigrp_update_receive in the other router                        *)

\* mutant: nothing is withdrawn
FinalAdds(offered, before, tlvs) == offered \cup FirstOf(1, tlvs)

\* What is offered after a packet that ends the resynchronisation that `before'
\* is the list of: the first route of the packet is taken, and what is on the
\* list and is not that one goes to DUAL with an infinite delay
\* (eigrp_update_receive_GR_ask).
Final(offered, before, tlvs) ==
    LET first == FirstOf(1, tlvs) IN (offered \cup first) \ (before \ first)

\* The first route of a packet is taken in any case, its flags only when it is
\* no duplicate.  A list saved from the first packet is freed at the end of the
\* handler: the next packet without INIT uses it and frees it again, which ends
\* the process.
Receive(r, packet) ==
    LET heard == [r EXCEPT !.offered = @ \cup FirstOf(1, packet.tlvs)]
    IN  CASE packet.same ->
                [heard EXCEPT !.ignored = @ \/ packet.flags \in FirstFlags]
          [] ~ packet.same /\ packet.flags = "init+rs+eot" ->
                [r EXCEPT !.offered = Final(@, @, packet.tlvs), !.ignored = FALSE]
          [] ~ packet.same /\ packet.flags = "init+rs" ->
                [heard EXCEPT !.saved = TRUE, !.ignored = FALSE]
          [] ~ packet.same /\ packet.flags \in {"eot", "plain"} /\ r.saved ->
                [Fresh EXCEPT !.crashed = TRUE]
          [] OTHER -> heard

-------------------------------------------------------------------------------
Init == /\ table = {}
        /\ out = [s \in Scope |-> {}]
        /\ timers = [s \in Scope |-> 0] /\ scheduled = None
        /\ nbr = [i \in Ifp |-> NoNbr]
        /\ peer = [i \in Ifp |-> Fresh]
        /\ untold = {} /\ sameSeq = {} /\ changes = 0

\* Two routers become neighbours: after the INIT, which takes a number, the whole
\* table goes out in an UPDATE with the EOT flag, and eigrp->sequence_number is
\* set back to the number of that.  The other router takes it for a duplicate
\* when it is the packet that acknowledges its own INIT (eigrp_packet_ack), which
\* makes a difference to one that has a list.
\* A neighbour object that is there had its queue renewed, since the other
\* router restarted, and keeps the rest; so does the object for this router in
\* the other one, when it was this one that restarted.
Adjacency(i) ==
    /\ \/ peer' = [peer EXCEPT ![i] = Fresh]
       \/ /\ ~ nbr[i].known /\ ~ peer[i].crashed
          /\ peer' = [peer EXCEPT ![i] = [@ EXCEPT !.offered = {}, !.ignored = FALSE]]
    /\ \E same \in {FALSE, peer'[i].saved} :
          nbr' = [nbr EXCEPT ![i] =
                    [@ EXCEPT !.known = TRUE,
                              !.queue = <<[flags |-> "eot", tlvs |-> Allowed(i),
                                           same |-> same]>>]]
    /\ untold' = untold \ {i} /\ sameSeq' = {i}
    /\ UNCHANGED <<table, out, timers, scheduled, changes>>

\* eigrp_nbr_delete, which cancels the events of the neighbour.
NeighborLost(i) ==
    /\ nbr[i].known
    /\ nbr' = [nbr EXCEPT ![i] = NoNbr]
    /\ untold' = untold \ {i} /\ sameSeq' = sameSeq \ {i}
    /\ UNCHANGED <<table, out, timers, scheduled, peer, changes>>

\* DUAL finds a destination.
TableChange(p) ==
    /\ p \notin table
    /\ table' = table \cup {p}
    /\ UNCHANGED <<out, timers, scheduled, nbr, peer, untold, sameSeq, changes>>

\* eigrp_update_send: a change goes out in an UPDATE of its own.  The number it
\* has stays that of the next packet, unless it waits: then its turn takes one
\* (eigrp_packet_send_reliably).
SendChange(i, p) ==
    /\ changes < MaxChanges /\ changes' = changes + 1
    /\ nbr[i].known /\ p \in Allowed(i)
    /\ nbr' = [nbr EXCEPT ![i].queue = Append(@,
                   [flags |-> "plain", tlvs |-> {p}, same |-> i \in sameSeq])]
    /\ sameSeq' = sameSeq \cup {i}
    /\ UNCHANGED <<table, out, timers, scheduled, peer, untold>>

\* The head of the queue is handled by the other router and acknowledged; the
\* next one, an UPDATE of SendChange, is sent, which takes a number.
Deliver(i) ==
    /\ nbr[i].queue # <<>> /\ ~ peer[i].crashed
    /\ peer' = [peer EXCEPT ![i] = Receive(@, Head(nbr[i].queue))]
    /\ nbr' = [nbr EXCEPT ![i].queue = Tail(@)]
    /\ sameSeq' = IF Len(nbr[i].queue) > 1 THEN {} ELSE sameSeq
    /\ UNCHANGED <<table, out, timers, scheduled, untold, changes>>

\* Interfaces whose neighbour is sent a first packet in this step.
Told == {i \in Ifp : /\ nbr'[i].queue # nbr[i].queue
                     /\ Last(nbr'[i].queue).flags \in FirstFlags}
Affected(scope) == {i \in Ifp : nbr[i].known /\ scope \in {i, Process}}

\* mutant: the timer of another interface is cancelled
ScheduleOne(scope) ==
    /\ timers' = [s \in Scope |-> timers[s] + (IF s = scope THEN 1 ELSE 0)
                                            - (IF s = scheduled THEN 1 ELSE 0)]
    /\ scheduled' = scope

\* The end of eigrp_distribute_update.  For the process the timer that
\* t_distribute points to is cancelled; for an interface it is forgotten, since
\* what is cancelled is the interface's own pointer, which is never set.
Schedule(scope) ==
    /\ timers' = [s \in Scope |->
                    timers[s] + (IF s = scope THEN 1 ELSE 0)
                    - (IF scope = Process /\ s = scheduled THEN 1 ELSE 0)]
    /\ scheduled' = scope

\* eigrp_distribute_update: the distribute list of the process or of an
\* interface is set.
DistributeUpdate(scope, list) ==
    /\ changes < MaxChanges /\ changes' = changes + 1
    /\ out' = [out EXCEPT ![scope] = list]
    /\ Schedule(scope)
    /\ untold' = untold \cup Affected(scope)
    /\ UNCHANGED <<table, nbr, peer, sameSeq>>

\* eigrp_distribute_update_all: a list that a distribute list names is edited.
\* Every interface with a distribute list is updated, the process is not.
ListEdited(scope, list) ==
    LET updated == {i \in Ifp : out[i] # {}} \cup ({scope} \ {Process})
    IN  /\ changes < MaxChanges /\ changes' = changes + 1
        /\ out[scope] # {} /\ out' = [out EXCEPT ![scope] = list]
        /\ timers' = [s \in Scope |-> timers[s] + (IF s \in updated THEN 1 ELSE 0)]
        /\ IF updated = {} THEN UNCHANGED scheduled ELSE scheduled' \in updated
        /\ untold' = untold \cup {i \in updated : nbr[i].known}
        /\ UNCHANGED <<table, nbr, peer, sameSeq>>

\* mutant: the pointer is left behind
DistributeTimerStale(scope) ==
    /\ timers[scope] > 0
    /\ timers' = [timers EXCEPT ![scope] = @ - 1]
    /\ ResyncAll(scope)
    /\ untold' = untold \ Told
    /\ UNCHANGED <<table, out, scheduled, peer, changes>>

\* eigrp_distribute_timer_process, eigrp_distribute_timer_interface; whichever
\* timer expires, libfrr clears the pointer it was started with.
DistributeTimer(scope) ==
    /\ timers[scope] > 0
    /\ timers' = [timers EXCEPT ![scope] = @ - 1]
    /\ scheduled' = None
    /\ ResyncAll(scope)
    /\ untold' = untold \ Told
    /\ UNCHANGED <<table, out, peer, changes>>

\* clear_eigrp_neighbor_all_cb and clear_eigrp_neighbor_interface_cb, soft
SoftClear(scope) ==
    /\ changes < MaxChanges /\ changes' = changes + 1
    /\ ResyncAll(scope)
    /\ untold' = untold \ Told
    /\ UNCHANGED <<table, out, timers, scheduled, peer>>

\* t_nbr_send_gr expires.
SendTimer(i) ==
    /\ nbr[i].timer
    /\ nbr' = [nbr EXCEPT ![i] = SendEvent([@ EXCEPT !.timer = FALSE], i, i \in sameSeq)]
    /\ sameSeq' = IF nbr'[i].queue = nbr[i].queue THEN sameSeq ELSE {}
    /\ untold' = untold \ Told
    /\ UNCHANGED <<table, out, timers, scheduled, peer, changes>>

Next ==
    \/ \E i \in Ifp : \/ Adjacency(i)
                      \/ NeighborLost(i)
                      \/ Deliver(i)
                      \/ SendTimer(i)
    \/ \E i \in Ifp, p \in Prefix : SendChange(i, p)
    \/ \E p \in Prefix : TableChange(p)
    \/ \E s \in Scope : \/ DistributeTimer(s)
                        \/ SoftClear(s)
    \/ \E s \in Scope, list \in List : \/ DistributeUpdate(s, list)
                                      \/ ListEdited(s, list)

Spec == Init /\ [][Next]_vars

\* The event loop runs the timers that have expired and the packets that come;
\* the hold timer notices a router that ended.  Of the events of a neighbour it
\* is enough that one is not put off for ever.
NeighborEvent(i) == \/ SendTimer(i)
                    \/ Deliver(i)
                    \/ peer[i].crashed /\ NeighborLost(i)
Fairness == /\ \A s \in Scope : WF_vars(DistributeTimer(s))
            /\ \A i \in Ifp : WF_vars(NeighborEvent(i))
FairSpec == Spec /\ Fairness
-------------------------------------------------------------------------------
(* Properties.                                                                *)

TypeOK ==
    /\ table \subseteq Prefix
    /\ out \in [Scope -> List]
    /\ timers \in [Scope -> Nat]
    /\ scheduled \in Scope \cup {None}
    /\ nbr \in [Ifp -> NbrType] /\ peer \in [Ifp -> PeerType]
    /\ untold \subseteq {i \in Ifp : nbr[i].known} /\ sameSeq \subseteq Ifp
    /\ changes \in 0..MaxChanges

\* A filter change is not forgotten, though all the timers share one pointer: a
\* neighbour that was not told of it has a timer that will start its
\* resynchronisation, or the first packet of one waits for its turn.
ChangeAnnounced ==
    \A i \in untold : \/ timers[i] > 0 \/ timers[Process] > 0
                     \/ (nbr[i].type = "first" /\ nbr[i].timer)

\* A resynchronisation that was begun and is not over goes on: while its first
\* packet waits for its turn, while a first packet that promised more is in the
\* queue, and while destinations are left, the timer that sends more runs.
Unfinished(n) ==
    \/ n.type = "first"
    \/ n.type = "na" /\ n.toSend # {}
    \/ \E k \in DOMAIN n.queue : n.queue[k].flags = "init+rs"
ResyncGoesOn == \A i \in Ifp : Unfinished(nbr[i]) => nbr[i].timer

\* When a resynchronisation is over, nothing that the filter of the interface
\* denies is offered to the neighbour: an UPDATE that was queued before the
\* change is handled before the packet that withdraws.  There is one exception,
\* and only one: the first packet had the number of the packet before it
\* (sequence_number = seq_no++) and was taken for a duplicate.  (The list of the
\* process may be edited with nobody told, see ListEdited.)
FilterEnforced ==
    \A i \in Ifp : (/\ nbr[i].known /\ nbr[i].queue = <<>>
                    /\ ~ nbr[i].timer /\ i \notin untold /\ ~ peer[i].ignored)
                      => peer[i].offered \cap out[i] = {}

\* When the filters and DUAL are quiet, as they are after MaxChanges changes,
\* every neighbour that has to be told of a change is told.
EventuallyTold == untold # {} ~> untold = {}
===============================================================================
