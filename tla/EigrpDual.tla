------------------------------ MODULE EigrpDual ------------------------------
(***************************************************************************)
(* The DUAL engine of eigrpd for one destination of one router: the prefix *)
(* descriptor, the route descriptors the neighbours advertised, the DUAL   *)
(* finite state machine (eigrp_fsm.c, eigrp_topology.c), the work queue of *)
(* the packetizer and the list topology_changes that feeds it              *)
(* (eigrp_packetizer.c, eigrp_query.c, eigrp_reply.c, eigrp_update.c).     *)
(*                                                                         *)
(* The daemon is single threaded: a received packet, a lost neighbour and  *)
(* one item of the work queue are each handled to the end before the next  *)
(* event.  One action of this module is one such event.  What interleaves  *)
(* is the order of the events, and the work queue: a QUERY, a REPLY or an  *)
(* UPDATE that a handler asks for is only built when its item is pulled.   *)
(*                                                                         *)
(* An element of Nbr is one eigrp_neighbor_t object, not a router: a peer  *)
(* that comes back after its object was freed is another element.  Using a *)
(* freed object is undefined behaviour; the model stops there, with the    *)
(* object named in "fault".                                                *)
(***************************************************************************)
EXTENDS Integers, FiniteSets, SequencesExt

CONSTANTS
    Nbr,           \* neighbour objects
    NoNbr,         \* the null pointer in a work item
    MaxMetric,     \* EIGRP_MAX_METRIC, 2^32 - 1 in the code
    Heard,         \* the metrics a neighbour may advertise
    StackBw,       \* the bandwidths eigrp_topology_neighbor_down may read
    LinkBw,        \* [Nbr -> Nat]: scaled bandwidth of the link to it
    LinkDelay,     \* [Nbr -> Nat]: scaled delay of the link to it
    FilteredIn,    \* neighbours whose interface filters the destination
    Variance,      \* eigrp->variance
    MaxPaths,      \* eigrp->max_paths
    WorkBound,     \* bound: no packet is received while more work is queued
    ChangesBound   \* bound: nor while the destination is listed more often

Metric == [bw : Nat, delay : Nat]

\* The all-zero metric of a descriptor that was just allocated.
NoMetric == [bw |-> 0, delay |-> 0]

ASSUME NbrAssumption == IsFiniteSet(Nbr) /\ NoNbr \notin Nbr
ASSUME MetricAssumption ==
    /\ MaxMetric \in Nat \ {0}
    /\ Heard \subseteq Metric \ {NoMetric}
    /\ StackBw \subseteq Nat
ASSUME ConfigAssumption ==
    /\ LinkBw \in [Nbr -> Nat]
    /\ LinkDelay \in [Nbr -> Nat]
    /\ FilteredIn \subseteq Nbr
    /\ Variance \in Nat \ {0}
    /\ MaxPaths \in Nat \ {0}
ASSUME BoundAssumption == WorkBound \in Nat /\ ChangesBound \in Nat

VARIABLES
    nbr,              \* [Nbr -> NbrState]
    state,            \* prefix->state, or "none" when there is no descriptor
    entries,          \* prefix->entries: who advertised a route, best first
    route,            \* [Nbr -> Route]: the route descriptors
    succ,             \* the neighbours whose route has the SUCCESSOR flag
    fdistance, rdistance, distance, reported_metric,
    rij,              \* [Nbr -> Nat]: how often prefix->rij lists it
    req_action,       \* prefix->req_action
    topology_changes, \* how often the list holds this prefix
    dangling,         \* the list also holds a prefix that was freed
    rib,              \* next hops installed through zebra
    work,             \* the packetizer's queue, first in first out
    queried,          \* neighbours a QUERY for the destination was built for
    fault             \* the undefined behaviour the daemon ran into

vars == <<nbr, state, entries, route, succ, fdistance, rdistance, distance,
          reported_metric, rij, req_action, topology_changes, dangling, rib,
          work, queried, fault>>

\* "down" stands for EIGRP_NEIGHBOR_DOWN, which a new object has, and for
\* EIGRP_NEIGHBOR_PENDING: nothing here tells them apart.
NbrState == {"down", "up", "gone"}
Active   == {"active0", "active1", "active2", "active3"}
State    == {"none", "passive"} \cup Active
Distance == 0 .. MaxMetric
Route    == [rd : Distance, dist : Distance, reported : Metric, total : Metric]
Work     == [op : {"update", "query", "reply"},
             to : Nbr \cup {NoNbr},
             prefix : {"live", "freed", "own", "no"}]
Fault    == {"none", "freed_neighbor", "freed_next_hop", "freed_prefix",
             "freed_entry", "assert_successors"}

-----------------------------------------------------------------------------
(* The part of the instance a handler works on, as one value.              *)

Now ==
    [nbr |-> nbr, state |-> state, entries |-> entries, route |-> route,
     succ |-> succ, fdistance |-> fdistance, rdistance |-> rdistance,
     distance |-> distance, reported_metric |-> reported_metric, rij |-> rij,
     req_action |-> req_action, topology_changes |-> topology_changes,
     dangling |-> dangling, rib |-> rib, work |-> work,
     queried |-> queried, fault |-> fault]

Becomes(s) ==
    /\ nbr' = s.nbr             /\ state' = s.state
    /\ entries' = s.entries     /\ route' = s.route
    /\ succ' = s.succ           /\ fdistance' = s.fdistance
    /\ rdistance' = s.rdistance /\ distance' = s.distance
    /\ reported_metric' = s.reported_metric
    /\ rij' = s.rij             /\ req_action' = s.req_action
    /\ topology_changes' = s.topology_changes
    /\ dangling' = s.dangling   /\ rib' = s.rib
    /\ work' = s.work           /\ queried' = s.queried
    /\ fault' = s.fault

-----------------------------------------------------------------------------
(* Metrics.  K1 = K3 = 1 and the other weights 0, the defaults.            *)

CompositeUncut(m) == m.bw + m.delay \* mutant: the sum is not cut to 32 bits

\* The 64-bit composite is stored in a 32-bit distance.  The test for an
\* infinite delay compares with 2^64 - 1, which no decoder produces.
Composite(m) == (m.bw + m.delay) % (MaxMetric + 1)

TotalMetric(n, m) ==
    [bw    |-> IF m.bw > LinkBw[n] THEN LinkBw[n] ELSE m.bw,
     delay |-> m.delay + LinkDelay[n]]

FreshRoute == [rd |-> MaxMetric, dist |-> MaxMetric,
               reported |-> NoMetric, total |-> NoMetric]

HeardRoute(n, m) == [rd       |-> Composite(m),
                     dist     |-> Composite(TotalMetric(n, m)),
                     reported |-> m,
                     total    |-> TotalMetric(n, m)]

-----------------------------------------------------------------------------
(* The list of route descriptors.  It is sorted and holds at most one      *)
(* route of a neighbour.                                                   *)

\* listnode_delete
Without(list, n) ==
    IF n \in ToSet(list)
    THEN RemoveAt(list, CHOOSE i \in DOMAIN list : list[i] = n)
    ELSE list

\* How many routes of the list satisfy P.
CountIn(list, P(_)) == Cardinality({i \in DOMAIN list : P(list[i])})

InsertLast(list, n, rt) == Append(list, n) \* mutant: added, not sorted in

\* listnode_add_sort: behind every route that is not longer than n's
InsertSorted(list, n, rt) ==
    LET k == CountIn(list, LAMBDA m : rt[m].dist <= rt[n].dist)
    IN  SubSeq(list, 1, k) \o <<n>> \o SubSeq(list, k + 1, Len(list))

Best(s) == s.route[Head(s.entries)]

\* eigrp_topology_get_successor_max; with k = 1 the head of the list that
\* eigrp_topology_get_successor returns
FirstSuccessors(s, k) ==
    {s.entries[i] : i \in {j \in DOMAIN s.entries :
        /\ s.entries[j] \in s.succ
        /\ Cardinality({h \in 1 .. j : s.entries[h] \in s.succ}) <= k}}

AnyUp(s) == \E n \in Nbr : s.nbr[n] = "up"

-----------------------------------------------------------------------------
(* Topology table.                                                         *)

UpdateNodeFlags(s) ==
    [s EXCEPT !.succ = {n \in ToSet(s.entries) :
        /\ s.route[n].rd < s.fdistance
        /\ s.route[n].dist <= s.distance * Variance
        /\ s.route[n].dist # MaxMetric}]

\* Installing a next hop reads the address in the neighbour object.
UpdateRoutingTable(s) ==
    LET hops == FirstSuccessors(s, MaxPaths)
    IN  [s EXCEPT !.rib = hops,
                  !.fault = IF \E n \in hops : s.nbr[n] = "gone"
                            THEN "freed_next_hop" ELSE @]

\* eigrp_prefix_descriptor_delete takes one occurrence of the prefix out of
\* topology_changes and no item out of the work queue.
PrefixDelete(s) ==
    [s EXCEPT !.state = "none", !.entries = <<>>,
              !.route = [n \in Nbr |-> FreshRoute], !.succ = {},
              !.fdistance = MaxMetric, !.rdistance = MaxMetric,
              !.distance = MaxMetric, !.reported_metric = NoMetric,
              !.rij = [n \in Nbr |-> 0], !.req_action = {},
              !.dangling = @ \/ s.topology_changes > 1,
              !.topology_changes = 0, !.rib = {},
              !.work = [i \in DOMAIN @ |-> IF @[i].prefix = "live"
                                           THEN [@[i] EXCEPT !.prefix = "freed"]
                                           ELSE @[i]]]

\* eigrp_route_descriptor_delete withdraws the whole destination from zebra.
RoutesDelete(s) ==
    LET dead == {n \in ToSet(s.entries) : s.route[n].dist = MaxMetric}
        live == CountIn(s.entries, LAMBDA n : n \notin dead)
    IN  [s EXCEPT !.entries = SubSeq(@, 1, live),
                  !.route = [n \in Nbr |-> IF n \in dead THEN FreshRoute
                                                         ELSE @[n]],
                  !.succ = @ \ dead,
                  !.rib = IF dead = {} THEN @ ELSE {}]

UpdateTopologyTablePrefix(s) ==
    IF s.distance = MaxMetric THEN PrefixDelete(s) ELSE RoutesDelete(s)

\* eigrp_topology_update_distance for an internal route
UpdateDistance(s, n, m) ==
    IF m = s.route[n].reported
    THEN s
    ELSE LET rt == [s.route EXCEPT ![n] = HeardRoute(n, m)]
         IN  [s EXCEPT !.route = rt,
                       !.entries = InsertSorted(Without(@, n), n, rt)]

MetricChange(s, n, m) ==
    CASE m = s.route[n].reported            -> "same"
      [] m # s.route[n].reported /\ s.route[n].rd < Composite(m) -> "increase"
      [] OTHER                              -> "decrease"

-----------------------------------------------------------------------------
(* The finite state machine.                                               *)

AddChange(s, what) == [s EXCEPT !.req_action = @ \cup {what},
                                !.topology_changes = @ + 1]

ReplySend(s, n) ==
    [s EXCEPT !.work = Append(@, [op |-> "reply", to |-> n, prefix |-> "live"])]

\* mutant: the flags are left as they were frozen
GoPassiveFlagsKept(s) ==
    UpdateTopologyTablePrefix(UpdateRoutingTable(
        AddChange([s EXCEPT !.state = "passive"], "update")))

\* mutant: the routing table is written before the flags are computed
GoPassiveRouteFirst(s) ==
    UpdateTopologyTablePrefix(UpdateNodeFlags(UpdateRoutingTable(
        AddChange([s EXCEPT !.state = "passive"], "update"))))

\* The end of a computation: what lr and lr_fcs do when they go passive.
GoPassive(s) ==
    UpdateTopologyTablePrefix(UpdateRoutingTable(UpdateNodeFlags(
        AddChange([s EXCEPT !.state = "passive"], "update"))))

\* mutant: the advertised metric stays that of the old successor
AdoptBestDistance(s) ==
    [s EXCEPT !.distance = Best(s).dist, !.rdistance = Best(s).dist]

AdoptBest(s) == [s EXCEPT !.distance = Best(s).dist, !.rdistance = Best(s).dist,
                          !.reported_metric = Best(s).total]

\* eigrp_fsm_event_lr; a failed assertion ends the process
Lr(s) ==
    LET a == [AdoptBest(s) EXCEPT !.fdistance = Best(s).dist]
        answered == FirstSuccessors(a, 1)
    IN  CASE a.state # "active3" -> GoPassive(a)
          [] a.state = "active3" /\ answered = {} ->
                 [s EXCEPT !.fault = "assert_successors"]
          [] OTHER -> GoPassive(ReplySend(a, CHOOSE n \in answered : TRUE))

\* eigrp_fsm_event_lr_fcs: the state is already passive when it is tested for
\* ACTIVE_2, so the successor that asked is not answered.
LrFcs(s) ==
    LET a == AdoptBest(s)
    IN  GoPassive([a EXCEPT !.fdistance = IF @ > a.distance THEN a.distance
                                                            ELSE @])

\* The common part of nq_fcn, q_fcn and lr_fcn: go active, ask or finish.
StartQuery(s, active) ==
    LET a == [s EXCEPT !.state = active]
    IN  IF AnyUp(s) THEN AddChange(a, "query") ELSE Lr(a)

\* mutant: the query of the successor is forgotten by the new computation
LrFcnForgets(s) == StartQuery(s, "active1")

LrFcn(s) == StartQuery(s, IF s.state = "active0" THEN "active1" ELSE "active3")

Qact(s) == [s EXCEPT !.state = "active2"]

\* mutant: the test for PASSIVE is missing
KeepStateAnywhere(s, n, op) ==
    LET a == AddChange([AdoptBest(s) EXCEPT !.fdistance = Best(s).dist], "update")
    IN  IF s.reported_metric # Best(s).total
        THEN UpdateRoutingTable(UpdateNodeFlags(a))
        ELSE s

\* eigrp_fsm_event_keep_state
KeepState(s, n, op) ==
    LET changed == s.reported_metric # Best(s).total
        a == IF changed
             THEN AddChange([AdoptBest(s) EXCEPT !.fdistance = Best(s).dist],
                            "update")
             ELSE s
        b == IF changed /\ op = "query" THEN ReplySend(a, n) ELSE a
        c == IF s.state = "passive"
             THEN UpdateRoutingTable(UpdateNodeFlags(b)) ELSE s
    IN  IF op = "query" THEN ReplySend(c, n) ELSE c

\* listnode_delete on rij: a REPLY is counted while the route is active.
TakeReply(s, n, op) ==
    IF op = "reply" /\ s.state \in Active /\ s.rij[n] > 0
    THEN [s EXCEPT !.rij[n] = @ - 1]
    ELSE s

AnyReply(s, op) == op = "reply" \* mutant: rij is not looked at

LastReply(s, op) == op = "reply" /\ \A n \in Nbr : s.rij[n] = 0

Feasible(s) == Best(s).rd < s.fdistance

SuccessorQuery(s, n, op) ==
    op = "query" /\ n \in s.succ /\ s.state \in {"active0", "active1"}

SuccessorIncrease(s, n, op, change) ==
    /\ s.state \in {"active1", "active3"}
    /\ op \in {"update", "reply"} /\ change = "increase" /\ n \in s.succ

\* eigrp_get_fsm_event, after the route and rij were updated
FsmEvent(s, n, op, change) ==
    CASE s.state = "passive" /\ ~Feasible(s) ->
             IF op = "query" THEN "q_fcn" ELSE "nq_fcn"
      [] s.state \in Active /\ SuccessorQuery(s, n, op) -> "qact"
      [] s.state \in Active /\ SuccessorIncrease(s, n, op, change) -> "dinc"
      [] /\ s.state \in Active /\ LastReply(s, op)
         /\ ~SuccessorIncrease(s, n, op, change) ->
             IF s.state \in {"active1", "active3"} THEN "lr"
             ELSE IF Feasible(s) THEN "lr_fcs" ELSE "lr_fcn"
      [] OTHER -> "keep"

\* eigrp_fsm_event_dinc: with no reply outstanding the message is looked at
\* again in the new state.
Dinc(s, n, op) ==
    LET a == [s EXCEPT !.state = IF @ = "active1" THEN "active0" ELSE "active2"]
    IN  IF \E k \in Nbr : a.rij[k] > 0 THEN a
        ELSE CASE FsmEvent(a, n, op, "same") = "lr_fcs" -> LrFcs(a)
               [] FsmEvent(a, n, op, "same") = "lr_fcn" -> LrFcn(a)
               [] OTHER -> KeepState(a, n, op)

\* eigrp_fsm_event, with the table NSM
Fsm(s, n, op, m) ==
    LET a  == TakeReply(UpdateDistance(s, n, m), n, op)
        ev == FsmEvent(a, n, op, MetricChange(s, n, m))
    IN  CASE ev = "nq_fcn" -> StartQuery(a, "active1")
          [] ev = "q_fcn"  -> StartQuery(a, "active3")
          [] ev = "lr"     -> Lr(a)
          [] ev = "dinc"   -> Dinc(a, n, op)
          [] ev = "qact"   -> Qact(a)
          [] ev = "lr_fcs" -> LrFcs(a)
          [] ev = "lr_fcn" -> LrFcn(a)
          [] OTHER         -> KeepState(a, n, op)

-----------------------------------------------------------------------------
(* What the receive handlers call last, and the packetizer.                *)

\* mutant: every occurrence leaves the list, whatever is left to do
DoneForGood(s, what) ==
    [s EXCEPT !.req_action = @ \ {what}, !.topology_changes = 0]

\* One occurrence leaves the list when nothing is left to do for the prefix.
Done(s, what) ==
    LET left == s.req_action \ {what}
    IN  [s EXCEPT !.req_action = left,
                  !.topology_changes = IF left = {} THEN @ - 1 ELSE @]

QuerySendAll(s) ==
    CASE s.fault # "none" -> s
      [] s.fault = "none" /\ s.dangling -> [s EXCEPT !.fault = "freed_prefix"]
      [] s.fault = "none" /\ ~s.dangling /\ "query" \in s.req_action ->
             [Done(s, "query") EXCEPT !.work =
                  Append(@, [op |-> "query", to |-> NoNbr, prefix |-> "live"])]
      [] OTHER -> s

UpdateSendAll(s) ==
    [s EXCEPT !.work =
        Append(@, [op |-> "update", to |-> NoNbr, prefix |-> "no"])]

SendAll(s) == UpdateSendAll(QuerySendAll(s))

\* eigrp_update_packetize_all walks the list; what the packets carry is not
\* part of this module.
PacketizeAll(s) ==
    CASE s.dangling -> [s EXCEPT !.fault = "freed_prefix"]
      [] ~s.dangling /\ "update" \in s.req_action -> Done(s, "update")
      [] OTHER -> s

\* eigrp_packetizer_query_send: every neighbour that is up is asked, unless
\* no route has the SUCCESSOR flag.  With no neighbour up nothing is read.
QuerySend(s, w) ==
    CASE AnyUp(s) /\ w.prefix = "freed" -> [s EXCEPT !.fault = "freed_prefix"]
      [] AnyUp(s) /\ w.prefix # "freed" /\ s.succ # {} ->
             [s EXCEPT !.rij = [n \in Nbr |-> IF s.nbr[n] = "up" THEN @[n] + 1
                                                                 ELSE @[n]],
                       !.queried = @ \cup {n \in Nbr : s.nbr[n] = "up"}]
      [] OTHER -> s

\* eigrp_packetizer_neighbor_route_send
NeighborRouteSend(s, w) ==
    CASE s.nbr[w.to] = "gone" -> [s EXCEPT !.fault = "freed_neighbor"]
      [] s.nbr[w.to] = "up" /\ w.prefix = "freed" ->
             [s EXCEPT !.fault = "freed_prefix"]
      [] OTHER -> s

WorkProcess(s, w) ==
    CASE w.op = "update" -> PacketizeAll(s)
      [] w.op = "query"  -> QuerySend(s, w)
      [] OTHER           -> NeighborRouteSend(s, w)

-----------------------------------------------------------------------------
(* Init and the events.                                                    *)

Init ==
    /\ nbr = [n \in Nbr |-> "down"]
    /\ state = "none" /\ entries = <<>>
    /\ route = [n \in Nbr |-> FreshRoute] /\ succ = {}
    /\ fdistance = MaxMetric /\ rdistance = MaxMetric /\ distance = MaxMetric
    /\ reported_metric = NoMetric
    /\ rij = [n \in Nbr |-> 0] /\ req_action = {}
    /\ topology_changes = 0 /\ dangling = FALSE
    /\ rib = {} /\ work = <<>> /\ queried = {} /\ fault = "none"

\* Running, and within the bounds on the two queues.
Ready ==
    /\ fault = "none"
    /\ Len(work) <= WorkBound /\ topology_changes <= ChangesBound

\* The first UPDATE about the destination creates its descriptor.  The
\* filter applies to the metric only after the reported distance was taken.
NewPrefix(s, n, m) ==
    LET seen == IF n \in FilteredIn THEN [m EXCEPT !.delay = MaxMetric] ELSE m
        r    == [HeardRoute(n, seen) EXCEPT !.rd = Composite(m)]
        a    == [s EXCEPT !.state = "passive", !.entries = <<n>>,
                          !.route[n] = r, !.fdistance = r.dist,
                          !.rdistance = r.dist, !.distance = r.dist,
                          !.reported_metric = r.total, !.rib = {n}]
    IN  AddChange(UpdateNodeFlags(a), "update")

\* A packet is handled for every neighbour that has an object, in whatever
\* state the adjacency is.
ReceiveUpdate(n, m) ==
    /\ Ready /\ nbr[n] # "gone"
    /\ Becomes(SendAll(IF state = "none" THEN NewPrefix(Now, n, m)
                                         ELSE Fsm(Now, n, "update", m)))

\* A QUERY for a destination that is not in the table is answered with a
\* route of its own.  eigrp_packet_read hands a SIA-QUERY to the same handler.
ReceiveQuery(n, m) ==
    /\ Ready /\ nbr[n] # "gone"
    /\ Becomes(SendAll(
           IF state = "none"
           THEN [Now EXCEPT !.work =
                    Append(@, [op |-> "reply", to |-> n, prefix |-> "own"])]
           ELSE Fsm(Now, n, "query", m)))

\* A REPLY may be late or repeated: there is no check for a duplicate.
\* eigrp_reply_receive calls neither query_send_all nor update_send_all.
ReceiveReply(n, m) ==
    /\ Ready /\ nbr[n] # "gone" /\ n \in queried
    /\ state # "none"
    /\ Becomes(Fsm(Now, n, "reply", m))

\* The peer acknowledged the INIT sequence it was sent while pending.
NeighborUp(n) ==
    /\ Ready /\ nbr[n] = "down"
    /\ nbr' = [nbr EXCEPT ![n] = "up"]
    /\ UNCHANGED <<state, entries, route, succ, fdistance, rdistance, distance,
                   reported_metric, rij, req_action, topology_changes,
                   dangling, rib, work, queried, fault>>

\* eigrp_topology_neighbor_down sets only the delay of the message, and goes
\* on through the list the message may have reordered: the route is handled
\* twice when it moved back, and the walk reads the next node in any case.
NeighborDown(s, n, bw) ==
    LET m     == [bw |-> bw, delay |-> MaxMetric]
        pos(t) == CHOOSE i \in DOMAIN t.entries : t.entries[i] = n
        once  == Fsm(s, n, "update", m)
        next  == {k \in ToSet(s.entries) :
                    pos(s) < Len(s.entries) /\ k = s.entries[pos(s) + 1]}
        back  == /\ n \in ToSet(once.entries)
                 /\ \E k \in next : \E i \in DOMAIN once.entries :
                        once.entries[i] = k /\ i < pos(once)
        lost  == ~(next \subseteq ToSet(once.entries))
        walked == CASE once.fault # "none" -> once
                    [] once.fault = "none" /\ lost ->
                           [once EXCEPT !.fault = "freed_entry"]
                    [] once.fault = "none" /\ ~lost /\ back ->
                           Fsm(once, n, "update", m)
                    [] OTHER -> once
    IN  SendAll(IF n \in ToSet(s.entries) THEN walked ELSE s)

\* A Hello with other K values takes the adjacency down and tells neither the
\* topology nor the timer that would delete the object.
KValueMismatch(n) ==
    /\ Ready /\ nbr[n] = "up"
    /\ nbr' = [nbr EXCEPT ![n] = "down"]
    /\ UNCHANGED <<state, entries, route, succ, fdistance, rdistance, distance,
                   reported_metric, rij, req_action, topology_changes,
                   dangling, rib, work, queried, fault>>

\* A dead neighbour's object is freed; nothing that points to it is.
NeighborLost(n, bw) ==
    /\ Ready /\ nbr[n] # "gone"
    /\ LET s == NeighborDown([Now EXCEPT !.nbr[n] = "down"], n, bw)
       IN  Becomes([s EXCEPT !.nbr[n] = "gone", !.queried = @ \ {n}])

\* An UPDATE with the INIT flag from a neighbour that is up.
PeerRestarted(n, bw) ==
    /\ Ready /\ nbr[n] = "up"
    /\ LET s == NeighborDown([Now EXCEPT !.nbr[n] = "down"], n, bw)
       IN  Becomes(SendAll([s EXCEPT !.nbr[n] = "down", !.queried = @ \ {n}]))

\* One item of the work queue.
Packetize ==
    /\ fault = "none" /\ work # <<>>
    /\ Becomes(WorkProcess([Now EXCEPT !.work = Tail(@)], Head(work)))

Next ==
    \/ \E n \in Nbr : NeighborUp(n)
    \/ \E n \in Nbr : KValueMismatch(n)
    \/ \E n \in Nbr, bw \in StackBw : NeighborLost(n, bw)
    \/ \E n \in Nbr, bw \in StackBw : PeerRestarted(n, bw)
    \/ \E n \in Nbr, m \in Heard : ReceiveUpdate(n, m)
    \/ \E n \in Nbr, m \in Heard : ReceiveQuery(n, m)
    \/ \E n \in Nbr, m \in Heard : ReceiveReply(n, m)
    \/ Packetize

Spec == Init /\ [][Next]_vars
-----------------------------------------------------------------------------
(* Properties.                                                             *)

\* Every variable keeps its type: distances stay within 32 bits and every
\* list holds the objects it is declared for.
TypeOK ==
    /\ nbr \in [Nbr -> NbrState]
    /\ state \in State
    /\ entries \in Seq(Nbr)
    /\ route \in [Nbr -> Route]
    /\ succ \subseteq Nbr
    /\ fdistance \in Distance /\ rdistance \in Distance /\ distance \in Distance
    /\ reported_metric \in Metric
    /\ rij \in [Nbr -> Nat]
    /\ req_action \subseteq {"update", "query"}
    /\ topology_changes \in Nat
    /\ dangling \in BOOLEAN
    /\ rib \subseteq Nbr
    /\ work \in Seq(Work)
    /\ queried \subseteq Nbr
    /\ fault \in Fault

\* listnode_head(prefix->entries) is read without a test for NULL, as the best
\* route: while the destination exists the list is not empty, is sorted by
\* distance whatever order the metrics came in, and names a neighbour once.
BestRouteFirst ==
    state # "none" =>
        /\ entries # <<>>
        /\ \A i, j \in DOMAIN entries : i < j =>
               /\ entries[i] # entries[j]
               /\ route[entries[i]].dist <= route[entries[j]].dist

\* In PASSIVE the distance and the metric the router stands for are those of
\* the best route, and the feasible distance is not above them, whichever of
\* lr, lr_fcs and keep_state came last.
PassiveStandsForBest ==
    state = "passive" =>
        /\ distance = Best(Now).dist /\ rdistance = distance
        /\ reported_metric = Best(Now).total
        /\ fdistance <= distance

\* In PASSIVE the SUCCESSOR flag is on exactly the routes that meet the
\* feasibility condition with the current distances: flags frozen while the
\* destination was active do not outlive the computation.
SuccessorsFeasible ==
    state = "passive" =>
        succ = {n \in ToSet(entries) :
                    /\ route[n].rd < fdistance
                    /\ route[n].dist <= distance * Variance
                    /\ route[n].dist # MaxMetric}

\* A requested QUERY or UPDATE is not lost: req_action is only looked at for
\* the prefixes on topology_changes, and the prefix is taken off that list
\* from query_send_all and update_packetize_all independently.
RequestsListed == req_action # {} => topology_changes > 0

\* In PASSIVE zebra holds the first successors of the list, and nothing else.
RibHoldsSuccessors ==
    (state = "passive" /\ fault = "none") =>
        rib = FirstSuccessors(Now, MaxPaths)

\* Metrics at the edge make two exceptions, and no other: a purge withdrew the
\* destination from zebra with one of its routes, or it was just created and
\* its only route was installed without a look at the SUCCESSOR flag.
HopsAccounted ==
    (state = "passive" /\ fault = "none") =>
        \/ rib = FirstSuccessors(Now, MaxPaths)
        \/ rib = {}
        \/ \E n \in Nbr : entries = <<n>> /\ rib = {n}

\* Section 11.2 of design-spec.md: an event that leaves the destination active
\* changes neither FD, RD, distance, the reported metric, the successors nor
\* the routing table.  (The loss of a neighbour may be two events: the first
\* of them may end in PASSIVE.)
ActiveFrozen ==
    [][(state' \in Active /\ (state \in Active \/ nbr' = nbr)) =>
          UNCHANGED <<fdistance, rdistance, distance, reported_metric, succ,
                      rib>>]_vars

\* A computation ends with no reply outstanding: no event but the last REPLY
\* takes the destination from ACTIVE to PASSIVE.
EndsOnLastReply ==
    [][(state \in Active /\ state' \notin Active) =>
          \A n \in Nbr : rij'[n] = 0]_vars

\* The arrows of the diagram at the head of eigrp_fsm.c, several of which one
\* message may follow; a query from the successor is remembered (ACTIVE 2 and
\* 3) until the computation ends.
FollowsDiagram ==
    [][/\ state = "active2" => state' \in {"active2", "active3", "passive", "none"}
       /\ state = "active3" => state' \in {"active3", "active2", "passive", "none"}
       /\ state = "active0" =>
             state' \in {"active0", "active1", "active2", "passive", "none"}
       /\ state \in {"passive", "none"} => state' \notin {"active0", "active2"}
       /\ state = "none" => state' \in {"none", "passive"}]_vars

\* The engine implements a diffusing computation: FD, RD, distance, the reported
\* metric, the successors and the routing table stay as they are while the
\* destination is active, until the last reply.
Diffusion == INSTANCE DiffusingComputation WITH
    active  <- state \in Active,
    owing   <- {n \in Nbr : rij[n] > 0},
    settled <- <<fdistance, rdistance, distance, reported_metric, succ, rib>>

ImplementsDiffusion == Diffusion!Spec
=============================================================================
