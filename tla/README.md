# Formal model of eigrpd

`eigrpd` is an EIGRP routing daemon for FRRouting. This directory holds TLA+
modules translated from its C code, TLC configurations that check them on small
instances, and theorems that TLAPS proves for every instance. Paths below are
relative to `src/`; a bare file name is in `src/eigrpd/` without the prefix
`eigrp_`.

## The system

The daemon is one thread around an event loop: a received packet, a timer, a
message of zebra, a configuration callback and one item of the work queue are
each handled to the end. What is concurrent is the *order* of these events, the
network, and the queues between a decision and the packet that carries it.

| Part | State | Operations | What makes it correct | Module |
|---|---|---|---|---|
| DUAL state machine (`fsm.c`) | `prefix->state`, FD, RD, distance, `rij` | classify a message, eight event handlers | values frozen while ACTIVE; a computation ends with its last REPLY; the successor's QUERY is remembered | `EigrpDual`, against `DiffusingComputation` |
| Topology table (`topology.c`) | prefix and route descriptors, flags, `topology_changes` | update a distance, flags, routing table, neighbour down, purge | list sorted, successors feasible, routing table equal to the successors | `EigrpDual`; connected routes in `EigrpInterface` |
| Metrics (`metric.c`) | none | composite, total, comparison, delay scaling | order of distances is the order of paths | composite in `EigrpDual`, scaling in `EigrpCodec` |
| Packetizer (`packetizer.c`, `southbound.c`) | work queue | enqueue, pull one item | an item is built from what is true when it is pulled | queue in `EigrpDual`, numbering in `EigrpReliable`, formats in `EigrpCodec` |
| QUERY, REPLY (`query.c`, `reply.c`) | `req_action` | receive, send to all | every request is served | `EigrpDual`; the loops over a packet in `EigrpCodec` |
| UPDATE (`update.c`) | `topology_changes`, list of prefixes left to send | receive, send, EOT, resynchronise | every neighbour is told of every change | routes in `EigrpDual`, INIT and EOT in `EigrpReliable`, resynchronisation in `EigrpGracefulRestart` |
| Neighbours, Hello (`neighbor.c`, `hello.c`) | adjacency state, hold timer, codec | Hello, K values, termination, hold time, restart | both ends agree; counts follow the neighbours | `EigrpReliable` (adjacency), `EigrpCodec` (K values, version, codec) |
| Reliable transport (`packet.c`) | `retrans_queue` per neighbour, `obuf` per interface, sequence numbers | send, ACK, retransmit, write, read | one packet at a time, in order, never waiting for nothing | `EigrpReliable`, against `OrderedChannel` |
| Interfaces, networks (`interface.c`, `network.c`) | `ifp->info`, `eiflist`, connected routes, timers | zebra's messages, network set and unset, reset, free | what an instance lists is alive, justified and connected | `EigrpInterface` |
| Instances, zebra (`eigrpd.c`, `zebra.c`, `northbound.c`) | instance list, router id, redistribution bitmap | create, abort, destroy, router id, redistribute, terminate | order of configuration and zebra's messages does not matter | `EigrpInterface` |
| Codecs (`tlv1.c`, `tlv2.c`) | encoder and peer counts of an interface | select, bind, unbind, encode, decode | every neighbour can read what it is sent | `EigrpCodec` |
| Filters (`filter.c`) | lists, distribute timers | change, timer, edit of a list | a change reaches every neighbour | `EigrpGracefulRestart` (outgoing) |
| Route-maps, authentication, CLI text, SNMP, dump | configuration | verdicts, digests, text | - | see "Not modelled" |

Interactions. `eigrp_packet_read` hands a packet of a known neighbour to one
receive handler, in whatever state the adjacency is. The handler decodes with
the codec the neighbour is bound to, calls `eigrp_fsm_event` for the route and
then (UPDATE, QUERY, lost neighbour, but not REPLY) `eigrp_query_send_all` and
`eigrp_update_send_all`, which put items into the packetizer's queue. A later
turn of the event loop pulls an item, and only then is the packet built by the
interface's encoder and `rij`, the list of neighbours whose REPLY is awaited,
filled. Shared state: `topology_changes` holds a prefix once per request,
`req_action` what is requested; the timers of all distribute lists share the
pointer `t_distribute`; `ifp->info` is shared by all instances; pointers to
neighbours, prefixes and instances are kept with no reference count.

`eigrp_siaquery_receive` and `eigrp_siareply_receive` have no caller:
`eigrp_packet_read` gives SIA-QUERY and SIA-REPLY to the QUERY and REPLY
handlers. They are therefore not modelled apart.

Hard behaviours: events of several neighbours during a computation; items that
outlive the objects they name; counters and flags cleared by two loops; 32-bit
metrics at their limit; loss, duplication and retransmission of packets;
restart of a peer; interface objects that outlive their `network' statement and
their instance; timers that share a pointer; neighbours that change version.
`PROJECT.json` lists each hazard at its line.

## Modules

* `EigrpDual` - one router and one destination learned from neighbours: the
  descriptor, its routes, the state machine, the requests, the work queue and
  the next hops installed. The variables are the fields of the same names.
* `DiffusingComputation` - what a computation promises: it starts, is waited
  for with everything settled unchanged, and ends with nobody owing a REPLY.
  `EigrpDual` implements it (`INSTANCE ... WITH`, `ImplementsDiffusion`).
* `EigrpReliable` - two routers on one link: adjacency, queues, sequence
  numbers, ACKs, timers, and a link that loses packets.
* `OrderedChannel` - packets are handled in the order they were built, some of
  them not at all. `EigrpReliable` implements it (`ImplementsChannel`).
* `EigrpInterface` - instances, `network' statements and interfaces under
  zebra's messages, northbound callbacks, timers and HELLOs.
* `EigrpCodec` - the two TLV formats on one interface: versions, the encoder
  that is selected, what a route becomes, what the receive loops hand over.
* `EigrpGracefulRestart` - how a change of an outgoing filter reaches the
  neighbours: distribute timers, the resynchronisation, its receiver.
* `EigrpDualClaims`, `EigrpReliableClaims`, `EigrpCodecClaims` - statements that
  comments or an assertion of the repository make and that the code does not keep.
* `EigrpDualProofs`, `EigrpDualStepProofs`, `EigrpDualBestProofs`,
  `EigrpReliableProofs`, `EigrpReliableChannelProofs`, `EigrpInterfaceProofs`,
  `EigrpCodecProofs`, `EigrpGracefulRestartProofs` - theorems about the modules
  of those names.
* `MCEigrpDual`, `MCEigrpReliable`, `MCEigrpInterface`, `MCEigrpCodec`,
  `MCEigrpGracefulRestart` - constants and symmetry for TLC.

Some definitions say "mutant" in their comment: they are plausible slips of the
definition after them, no action uses them, and each shows that some property
tells the slip from the code.

The components meet at few places. `NeighborUp`, `PeerRestarted` and
`NeighborLost` of `EigrpDual` are what the adjacency of `EigrpReliable` tells the
topology, and `AckInit`, `InitReceive` and `Delete` of `EigrpCodec` are the same
events seen by the codec; the packets that `Packetize` builds are `SendUpdate`,
`SendReply` and `SendQuery` of `EigrpReliable`; `EigrpGracefulRestart` takes the
ordered delivery of `OrderedChannel` for granted. They are checked apart: what a
packet says of routes has no influence on how it is sent, and which interfaces
there are has none on how a received route is handled.

### How EigrpDual corresponds to the code

A handler changes many fields in sequence, calls others that do the same and
sometimes stops half-way. It is therefore written as an operator on the whole
state, a record `s` with one field per variable (`Now`), and an event is
`Becomes(handler(Now, ...))`. So the trailing calls of a handler (the purge
after an installation, `query_send_all` after the state machine) are always part
of the action.

| Action | Code |
|---|---|
| `ReceiveUpdate` | `eigrp_update_receive`, first route of the packet; `NewPrefix` when the destination is new |
| `ReceiveQuery` | `eigrp_query_receive` (and SIA-QUERY); unknown destination answered at once |
| `ReceiveReply` | `eigrp_reply_receive` (and SIA-REPLY), also a late or repeated one |
| `NeighborUp` | `eigrp_packet_ack`: the INIT sequence is acknowledged |
| `KValueMismatch` | `eigrp_hello_parameter_decode`: the adjacency goes down, the topology is not told |
| `NeighborLost` | every caller of `eigrp_nbr_delete`: hold time, peer termination, interface down, clear |
| `PeerRestarted` | `eigrp_update_receive`, INIT flag from a neighbour that is up |
| `Packetize` | `eigrp_packetizer_work_process` on the head of the queue |

Abstractions, by name:

* One destination, remote and internal, of one topology table. Its routes do not
  read other destinations; `topology_changes` counts how often it is listed.
* An element of `Nbr` is one neighbour *object*. A peer that returns after its
  object was freed is another element, so the model can say `freed` without
  modelling an allocator. `"down"` stands for DOWN and PENDING.
* A metric is a bandwidth and a delay; K values are the defaults. The other
  fields only enter the comparison of metrics.
* `listnode_delete` on `rij` removes one occurrence, so `rij` counts.
* Undefined behaviour ends the run of the model: `fault` names the object that
  was used after free, or the assertion that failed. For this reason, and at the
  bounds, the runs say `CHECK_DEADLOCK FALSE`.
* The uninitialised bandwidth in `eigrp_topology_neighbor_down` is any member of
  `StackBw`.
* A REPLY comes only from a neighbour for which a QUERY was once built
  (`queried`); it may come late and many times.

### How EigrpReliable corresponds to the code

`rt[r]` is the state of daemon `r`: `nbr`, `recv`, `init` and `queue` are the
fields `state`, `recv_sequence_number`, `init_sequence_number` and
`retrans_queue` of its neighbour object, `seq` is `sequence_number` of the
instance, `obuf` the output queue of the interface. Handlers are operators on
this record, as above.

| Action | Code |
|---|---|
| `Write` | `eigrp_packet_write`: the ACK is filled in when the packet leaves |
| `Read` | `eigrp_packet_read`: `eigrp_hello_receive`, or `eigrp_packet_ack` and then `eigrp_update_receive`, `eigrp_query_receive` or `eigrp_reply_receive` |
| `HelloTimer` | `eigrp_hello_timer` |
| `RetransTimer` | `eigrp_packet_unack_retrans`, which stops at `EIGRP_PACKET_RETRANS_MAX` |
| `SendUpdate` | `eigrp_update_send`, through `eigrp_packet_send_reliably` |
| `SendReply` | `eigrp_packetizer_neighbor_route_send` |
| `SendQuery` | `eigrp_packetizer_query_interface_send`: a multicast original and a queued duplicate |
| `HoldTimer` | `holddown_timer_expired` and `eigrp_nbr_delete` |
| `ClearNeighbor` | `eigrp_nbr_hard_restart`: the peer gets the Peer Termination TLV |
| `Restart` | the daemon starts again with an empty state |
| `Lose` | the link (external) |

Abstractions, by name:

* `id`, `built` and `heard` are not in the code. `id` tells packets apart, since
  numbers repeat; `built` is the last id given and `heard` the id of the last
  packet a router handled. They serve the properties and the bound `MaxBuilt`.
* A full table fits in one UPDATE packet, the EOT. K values agree.
  Graceful-restart flags and a third router on the link are left out;
  `multicast_queue` has no writer.
* The link is first-in-first-out. Duplicates come from retransmission, and
  lateness from `Late`, which lets a timer expire at any moment. Without `Late` a
  retransmission timer expires only when no reliable packet or ACK is on its way
  and the peer knows this router: the timer (2 s) outlasts a round trip, and a
  Hello (5 s) arrives long before the 16th retransmission (32 s).
* A packet of `obuf` whose neighbour object was freed makes `Write` read freed
  memory: `fault` ends the run of the model. The runs say `CHECK_DEADLOCK FALSE`
  for this and for the bounds.

### How EigrpInterface corresponds to the code

The handlers are again operators on a record of the whole state. `ifp[i].info`
is the `eigrp_interface_t` at `ifp->info`; it stays when `eigrp_intf_free` takes
it off the `eiflist`, and when its instance is freed its `owner` is `Freed`.

| Action | Code |
|---|---|
| `IfpCreate`, `IfpUp`, `IfpDown`, `IfpDestroy` | `eigrp_ifp_create`, `_up`, `_down`, `_destroy` |
| `IfpDelete` | `eigrp_intf_delete_hook` |
| `AddressAdd`, `AddressDelete` | `eigrp_zebra_interface_address_add`, `_delete`; of several instances that match, the oldest takes the interface |
| `ZebraRouterId` | `eigrp_zebra_router_id_update`: the first instance only |
| `HelloTimer`, `HoldExpires` | `eigrp_hello_timer`, `holddown_timer_expired` |
| `FreedTimer` | `eigrp_hello_timer`, or the write event, of a freed `eigrp_interface_t` |
| `HelloReceive` | `eigrp_packet_read` of a HELLO |
| `InstanceCreate`, `InstanceCreateAborted`, `InstanceDestroy` | PREPARE and APPLY, PREPARE and ABORT, and the destruction of an instance (`eigrp_get`, `eigrp_finish_final`) |
| `RouterIdModify`, `RouterIdDestroy` | the configured router id |
| `NetworkCreate`, `NetworkDestroy` | `eigrp_network_set`, `eigrp_network_unset` |
| `RedistributeCreate`, `RedistributeDestroy` | `eigrp_redistribute_set`, `_unset`, after VALIDATE |
| `ParamModify` | delay and bandwidth of an interface: `eigrp_intf_reset` |
| `IfpInstanceCreate` | VALIDATE of an interface's instance, which makes the instance by `eigrp_get` |
| `Terminate`, `Restart` | `eigrp_terminate`; the daemon is started again |

Abstractions, by name:

* An address stands for its prefix too. `Home` says which interface may get
  which address, `Covers` which network matches it. Which of its addresses an
  interface takes is fixed (`CHOOSE`), as the order of its list fixes it.
* A handler that follows a freed instance or a null pointer has undefined
  behaviour; the model takes the outcome in which the process dies
  (`Gone("crashed")`), after which only `Restart` is possible.
* `info.obuf` says that the output queue was made, by the first `eigrp_intf_up`.
  An interface that a network took while its link was down has none, and both
  `eigrp_network_unset` (a HELLO is sent when it is freed, `packet.c:790`) and
  `eigrp_intf_delete_hook` (`packet.c:639`) then follow a null pointer.
* `daemon.loose`: `eigrp_intf_delete_hook` frees the object with `t_hello`
  running and with the object on the list of those that have something to write.
  `FreedTimer` is the next event of it.
* Route tables are counts of connected routes, since each `eigrp_intf_up` adds
  one; `MaxRoutes` bounds the counts, `MaxParts` how many instances, interfaces,
  neighbours and redistributed protocols are there at one time.
* One VRF; neighbours are a set per interface; filters and keys play no part.

### How EigrpCodec corresponds to the code

| Action | Code |
|---|---|
| `HelloReceive` | `eigrp_hello_receive`; a Parameter TLV and then a Software Version TLV may each be there or not (an ACK has neither) |
| `AckInit`, `InitReceive`, `Delete` | `eigrp_nbr_state_set` from `eigrp_packet_ack`, from the INIT of a neighbour that is UP, and `eigrp_nbr_delete` |
| `IntfDown` | `eigrp_intf_down` |
| `WeightModify`, `WeightDestroy` | the K values' northbound callbacks |
| `FilterChange`, `RouteChange` | another outgoing list; DUAL puts another route first |
| `SendQuery` | `eigrp_packetizer_query_interface_send`: the encoder writes the filter's verdict into the route |
| `Replace` | external: the neighbour's router runs other software |

Abstractions, by name:

* A metric is its delay, the field the formats carry differently, and its
  reliability, the byte a classic decoder takes for the prefix length. Words are
  small (`Scaler`, `Word`, `WideWord`). A TLV is a record of its fields at the
  places of its format, and a decoder says which of them it reads as what.
* `Tlv1Decode` reads what the code reads: `eigrp_tlv1_nexthop_decode` counts the
  next hop and leaves it in the stream, so that the metric starts four bytes
  early, an internal route has its next hop for a delay, an external one the
  last word of the external data, and the prefix length is the reliability. A
  length above 32, or one of more bytes than are left in the TLV (`MakesOut`),
  ends the packet; 0 is the prefix `AnyNet`; any other is one of bytes that
  are not the destination's, `Misread`.
* A neighbour that told no version keeps the safe codecs (version 0), in
  whatever state; it is counted for neither format and is sent nothing it reads.
* `rebound` is not in the code: it remembers that a neighbour changed its
  version while it was counted, after which the counts are those of nobody.
  `MaxCount` bounds such stale counts.
* A received packet is any sequence of up to `MaxTlvs` TLVs of either format,
  foreign or with a wrong length; `HandedOver` evaluates the receive loops on
  all of them, for the version of every neighbour.

### How EigrpGracefulRestart corresponds to the code

| Action | Code |
|---|---|
| `Adjacency`, `NeighborLost` | the EOT UPDATE of a new adjacency; `eigrp_nbr_delete` |
| `TableChange`, `SendChange` | DUAL finds a destination; `eigrp_update_send` |
| `DistributeUpdate` | `eigrp_distribute_update`, which starts the timer |
| `ListEdited` | `eigrp_distribute_update_all`: an access or prefix list is edited |
| `DistributeTimer` | `eigrp_distribute_timer_process`, `eigrp_distribute_timer_interface` |
| `SoftClear` | `clear ... neighbors soft` |
| `SendTimer` | `t_nbr_send_gr`: `eigrp_update_send_GR_event` |
| `Deliver` | `eigrp_update_receive` of the neighbour, with its three flag combinations, for a duplicate and for a packet that is none; then `eigrp_packet_ack`, which sends the next one |

Abstractions, by name:

* One neighbour on each interface, outgoing filters only, and a destination once
  found is not lost. `peer.offered` is what the neighbour was offered of this
  router and not told to give up. `Final` takes a destination out of it when
  `eigrp_update_receive_GR_ask` hands it to DUAL with the delay 2^32 - 1; what
  DUAL makes of that delay is in `EigrpDual`, where it wraps (see Findings).
* Numbers are kept as far as they repeat. `sequence_number = seq_no++` (update.c
  lines 536 and 641) leaves the instance with the number just used, so the next
  packet that takes one without waiting has it again (`sameSeq`; `same` in a
  packet). A receiver acknowledges it and ignores its flags (`!same` in lines
  159-209): `peer.ignored`, which is not in the code, remembers that this
  happened to a first packet. The numbers QUERYs and REPLYs take are left out:
  they come between UPDATEs and can only make a repeated number new again.
* `untold` is not in the code; it holds the neighbours that were not sent a
  first packet since a filter on their way changed. Announced is not obeyed: a
  first packet that is ignored counts as sent.
* A table that needs three packets is never finished, since each packet starts
  again at its top: the resynchronisation sends for ever, and `ResyncGoesOn` is
  true of it.
* `peer.crashed`: the list of prefixes that `eigrp_update_receive` saves is freed
  at the end of the handler, and the next packet uses it and frees it again.
  The neighbour's process ends there, and comes back as a new adjacency.
* `MaxChanges` bounds filter changes, soft clears and changes DUAL sends.

## Runs

| Run | Question |
|---|---|
| `dual_two` | Near, far and unreachable metrics over unequal links, one path. List sorted (`BestRouteFirst`), values of PASSIVE (`PassiveStandsForBest`), feasible successors, requests listed, routing table, frozen values, end on the last REPLY, the diagram of states, and the refinement of `DiffusingComputation` |
| `dual_edge` | A distance exactly at the maximum (purged), a bandwidth cut by the link, an inbound filter, equal links, two paths: the list, PASSIVE and the frozen values again, and what zebra has when a purge or an infeasible first route interferes (`HopsAccounted`) |
| `claim_lost_routes` | violated: a lost route is not at an infinite distance |
| `claim_successor_assert` | violated: `assert(successors)` can fail in `lr` |
| `reliable` | Adjacency, then UPDATEs, QUERYs and REPLYs, a lost packet, late timers, numbers that wrap, and a restart, expired hold timer or cleared neighbour at any moment: the head is timed, one packet at a time, PENDING exactly while the INIT waits, an old INIT takes nothing down, and the refinement of `OrderedChannel` |
| `reliable_full` | liveness: both routers come up and stay up (`BecomesFull`) |
| `claim_init_acked` | violated: an INIT under the number the peer heard last is never answered |
| `interface` | Two instances, two interfaces, one network that matches both addresses: what an `eiflist` holds is alive (`ListedIsLive`), justified (`EnabledIsJustified`) and, once the router id is known, connected (`EnabledIsConnected`); what a network covers is taken whatever came first (`CoveredIsTaken`); redistribution and router id stay consistent |
| `codec` | Two neighbours of either version or none: counts follow the UP neighbours, what is sent has one TLV in the format of each of them, with every field at its place (`EncoderServesPeers`), and the loops hand over what the decoders make out, right or wrong (`HandedOver`) |
| `claim_classic` | violated: a classic TLV is not decoded to the route it was made from |
| `claim_query_ignored` | violated: a QUERY in both formats is not processed by a wide neighbour |
| `resync` | No filter change is forgotten (`ChangeAnnounced`), no resynchronisation stops half-way (`ResyncGoesOn`), what is denied is withdrawn unless the first packet was taken for a duplicate (`FilterEnforced`), and every neighbour is told in the end (`EventuallyTold`) |

Between them the passing runs fire every action and every disjunct of the
next-state relations.

`RequestsListed`, `FollowsDiagram` and `ImplementsDiffusion` are checked in
`dual_two` only; they are proved for every instance. `RibHoldsSuccessors` is
false in `dual_edge`: a route is purged after the installation, and
`eigrp_route_descriptor_delete` withdraws the whole destination from zebra; and
`eigrp_update_receive` installs a first route before it is known to be feasible.
`HopsAccounted`, which is checked there, says that these are the only exceptions.

Bounds of `EigrpDual`. Two neighbours suffice for every branch of the state
machine: a successor and another, one that answers and one that does not;
symmetry is not used, since links differ. `MaxMetric` is 31 so that sums pass
the limit as they do at 2^32. `WorkBound` and `ChangesBound` stop *messages*
(never the queue) while more than one item is queued or the destination is
listed more than once; one event adds up to three items, so items of several
events still mix. `rij` is not bounded by a constant: it grows only by pulled
QUERY items.

Bounds of `EigrpReliable`. `MaxBuilt` bounds the packets of the work queue;
three make a queue of an EOT, a packet and one more, so that something waits
behind the head. One loss hits any packet at any moment; in `reliable_full` two,
below `RetransMax`. `MaxSeq` 2 makes numbers wrap and repeat within a run.
`MaxOutput` stops timers and the work queue (never an answer) while that many
packets of the router are on their way; a Hello is sent on an idle link. The
routers are alike, so the safety run uses their permutations as symmetry; the
liveness runs do not.

Bounds of `EigrpInterface`. Two instances compete for an interface, or one has
two, each with its own address; `MaxParts` 3 keeps the four from being there all
at once, with neighbours and redistribution. `MaxRoutes` 2 lets an interface that
is up come up again, with a new MTU or a second up of zebra, so that one prefix
has two connected routes. The autonomous systems are interchangeable and are the
symmetry set. Several addresses on an interface, an address that two interfaces
may have and several networks no longer fit in the run: for them there are the
theorems, whose `Home`, `Covers` and `MaxParts` are any (with a shared address
only `EnabledIsConnected` promises nothing, and is false).

Bounds of `EigrpCodec`. Two neighbours make all four encoders; they are alike
but for their versions, so their permutations are symmetric. The delays are one
that both formats carry, one whose scaled value overflows the classic word, and
the infinite one. The reliabilities are 0, one that can pass for the length of a
destination of 16 bits, and 255, which is beyond every prefix length. One K value stands
for the five, and packets have up to two TLVs. `MaxCount` 3 is one more than
there are neighbours.

Bounds of `EigrpGracefulRestart`. Two destinations with one in a packet
(`MaxIPv4` 1) need a resynchronisation of two packets, two interfaces share the
timer pointer, and two changes overlap. Numbers repeat after every EOT and every
UPDATE of DUAL.

`CHECK_DEADLOCK FALSE` is said of `EigrpDual` (a `fault` ends the run of the
model, and so do the bounds) and of `EigrpReliable` (both again). The runs
`interface`, `codec` and `resync` check deadlock.

Fairness. `FairSpec` of `EigrpReliable` asks weak fairness of `Write`, `Read`,
`HelloTimer` and `RetransTimer` of each router: the event loop serves a writable
or readable socket and an expired timer, and each is rescheduled by its own
handler. Nothing is asked of the link except that `MaxLosses` bounds what it
loses, nor of the work queue, the failures or the operator. The loss bound is
below the number of retransmissions because the code gives up after them.
`FairSpec` of `EigrpGracefulRestart` asks weak fairness of the distribute timers
and, for each neighbour, of its events together (`NeighborEvent`): its timer
expires, a packet is delivered (what `BecomesFull` and the retransmission give),
or the hold timer notices that its process ended. That one of them happens again
and again is enough; no single one is asked not to starve. `Spec`
of `EigrpDual` states no fairness, because the code promises no progress of a
computation: several ways it can hang are listed as hazards. Nothing in
`EigrpInterface` and `EigrpCodec` waits for anything.

## Findings

The five violated runs are the findings of `PROJECT.json`, each with the line of
the repository that says otherwise: a lost route at a short distance, an
assertion that fails, an INIT that is never answered, a classic TLV that is read
four bytes early, and a QUERY that a wide neighbour leaves unread.

Where else the code and its texts differ, without a run of its own:

* `eigrp_network.c:244-248` says "if router_id is not configured, dont bring up
  interfaces", and that `eigrp_router_id_update` will. `eigrp_network_run_interface`
  tests the link only and brings the interface up under an unset router id; so
  does `eigrp_ifp_up`. `EnabledIsConnected` therefore speaks only of an instance
  that has a router id, where code and comment agree; `NetworkRunInterface` does
  what the code does.
* `eigrp_structs.h:405` says of a prefix "reported_metric; // RD for sending". Both
  encoders send `route->metric`, what the neighbour advertised, without the link;
  `RouteType` and the encoders of `EigrpCodec` are written so.
* `specs/packetizing-spec.md:351-366` has a neighbour bound to one version from up to
  down and unbound under that version. `eigrp_sw_version_decode` changes the
  version of a neighbour that is UP and leaves the counts, after which they are
  those of nobody. `CountsMatchPeers` and `EncoderServesPeers` exclude this by
  `iface.rebound`.
* A change of a filter that comes right after an EOT or an UPDATE is sent under
  the number of that packet and taken for a duplicate; what the new filter denies
  stays with the neighbour until its next resynchronisation. It is the exception
  of `FilterEnforced`.
* `no network` for an interface that was never up, the deletion of such an
  interface, and the HELLO timer of a deleted one end the process; see
  "How EigrpInterface corresponds to the code".

## Proofs

Of `EigrpDual`, for every finite set of neighbours, every metric and every bound
(the named `ASSUME`s), TLAPS proves:

* `InstanceSound`: `Spec => []IInv`. `IInv` is `Sound(Now)`: the record of the state is
  well typed (`Instance`), the list of routes is not empty exactly while the
  destination exists, and a set `req_action` means a positive
  count on `topology_changes`. The type invariant alone is not inductive: the
  code reads the head of the list without a test, so that a distance is taken
  from it is a number only if the list is not empty; and a decrement of
  `topology_changes` stays in `Nat` only if a request is listed.
* `TypeCorrect` and `RequestsStayListed` follow from it.
* `ActiveStaysFrozen`, `EndsAnsweredAlways`, `DiagramFollowed`: the three
  action properties.
* `DiffusionImplemented`: every behaviour is one of `DiffusingComputation` under
  the refinement mapping. It combines the frozen values with the end on the
  last REPLY: each step is `Local`, `Start`, `Wait`, `End` or a stutter.
* `HeadIsBest`, `PassiveIsBest`, `SuccessorsAreFeasible`: the list of routes is
  sorted and names a neighbour once, and in PASSIVE the values and the flags are
  those of its head. The invariant is `BestInv`, that is `Good(Now)`. It adds to
  `Sound` that the list is sorted (the insertion finds its place, and the purge
  cuts off a tail, only in a sorted list) and that the distance of a listed
  route is the composite of its total metric. The latter is what `keep_state`
  needs: it leaves the distance alone when the best *metric* is the reported
  one. Between an insertion and the end of the handler only `Anchored` holds:
  the distance is the composite of the metric that was reported.
* `HopsAlwaysAccounted`: in PASSIVE zebra has the first successors of the list,
  or nothing after a purge, or the one route of a destination just created.
  `ZebraHasSuccessors`: if the metrics are `Ordinary`, that is, no sum of a
  metric and a link is exactly the unreachable distance and a first route is
  feasible, it has exactly the first successors (`RibHoldsSuccessors`). The
  constants of `dual_two` are `Ordinary`; those of `dual_edge` are not, and
  `RibHoldsSuccessors` is false of them. The invariant `Aligned` adds to `Good`
  that no listed route is unreachable when metrics are ordinary, so that the
  purge at the end of a computation is the identity.

The argument follows the code: one lemma per operator says that it maps a sound
(listed, good, aligned) state to one (`...Sound`, `...Listed`, `...Good`,
`...Aligned`) and how it changes state and frozen values (`...Outcome`,
`...Keeps`); one step per action combines them. Below them are the lemmas about
sorted lists: what a deletion, an insertion behind the routes that are not
longer, and a cut keep.

Of `EigrpReliable`, for every bound, number of retransmissions and largest
sequence number, TLAPS proves `TypeCorrect`, `HeadAlwaysTimed` and
`AdjacencyHoldsInit`. The inductive invariant `IInv` says that the state of each
router is `Sound`: typed, DOWN in no state between two handlers, PENDING with
exactly the INIT in its queue under the remembered number, no INIT in any other
queue, nothing known of an unknown peer, and a queue that is `Timed`. None of the
three is inductive by itself. That the head stays timed when an ACK releases it
needs that what stood behind it was not timed yet; that PENDING and the INIT end
together needs that the INIT stands alone, and that the first number is not 0.
`Sound` speaks of one router, so that no assumption on the packets of the link is
needed beyond their type. There is again one lemma per operator.

`OnePacketAtATime` (`StopAndWait`), `ChannelImplemented` (the refinement of
`OrderedChannel`) and `OldInitAlwaysIgnored` do need one about the link. It is
`ChannelInv`, of each direction of it: the packets on the link, in the output
buffer and in the queue are in the order they were built (a packet may follow
itself, as a copy under the same number), what waits to be written may be sent
after all of them, and what the peer heard last is older than any, or a copy of
the first one. Then the next packet, once the head is acknowledged, is newer than
anything the peer has seen, so that a step of the code is a `Build`, a `Handle`,
a `Skip` or a stutter of the channel. The proof goes through the parts a handler
works on (what it appends, what it releases, what it puts on the link) and not
through the handlers' branches.

Of `EigrpInterface`, for every set of interfaces, instances, addresses, networks
and senders and every finite set of protocols: `TypeCorrect`,
`ListedAlwaysLive`, `EnabledAlwaysJustified`, `CoveredAlwaysTaken`,
`RedistributeAlwaysCounted` and the action property `RouterIdAlwaysSticky`.
The invariant is `Sound(Now)` (`InstancesAlwaysSound`): the state is typed, the
list of instances is ordered by age, an entry of the configuration has an
instance, only interfaces zebra announced have addresses, redistribution is
counted, every listed interface has a live owner, an address it holds and a
network that matches it, and what is covered is taken. The named properties are
not inductive one by one: that `eigrp_intf_free` leaves the lists of other
instances alone needs that a listed object belongs to the instance that lists
it, and that an interface is never listed twice needs that an object which is
there is not taken again. The proof names how an operator changes a state
(`Kept`: in timers, neighbours, routes, and interfaces that left the lists;
`Grown`: in interfaces that were taken and router ids; `Quiet`: in nothing the
lists depend on), has one lemma per operator, and one step per action.
The assumptions are those of the module: `Freed` is not `NoObject`, and a
cardinality of protocols is taken.

`EnabledAlwaysConnected` (`EnabledIsConnected`) has an invariant of its own,
`Wired`: an interface that is listed by an instance is owned by it, and if its
link is up and nobody else may have its address, the address has a connected
route in that instance's table and the HELLO timer runs, whether or not the
router id is set (the property asks it only where it is). A handler breaks this
half-way, so that the lemmas speak of `Wired(s, X)`, where `X` are the interfaces
a handler is at work on; every handler ends with `Wired(s, {})`. The delicate
operator is `eigrp_intf_free`, which deletes a prefix with the routes of every
interface: it spares the others because an object is made for an address of its
own interface (`Home`), and `Wired` says that too.

Of `EigrpCodec`: `TypeCorrect`, `CountsAlwaysMatch`, `EncoderAlwaysServes` and
`AlwaysHandedOver`. The inductive invariant is
`TypeOK` with `CountsMatchPeers`. The counts follow the neighbours because one
event changes one neighbour, so that each cardinality changes by that neighbour
or not at all, and because a count that matches is positive when a neighbour of
its version is UP, where the code's test against 0 changes nothing. Then the
encoder that the counts select writes just one TLV for every UP peer's version.
`EncoderAlwaysServes` is about what is written, by the places of the format, and,
of the wide format, what this router's own UPDATE loop reads; it does not say that
the code's classic decoder reads it, which is what `claim_classic` refutes.

The two other theorems are about what the receive loops compute on a packet of
any length. The loops are folds, whose definition is a `CHOOSE` of a recursive
function, and the induction theorems of the library cannot be instantiated. The
proof shows that such a function exists by building longer and longer ones
(`FoldExists`), and does its inductions by smallest counterexample
(`SmallestOf`): a set of numbers that is not empty has a least element, which
needs no operator as a parameter. After that the loop is followed TLV by TLV
(`Turn`, `Turns`): the UPDATE loop stops at the first TLV the decoder makes a
route out of, the loop of QUERY and REPLY takes those the packet begins with, and
nothing behind a TLV that ends the packet is handed over, a classic one with a
reliability above 32 included. Arithmetic about the low bits of a scaled delay (`Divides`, `LowBits`,
`ScaledDelay`) says what a route becomes in the classic format.

Of `EigrpGracefulRestart`: `TypeCorrect`, `ChangeAlwaysAnnounced`,
`ResyncAlwaysGoesOn` and `FilterAlwaysEnforced`. The invariant of the first
three adds `ScheduledRuns`: the timer that `t_distribute` points to runs. Without
it, cancelling it for a change of the process-wide list would take a count of
timers below zero; with it, the timer that is cancelled is replaced by that of
the process, which tells everybody. The last (`FilterEnforced`) speaks of the
moment when nothing is on its way; `FilterInv` says how a neighbour that was told
gets there (`Enforced`): the first packet of a resynchronisation is queued and
what follows it names nothing that is denied; or nothing queued does and the
neighbour is offered no denied route, or ignored the first packet; or it saved a
list that its next packet ends its process with, and there is or will be a next
packet, which is no duplicate. The last needs `PartPromised`: what follows a first
packet that promised more has a number of its own.

Only model-checked are `BecomesFull` and `EventuallyTold`, which are liveness under
fairness and out of the provers' reach. Every invariant and every action property
of a passing run is stated by a theorem; `RibHoldsSuccessors` is the only one with
a hypothesis on the constants. The five violated statements are counterexamples,
and stay with TLC.

## Not modelled

* SIA-QUERY and SIA-REPLY handlers: no caller, see above.
* Route-maps: configuration glue around a verdict. Incoming filters are only a
  verdict on a destination (`FilteredIn`).
* Authentication: digests are out of TLC's reach; a packet that fails is dropped
  before any handler, as a lost one.
* CLI text, show commands, SNMP reads, debugging and dump: they change no state
  of the protocol. Callbacks that only store one value are left out.
* Split horizon, the exception interface of an update, and the splitting of an
  UPDATE at the MTU.
* A third router on a link: `multicast_queue` has no writer, and what a
  multicast QUERY leaves is a packet in each neighbour's own queue.
* Two routers that run `EigrpDual` against each other. One router with its
  neighbours' messages in every order has millions of states already, and the
  neighbours of the model may say more than a real router would.
* Connected, external and redistributed routes in DUAL; they appear as counts in
  `EigrpInterface` and as a type in `EigrpCodec`.
* More than one VRF, the stub TLV, and manual neighbours.
* Build glue, compatibility headers, scripts and tests.
