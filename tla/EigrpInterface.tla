---------------------------- MODULE EigrpInterface ----------------------------
(* The lifecycle of eigrpd: routing instances, `network' statements and the  *)
(* EIGRP interfaces that the two of them and zebra's messages create, bring  *)
(* up, bring down, orphan and free (eigrpd.c, eigrp_network.c,               *)
(* eigrp_interface.c, eigrp_zebra.c and the callbacks of                     *)
(* eigrp_northbound.c).                                                      *)
(*                                                                           *)
(* An eigrp_interface_t hangs from ifp->info for as long as the struct       *)
(* interface lives.  eigrp_intf_free takes it off its instance's eiflist and *)
(* frees nothing, so the object may outlive its `network' statement and even *)
(* its instance: `owner' is then Freed, a dangling ei->eigrp.  What a handler *)
(* does that follows one is undefined; the model takes the outcome in which  *)
(* the process dies.                                                         *)
EXTENDS Integers, FiniteSets

CONSTANTS
    Ifp,          \* interfaces of the VRF
    As,           \* autonomous systems a configuration may name
    Addr,         \* primary addresses; each stands for its own prefix too
    Home,         \* Home[i]: the addresses zebra may put on interface i
    Net,          \* prefixes of `network' statements
    Covers,       \* <<n, p>>: network n matches address p
    Peer,         \* senders of HELLO packets
    Proto,        \* routing protocols that can be redistributed
    StaticId,     \* router ids of `eigrp router-id'
    ZebraId,      \* router ids zebra announces
    MaxRoutes,    \* bound on the connected routes of one prefix and interface
    MaxParts,     \* bound on the instances, interfaces, neighbours and
                  \* redistributed protocols that are there at one time
    Unset,        \* router id 0.0.0.0, and the address of no object
    NoObject,     \* owner when ifp->info is NULL
    Freed         \* owner when ei->eigrp has been freed

ASSUME ConstantsAssumption ==
    /\ Home \in [Ifp -> SUBSET Addr]
    /\ Covers \subseteq Net \X Addr
    /\ Unset \notin StaticId \cup ZebraId \cup Addr
    /\ {NoObject, Freed} \cap As = {} /\ NoObject # Freed
    /\ MaxRoutes \in Nat \ {0} /\ MaxParts \in Nat
    /\ IsFiniteSet(Proto)

VARIABLES
    ifp,     \* the interfaces: what zebra said of them, and ifp->info
    eigrp,   \* the instances, eigrp_om->eigrp
    daemon   \* what is kept once: zebra's router id and redistribution bitmap

vars == <<ifp, eigrp, daemon>>

RouterId == StaticId \cup ZebraId \cup {Unset}

NoInfo == [owner |-> NoObject, address |-> Unset, obuf |-> FALSE,
           hello |-> FALSE, nbrs |-> {}]

NoIfp == [real |-> FALSE, up |-> FALSE, addrs |-> {}, info |-> NoInfo]

\* An instance as eigrp_new leaves it; also the value of one that is not there.
Blank == [alive |-> FALSE, entry |-> FALSE, older |-> {}, rid |-> Unset,
          static |-> Unset, networks |-> {}, eiflist |-> {},
          table |-> [p \in Addr |-> [i \in Ifp |-> 0]],
          redistributed |-> {}, redistribute |-> 0]

\* "obuf": there is an output queue; "hello": t_hello runs.
InfoType == [owner : As \cup {NoObject, Freed}, address : Addr \cup {Unset},
             obuf : BOOLEAN, hello : BOOLEAN, nbrs : SUBSET Peer]
IfpType == [real : BOOLEAN, up : BOOLEAN, addrs : SUBSET Addr, info : InfoType]
InstanceType ==
    [alive : BOOLEAN, entry : BOOLEAN, older : SUBSET As, rid : RouterId,
     static : RouterId, networks : SUBSET Net, eiflist : SUBSET Ifp,
     table : [Addr -> [Ifp -> Nat]], redistributed : SUBSET Proto,
     redistribute : Nat]

\* "loose": a HELLO timer runs for an eigrp_interface_t that was freed.
DaemonType == [state : {"running", "stopped", "crashed"}, zebraId : RouterId,
               redist : SUBSET Proto, loose : BOOLEAN]

State == [ifp : [Ifp -> IfpType], eigrp : [As -> InstanceType],
          daemon : DaemonType]

Fresh == [ifp |-> [i \in Ifp |-> NoIfp], eigrp |-> [a \in As |-> Blank],
          daemon |-> [state |-> "running", zebraId |-> Unset, redist |-> {},
                      loose |-> FALSE]]

Now == [ifp |-> ifp, eigrp |-> eigrp, daemon |-> daemon]

\* The process is gone, with all its memory, for the reason `why'.
Gone(why) == [Fresh EXCEPT !.daemon.state = why]

Alive(s) == {a \in As : s.eigrp[a].alive}

-------------------------------------------------------------------------------
(* Interfaces: eigrp_interface.c                                             *)

Info(s, i) == s.ifp[i].info
Owner(s, i) == s.ifp[i].info.owner

\* eigrp_intf_up: makes the output queue, arms the HELLO timer and adds a
\* connected route for the interface's prefix, one more each time it is called.
IntfUp(s, I) ==
    [s EXCEPT
        !.ifp = [i \in Ifp |->
            IF i \in I THEN [s.ifp[i] EXCEPT !.info.obuf = TRUE, !.info.hello = TRUE]
            ELSE s.ifp[i]],
        !.eigrp = [a \in As |-> [s.eigrp[a] EXCEPT !.table =
            [p \in Addr |-> [i \in Ifp |->
                IF i \in I /\ Owner(s, i) = a /\ Info(s, i).address = p
                THEN @[p][i] + 1 ELSE @[p][i]]]]]]

\* eigrp_intf_down: cancels the timer and deletes the neighbours.
IntfDown(s, I) ==
    [s EXCEPT !.ifp = [i \in Ifp |->
        IF i \in I
        THEN [s.ifp[i] EXCEPT !.info.hello = FALSE, !.info.nbrs = {}]
        ELSE s.ifp[i]]]

\* eigrp_intf_free: deletes the whole prefix of each interface from its
\* instance's table, then takes the interface down and off the eiflist.  The
\* object stays at ifp->info.
IntfFree(s, I) ==
    LET t == IntfDown(s, I)
        Of(a) == {i \in I : Owner(s, i) = a}
        Prefixes(a) == {Info(s, i).address : i \in Of(a)}
    IN  [t EXCEPT !.eigrp = [a \in As |-> [s.eigrp[a] EXCEPT
            !.eiflist = @ \ Of(a),
            !.table = [p \in Addr |-> [i \in Ifp |->
                IF p \in Prefixes(a) THEN 0 ELSE @[p][i]]]]]]

\* mutant: the interface is left down
IntfResetStopped(s, i) == IntfDown(s, {i})

\* eigrp_intf_reset: down, then up whatever the state of the link.
IntfReset(s, i) == IntfUp(IntfDown(s, {i}), {i})

-------------------------------------------------------------------------------
(* Networks: eigrp_network.c                                                 *)

Matched(s, i, nets) ==
    {p \in s.ifp[i].addrs : \E n \in nets : <<n, p>> \in Covers}

\* mutant: the test of ifp->info is lost, an interface is taken again
NetworkRunTakesAll(s, a, nets, I) ==
    LET T == {i \in I : Matched(s, i, nets) # {}}
        t == [s EXCEPT
                !.ifp = [i \in Ifp |->
                    IF i \in T
                    THEN [s.ifp[i] EXCEPT !.info = [NoInfo EXCEPT !.owner = a,
                            !.address = CHOOSE p \in Matched(s, i, nets) : TRUE]]
                    ELSE s.ifp[i]],
                !.eigrp[a].eiflist = @ \cup T]
    IN  IntfUp(t, {i \in T : s.ifp[i].up})

\* eigrp_network_run_interface over the interfaces I and the networks nets:
\* an interface without an EIGRP object and with a matching primary address
\* gets one (eigrp_intf_new), and is brought up if its link is.  Which address
\* an interface with several takes is fixed, as the order of the list fixes it.
NetworkRunInterface(s, a, nets, I) ==
    LET T == {i \in I : Owner(s, i) = NoObject /\ Matched(s, i, nets) # {}}
        t == [s EXCEPT
                !.ifp = [i \in Ifp |->
                    IF i \in T
                    THEN [s.ifp[i] EXCEPT !.info = [NoInfo EXCEPT !.owner = a,
                            !.address = CHOOSE p \in Matched(s, i, nets) : TRUE]]
                    ELSE s.ifp[i]],
                !.eigrp[a].eiflist = @ \cup T]
    IN  IntfUp(t, {i \in T : s.ifp[i].up})

\* eigrp_intf_update: nothing is run while the instance has no router id.
IntfUpdate(s, a, I) ==
    IF s.eigrp[a].rid = Unset THEN s
    ELSE NetworkRunInterface(s, a, s.eigrp[a].networks, I)

\* Instances of the list that would take interface i.
Ready(s, i) == {a \in Alive(s) : IntfUpdate(s, a, {i}) # s}

\* mutant: a router id that zebra gave replaces one in use
RouterIdUpdateEager(s, a) ==
    LET old == s.eigrp[a].rid
        new == IF s.eigrp[a].static # Unset THEN s.eigrp[a].static
               ELSE s.daemon.zebraId
        t == [s EXCEPT !.eigrp[a].rid = new]
    IN  IF new = old THEN t ELSE IntfUpdate(t, a, Ifp)

\* mutant: the networks are not run again when the id comes
RouterIdUpdateOnly(s, a) ==
    [s EXCEPT !.eigrp[a].rid =
        IF s.eigrp[a].static # Unset THEN s.eigrp[a].static
        ELSE IF @ # Unset THEN @ ELSE s.daemon.zebraId]

\* eigrp_router_id_update: the configured id, else the one in use, else
\* zebra's; a change runs the networks over every interface.
RouterIdUpdate(s, a) ==
    LET old == s.eigrp[a].rid
        new == IF s.eigrp[a].static # Unset THEN s.eigrp[a].static
               ELSE IF old # Unset THEN old ELSE s.daemon.zebraId
        t == [s EXCEPT !.eigrp[a].rid = new]
    IN  IF new = old THEN t ELSE IntfUpdate(t, a, Ifp)

\* eigrp_network_set
NetworkSet(s, a, n) ==
    LET t == [s EXCEPT !.eigrp[a].networks = @ \cup {n}]
        u == IF t.eigrp[a].rid = Unset THEN RouterIdUpdate(t, a) ELSE t
    IN  NetworkRunInterface(u, a, {n}, Ifp)

\* The interfaces that no network but n matches; the address that is matched is
\* the one the object was made for.
Unmatched(s, a, n) ==
    {i \in s.eigrp[a].eiflist :
        ~ \E m \in s.eigrp[a].networks \ {n} : <<m, Info(s, i).address>> \in Covers}

\* eigrp_network_unset: the interfaces that no network matches any more are sent
\* a last HELLO and freed.  One that was never up has no queue for it, and
\* eigrp_packet_enqueue follows the null pointer.
NetworkUnset(s, a, n) ==
    IF \E i \in Unmatched(s, a, n) : ~ Info(s, i).obuf THEN Gone("crashed")
    ELSE IntfFree([s EXCEPT !.eigrp[a].networks = @ \ {n}], Unmatched(s, a, n))

-------------------------------------------------------------------------------
(* Redistribution: eigrp_zebra.c                                             *)

\* eigrp_redistribute_set: zebra is asked once for each protocol.
RedistributeSet(s, a, p) ==
    IF p \in s.daemon.redist THEN s
    ELSE [s EXCEPT !.daemon.redist = @ \cup {p}, !.eigrp[a].redistribute = @ + 1]

\* eigrp_redistribute_unset
RedistributeUnset(s, a, p) ==
    IF p \notin s.daemon.redist THEN s
    ELSE [s EXCEPT !.daemon.redist = @ \ {p}, !.eigrp[a].redistribute = @ - 1]

-------------------------------------------------------------------------------
(* Instances: eigrpd.c                                                       *)

\* eigrp_get: the instance of that number, or a new one at the list's end.
Get(s, a) ==
    IF s.eigrp[a].alive THEN s
    ELSE [s EXCEPT !.eigrp[a] = [Blank EXCEPT !.alive = TRUE, !.older = Alive(s)]]

\* mutant: the instance stays on the list
FinishStaysListed(s, a) ==
    LET t == IntfFree(s, s.eigrp[a].eiflist)
    IN  [t EXCEPT
            !.ifp = [i \in Ifp |-> IF Owner(s, i) = a
                                   THEN [t.ifp[i] EXCEPT !.info.owner = Freed]
                                   ELSE t.ifp[i]],
            !.eigrp[a] = Blank]

\* eigrp_finish_final: frees the interfaces on the eiflist and the instance
\* itself.  Every object the instance owned, listed or orphaned, keeps a
\* pointer to it.
Finish(s, a) ==
    LET t == IntfFree(s, s.eigrp[a].eiflist)
    IN  [t EXCEPT
            !.ifp = [i \in Ifp |-> IF Owner(s, i) = a
                                   THEN [t.ifp[i] EXCEPT !.info.owner = Freed]
                                   ELSE t.ifp[i]],
            !.eigrp = [b \in As |->
                IF b = a THEN Blank ELSE [t.eigrp[b] EXCEPT !.older = @ \ {a}]]]

-------------------------------------------------------------------------------
Init == /\ ifp = Fresh.ifp
        /\ eigrp = Fresh.eigrp
        /\ daemon = Fresh.daemon

\* The two bounds.
Within(s) ==
    /\ \A a \in As, p \in Addr, i \in Ifp : s.eigrp[a].table[p][i] <= MaxRoutes
    /\ Cardinality(Alive(s)) + Cardinality({i \in Ifp : s.ifp[i] # NoIfp})
       + Cardinality({x \in Ifp \X Peer : x[2] \in s.ifp[x[1]].info.nbrs})
       + Cardinality(s.daemon.redist) <= MaxParts

Becomes(s) ==
    /\ daemon.state = "running"
    /\ Within(s)
    /\ ifp' = s.ifp /\ eigrp' = s.eigrp /\ daemon' = s.daemon

\* A handler that follows info->eigrp.
Follows(i, s) == Becomes(IF Owner(Now, i) = Freed THEN Gone("crashed") ELSE s)

-------------------------------------------------------------------------------
(* Messages of zebra                                                         *)

\* eigrp_ifp_create: with no object at ifp->info it does nothing, and with one
\* eigrp_network_run_interface does nothing.
IfpCreate(i) ==
    /\ ~ ifp[i].real
    /\ Becomes([Now EXCEPT !.ifp[i].real = TRUE])

\* eigrp_ifp_up, also for an interface that is up: a new MTU resets the
\* interface, else it is brought up (once more).
IfpUp(i) ==
    /\ ifp[i].real
    /\ LET s == [Now EXCEPT !.ifp[i].up = TRUE]
       IN  IF Owner(s, i) = NoObject THEN Becomes(s)
           ELSE \E mtuChanged \in BOOLEAN :
                Follows(i, IF mtuChanged THEN IntfReset(s, i) ELSE IntfUp(s, {i}))

\* eigrp_ifp_down: the instance is followed to delete a neighbour only.
IfpDown(i) ==
    /\ ifp[i].up
    /\ LET s == IntfDown([Now EXCEPT !.ifp[i].up = FALSE], {i})
       IN  IF Info(Now, i).nbrs = {} THEN Becomes(s) ELSE Follows(i, s)

\* eigrp_ifp_destroy: zebra has withdrawn the addresses before.
IfpDestroy(i) ==
    /\ ifp[i].real /\ ifp[i].addrs = {}
    /\ LET s == [Now EXCEPT !.ifp[i].real = FALSE, !.ifp[i].up = FALSE]
       IN  IF Owner(s, i) = NoObject THEN Becomes(s)
           ELSE Follows(i, IntfFree(s, {i}))

\* eigrp_intf_delete_hook: the struct interface goes, and its object with it:
\* without a queue, eigrp_packet_queue_free follows the null pointer.  The HELLO
\* timer is not cancelled; while it does not run the object is on no oi_write_q.
IfpDelete(i) ==
    /\ ~ ifp[i].real /\ Owner(Now, i) # NoObject
    /\ Follows(i, IF ~ ifp[i].info.obuf THEN Gone("crashed")
                  ELSE [Now EXCEPT
                    !.ifp[i] = NoIfp,
                    !.eigrp = [a \in As |-> [eigrp[a] EXCEPT !.eiflist = @ \ {i}]],
                    !.daemon.loose = @ \/ ifp[i].info.hello])

\* eigrp_zebra_interface_address_add runs eigrp_intf_update for each instance of
\* the list in turn: an interface that none has goes to the oldest instance that
\* is ready and matches it, and to no other.
AddressAdd(i, p) ==
    /\ ifp[i].real /\ p \in Home[i] \ ifp[i].addrs
    /\ LET s == [Now EXCEPT !.ifp[i].addrs = @ \cup {p}]
       IN  IF Ready(s, i) = {} THEN Becomes(s)
           ELSE \E a \in Ready(s, i) :
                    /\ s.eigrp[a].older \cap Ready(s, i) = {}
                    /\ Becomes(IntfUpdate(s, a, {i}))

\* mutant: the address goes and the interface stays
AddressDeleteOnly(i, p) ==
    /\ p \in ifp[i].addrs
    /\ Becomes([Now EXCEPT !.ifp[i].addrs = @ \ {p}])

\* eigrp_zebra_interface_address_delete: frees the interface when the address
\* is the one its object was made for.
AddressDelete(i, p) ==
    /\ p \in ifp[i].addrs
    /\ LET s == [Now EXCEPT !.ifp[i].addrs = @ \ {p}]
       IN  IF Owner(s, i) = NoObject \/ Info(s, i).address # p THEN Becomes(s)
           ELSE Follows(i, IntfFree(s, {i}))

\* eigrp_zebra_router_id_update: eigrp_lookup finds the first instance of the
\* VRF, the others are not told.
ZebraRouterId(id) ==
    LET s == [Now EXCEPT !.daemon.zebraId = id]
    IN  IF Alive(s) = {} THEN Becomes(s)
        ELSE \E a \in Alive(s) : /\ s.eigrp[a].older = {}
                                 /\ Becomes(RouterIdUpdate(s, a))

-------------------------------------------------------------------------------
(* Timers and packets                                                        *)

\* eigrp_hello_timer: sends through the interface's instance and re-arms.
HelloTimer(i) ==
    /\ ifp[i].info.hello
    /\ Follows(i, Now)

\* The HELLO timer, or the write event, of an object that IfpDelete has freed.
FreedTimer ==
    /\ daemon.loose
    /\ Becomes(Gone("crashed"))

\* eigrp_packet_read of a HELLO: any instance's socket takes it, and nothing
\* but ifp->info decides whether it is heard.
HelloReceive(i, nbr) ==
    /\ Alive(Now) # {} /\ ifp[i].up /\ Owner(Now, i) # NoObject
    /\ Follows(i, [Now EXCEPT !.ifp[i].info.nbrs = @ \cup {nbr}])

\* holddown_timer_expired: eigrp_nbr_delete looks the instance's table up.
HoldExpires(i, nbr) ==
    /\ nbr \in ifp[i].info.nbrs
    /\ Follows(i, [Now EXCEPT !.ifp[i].info.nbrs = @ \ {nbr}])

-------------------------------------------------------------------------------
(* Northbound callbacks                                                      *)

\* PREPARE makes the instance, APPLY enters it in the running configuration.
InstanceCreate(a) ==
    /\ ~ eigrp[a].entry
    /\ Becomes([Get(Now, a) EXCEPT !.eigrp[a].entry = TRUE])

\* ABORT after PREPARE finishes the instance that eigrp_get returned, whether
\* or not this transaction made it.
InstanceCreateAborted(a) ==
    /\ ~ eigrp[a].entry
    /\ Becomes(Finish(Get(Now, a), a))

InstanceDestroy(a) ==
    /\ eigrp[a].entry
    /\ Becomes(Finish(Now, a))

\* The router id is stored, and used at the next eigrp_router_id_update.
RouterIdModify(a, id) ==
    /\ eigrp[a].entry
    /\ Becomes([Now EXCEPT !.eigrp[a].static = id])

RouterIdDestroy(a) ==
    /\ eigrp[a].entry /\ eigrp[a].static # Unset
    /\ Becomes([Now EXCEPT !.eigrp[a].static = Unset])

NetworkCreate(a, n) ==
    /\ eigrp[a].entry /\ n \notin eigrp[a].networks
    /\ Becomes(NetworkSet(Now, a, n))

NetworkDestroy(a, n) ==
    /\ eigrp[a].entry /\ n \in eigrp[a].networks
    /\ Becomes(NetworkUnset(Now, a, n))

\* mutant: VALIDATE does not look at the bitmap
RedistributeCreateUnchecked(a, p) ==
    /\ eigrp[a].entry /\ p \notin eigrp[a].redistributed
    /\ Becomes(RedistributeSet([Now EXCEPT !.eigrp[a].redistributed = @ \cup {p}],
                               a, p))

\* VALIDATE refuses a protocol that zebra was asked for.
RedistributeCreate(a, p) ==
    /\ eigrp[a].entry /\ p \notin daemon.redist
    /\ Becomes(RedistributeSet([Now EXCEPT !.eigrp[a].redistributed = @ \cup {p}],
                               a, p))

RedistributeDestroy(a, p) ==
    /\ eigrp[a].entry /\ p \in eigrp[a].redistributed
    /\ Becomes(RedistributeUnset([Now EXCEPT !.eigrp[a].redistributed = @ \ {p}],
                                 a, p))

\* `delay' and `bandwidth' of an interface with an object: reset.
ParamModify(i) ==
    /\ Owner(Now, i) # NoObject
    /\ Follows(i, IntfReset(Now, i))

\* VALIDATE of an interface's eigrp instance: eigrp_get makes the instance that
\* it is asked about.
IfpInstanceCreate(i, a) ==
    /\ ifp[i].real
    /\ Becomes(Get(Now, a))

\* eigrp_terminate finishes every instance and the process ends.
Terminate == Becomes(Gone("stopped"))

\* The daemon is started again and zebra tells it everything anew.
Restart ==
    /\ daemon.state # "running"
    /\ ifp' = Fresh.ifp /\ eigrp' = Fresh.eigrp /\ daemon' = Fresh.daemon

Next ==
    \/ \E i \in Ifp : \/ IfpCreate(i)
                      \/ IfpUp(i)
                      \/ IfpDown(i)
                      \/ IfpDestroy(i)
                      \/ IfpDelete(i)
                      \/ HelloTimer(i)
                      \/ ParamModify(i)
    \/ \E i \in Ifp, p \in Addr : AddressAdd(i, p) \/ AddressDelete(i, p)
    \/ \E i \in Ifp, nbr \in Peer : HelloReceive(i, nbr) \/ HoldExpires(i, nbr)
    \/ \E i \in Ifp, a \in As : IfpInstanceCreate(i, a)
    \/ \E id \in ZebraId : ZebraRouterId(id)
    \/ \E a \in As : \/ InstanceCreate(a)
                     \/ InstanceCreateAborted(a)
                     \/ InstanceDestroy(a)
                     \/ RouterIdDestroy(a)
    \/ \E a \in As, id \in StaticId : RouterIdModify(a, id)
    \/ \E a \in As, n \in Net : NetworkCreate(a, n) \/ NetworkDestroy(a, n)
    \/ \E a \in As, p \in Proto : RedistributeCreate(a, p) \/ RedistributeDestroy(a, p)
    \/ FreedTimer
    \/ Terminate
    \/ Restart

Spec == Init /\ [][Next]_vars

-------------------------------------------------------------------------------
\* Types; and the list of instances: each of its members is alive, the head has
\* no older instance and of two instances one is the older.
TypeOK ==
    /\ Now \in State
    /\ \A a \in As : eigrp[a].older \subseteq Alive(Now) \ {a}
    /\ \A a, b \in Alive(Now) :
        a # b => (a \in eigrp[b].older) # (b \in eigrp[a].older)

\* An interface on an instance's eiflist has an object that belongs to that
\* instance, which is alive: what every walk of an eiflist relies on.
ListedIsLive ==
    \A a \in As : \A i \in eigrp[a].eiflist :
        /\ eigrp[a].alive
        /\ Owner(Now, i) = a
        /\ ifp[i].info.address \in Addr

\* An enabled interface is one that zebra gave the address its object was made
\* for, and that a `network' statement of its instance matches: network_unset
\* and the deletion of the address leave no other on the list.
EnabledIsJustified ==
    \A a \in As : \A i \in eigrp[a].eiflist :
        /\ ifp[i].real
        /\ ifp[i].info.address \in ifp[i].addrs
        /\ \E n \in eigrp[a].networks : <<n, ifp[i].info.address>> \in Covers

\* Once an instance has a router id, no interface without an object has an
\* address that the instance's networks match, in whichever order the router
\* id, the networks and the addresses came.
CoveredIsTaken ==
    \A a \in Alive(Now), i \in Ifp :
        eigrp[a].rid # Unset /\ Owner(Now, i) = NoObject =>
            Matched(Now, i, eigrp[a].networks) = {}

\* Once its instance has a router id, the prefix of an enabled interface whose
\* link is up is in the topology table with a connected route through it, and its
\* HELLO timer runs, whichever of the id, the network, the address and the link
\* came first.  That no other interface may get the address is needed:
\* eigrp_intf_free deletes the prefix with the routes of every interface.
EnabledIsConnected ==
    \A a \in As : \A i \in eigrp[a].eiflist :
      /\ eigrp[a].rid # Unset /\ ifp[i].up
      /\ \A j \in Ifp \ {i} : ifp[i].info.address \notin Home[j]
      =>
        /\ eigrp[a].table[ifp[i].info.address][i] > 0
        /\ ifp[i].info.hello

\* Each protocol is redistributed by one instance at most, which counts the
\* protocols it asked zebra for.
RedistributeCounted ==
    /\ \A a \in As :
        /\ eigrp[a].redistribute = Cardinality(eigrp[a].redistributed)
        /\ eigrp[a].redistributed \subseteq daemon.redist
    /\ \A a, b \in As :
        a # b => eigrp[a].redistributed \cap eigrp[b].redistributed = {}

\* A router id in use changes to the configured one only, whatever zebra
\* announces meanwhile.
RouterIdSticky ==
    [][\A a \in As : eigrp[a].alive /\ eigrp'[a].alive /\ eigrp[a].rid # Unset =>
            eigrp'[a].rid \in {eigrp[a].rid, eigrp[a].static}]_vars
===============================================================================
