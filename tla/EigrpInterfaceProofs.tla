------------------------- MODULE EigrpInterfaceProofs -------------------------
(* The lifecycle of instances and interfaces for any number of them, of       *)
(* addresses, networks and protocols.  The inductive invariant, Sound, is a   *)
(* predicate of the whole state; there is a lemma for each operator of        *)
(* EigrpInterface that says what of the state it changes.  A second one,      *)
(* Wired, is about the connected routes and HELLO timers of the interfaces    *)
(* that no handler is halfway through.                                        *)
EXTENDS EigrpInterface, FiniteSetTheorems, TLAPS

\* The list of instances is in an order.
Ordered(s) ==
    /\ \A a \in As : s.eigrp[a].older \subseteq Alive(s) \ {a}
    /\ \A a, b \in Alive(s) :
        a # b => (a \in s.eigrp[b].older) # (b \in s.eigrp[a].older)

\* An entry of the configuration has an instance.
Entered(s) == \A a \in As : s.eigrp[a].entry => s.eigrp[a].alive

\* Only an interface that zebra announced has addresses.
Addressed(s) == \A i \in Ifp : s.ifp[i].addrs # {} => s.ifp[i].real

\* ListedIsLive and EnabledIsJustified.
ListedOK(s, a, i) ==
    /\ s.eigrp[a].alive
    /\ Owner(s, i) = a
    /\ Info(s, i).address \in Addr
    /\ Info(s, i).address \in s.ifp[i].addrs
    /\ \E n \in s.eigrp[a].networks : <<n, Info(s, i).address>> \in Covers
Listed(s) == \A a \in As : \A i \in s.eigrp[a].eiflist : ListedOK(s, a, i)

\* RedistributeCounted
Counted(s) ==
    /\ \A a \in As :
        /\ s.eigrp[a].redistribute = Cardinality(s.eigrp[a].redistributed)
        /\ s.eigrp[a].redistributed \subseteq s.daemon.redist
    /\ \A a, b \in As :
        a # b => s.eigrp[a].redistributed \cap s.eigrp[b].redistributed = {}

\* CoveredIsTaken
Taken(s) ==
    \A a \in Alive(s), i \in Ifp :
        s.eigrp[a].rid # Unset /\ Owner(s, i) = NoObject =>
            Matched(s, i, s.eigrp[a].networks) = {}

Rest(s)  == s \in State /\ Ordered(s) /\ Entered(s) /\ Addressed(s) /\ Counted(s)
Base(s)  == Rest(s) /\ Listed(s)
Sound(s) == Base(s) /\ Taken(s)

\* RouterIdSticky
Sticky(s, t) ==
    \A a \in As : s.eigrp[a].alive /\ t.eigrp[a].alive /\ s.eigrp[a].rid # Unset =>
        t.eigrp[a].rid \in {s.eigrp[a].rid, s.eigrp[a].static}

\* t is s but for HELLO timers, neighbours, links and routes, and interfaces that
\* left the lists.
Kept(s, t) ==
    /\ t \in State /\ t.daemon = s.daemon
    /\ \A i \in Ifp :
        /\ t.ifp[i].real = s.ifp[i].real /\ t.ifp[i].addrs = s.ifp[i].addrs
        /\ Owner(t, i) = Owner(s, i) /\ Info(t, i).address = Info(s, i).address
    /\ \A a \in As :
        /\ t.eigrp[a].alive = s.eigrp[a].alive /\ t.eigrp[a].older = s.eigrp[a].older
        /\ t.eigrp[a].entry = s.eigrp[a].entry
        /\ t.eigrp[a].rid = s.eigrp[a].rid /\ t.eigrp[a].static = s.eigrp[a].static
        /\ t.eigrp[a].networks = s.eigrp[a].networks
        /\ t.eigrp[a].redistributed = s.eigrp[a].redistributed
        /\ t.eigrp[a].redistribute = s.eigrp[a].redistribute
        /\ t.eigrp[a].eiflist \subseteq s.eigrp[a].eiflist

\* t is s but for interfaces that were taken, and router ids.
Grown(s, t) ==
    /\ t \in State /\ t.daemon = s.daemon
    /\ \A i \in Ifp :
        /\ t.ifp[i].real = s.ifp[i].real /\ t.ifp[i].addrs = s.ifp[i].addrs
        /\ Owner(t, i) = NoObject => Owner(s, i) = NoObject
    /\ \A a \in As :
        /\ t.eigrp[a].alive = s.eigrp[a].alive /\ t.eigrp[a].older = s.eigrp[a].older
        /\ t.eigrp[a].entry = s.eigrp[a].entry
        /\ t.eigrp[a].static = s.eigrp[a].static
        /\ t.eigrp[a].networks = s.eigrp[a].networks
        /\ t.eigrp[a].redistributed = s.eigrp[a].redistributed
        /\ t.eigrp[a].redistribute = s.eigrp[a].redistribute

SameIds(s, t) == \A a \in As : t.eigrp[a].rid = s.eigrp[a].rid

\* No interface of I without an object matches nets.
NoneLeft(t, nets, I) ==
    \A i \in I : Owner(t, i) = NoObject => Matched(t, i, nets) = {}

LEMMA Types ==
    ASSUME NEW s \in State
    PROVE  /\ s = [ifp |-> s.ifp, eigrp |-> s.eigrp, daemon |-> s.daemon]
           /\ s.ifp \in [Ifp -> IfpType] /\ s.eigrp \in [As -> InstanceType]
           /\ s.daemon \in DaemonType
           /\ \A i \in Ifp : /\ s.ifp[i] \in IfpType /\ s.ifp[i].info \in InfoType
                             /\ s.ifp[i].addrs \subseteq Addr
           /\ \A a \in As : s.eigrp[a] \in InstanceType
BY DEF State, IfpType

LEMMA AliveSame ==
    ASSUME NEW s, NEW t, \A a \in As : t.eigrp[a].alive = s.eigrp[a].alive
    PROVE  Alive(t) = Alive(s)
BY DEF Alive

LEMMA KeptRest == ASSUME NEW s, NEW t, Rest(s), Kept(s, t) PROVE Rest(t)
<1>1. Alive(t) = Alive(s)
  BY AliveSame DEF Kept
<1>2. Ordered(t)
  <2>1. Alive(s) \subseteq As
    BY DEF Alive
  <2> QED BY <1>1, <2>1 DEF Kept, Ordered, Rest
<1>3. Entered(t) /\ Addressed(t)
  BY DEF Kept, Entered, Addressed, Rest
<1>4. Counted(t)
  BY DEF Kept, Counted, Rest
<1> QED BY <1>2, <1>3, <1>4 DEF Kept, Rest

LEMMA KeptListed ==
    ASSUME NEW s \in State, NEW t, Listed(s), Kept(s, t) PROVE Listed(t)
<1> SUFFICES ASSUME NEW a \in As, NEW i \in t.eigrp[a].eiflist
             PROVE  ListedOK(t, a, i)
  BY DEF Listed
<1>1. i \in s.eigrp[a].eiflist /\ ListedOK(s, a, i)
  BY DEF Kept, Listed
<1>2. i \in Ifp
  BY <1>1, Types DEF InstanceType
<1> QED BY <1>1, <1>2 DEF Kept, ListedOK

LEMMA KeptTaken ==
    ASSUME NEW s, NEW t, Taken(s), Kept(s, t) PROVE Taken(t)
<1>1. Alive(t) = Alive(s) /\ Alive(s) \subseteq As
  BY AliveSame DEF Kept, Alive
<1> QED BY <1>1 DEF Kept, Taken, Matched

LEMMA KeptSticky == ASSUME NEW s, NEW t, Kept(s, t) PROVE Sticky(s, t)
BY DEF Kept, Sticky

LEMMA KeptSound ==
    ASSUME NEW s, NEW t, Sound(s), Kept(s, t) PROVE Sound(t) /\ Sticky(s, t)
BY KeptRest, KeptListed, KeptTaken, KeptSticky DEF Sound, Base, Rest

LEMMA KeptTwice ==
    ASSUME NEW s, NEW t, NEW u, Kept(s, t), Kept(t, u) PROVE Kept(s, u)
BY DEF Kept

\* A state with other interfaces and instances.
With(s, f, g) == [s EXCEPT !.ifp = f, !.eigrp = g]

LEMMA Built ==
    ASSUME NEW s \in State, NEW f \in [Ifp -> IfpType], NEW g \in [As -> InstanceType]
    PROVE  /\ With(s, f, g) \in State
           /\ With(s, f, g).ifp = f /\ With(s, f, g).eigrp = g
           /\ With(s, f, g).daemon = s.daemon
BY DEF State, With

LEMMA InfoBuilt ==
    ASSUME NEW e \in IfpType, NEW x \in InfoType, NEW u, u = [e EXCEPT !.info = x]
    PROVE  u \in IfpType /\ u.real = e.real /\ u.up = e.up /\ u.addrs = e.addrs /\ u.info = x
BY DEF IfpType

LEMMA InfoSet ==
    ASSUME NEW x \in InfoType, NEW h \in BOOLEAN, NEW n \in SUBSET Peer,
           NEW a \in As \cup {NoObject, Freed}
    PROVE  LET y == [x EXCEPT !.hello = h]
               z == [y EXCEPT !.nbrs = n]
               w == [x EXCEPT !.owner = a]
               v == [x EXCEPT !.obuf = TRUE, !.hello = TRUE]
           IN  /\ v \in InfoType /\ v.owner = x.owner /\ v.address = x.address
               /\ y \in InfoType /\ y.owner = x.owner /\ y.address = x.address
               /\ z \in InfoType /\ z.owner = x.owner /\ z.address = x.address
               /\ w \in InfoType /\ w.owner = a /\ w.address = x.address
BY DEF InfoType

LEMMA TableBuilt ==
    ASSUME NEW e \in InstanceType, NEW table \in [Addr -> [Ifp -> Nat]],
           NEW u, u = [e EXCEPT !.table = table]
    PROVE  /\ u \in InstanceType
           /\ u.alive = e.alive /\ u.older = e.older
           /\ u.entry = e.entry /\ u.rid = e.rid
           /\ u.static = e.static /\ u.networks = e.networks
           /\ u.redistributed = e.redistributed /\ u.redistribute = e.redistribute
           /\ u.eiflist = e.eiflist
BY DEF InstanceType

WithList(e, list) == [e EXCEPT !.eiflist = list]

LEMMA ListBuilt ==
    ASSUME NEW e \in InstanceType, NEW list \in SUBSET Ifp
    PROVE  LET u == WithList(e, list)
           IN  /\ u \in InstanceType
               /\ u.alive = e.alive /\ u.older = e.older
               /\ u.entry = e.entry /\ u.rid = e.rid
               /\ u.static = e.static /\ u.networks = e.networks
               /\ u.redistributed = e.redistributed /\ u.redistribute = e.redistribute
               /\ u.table = e.table /\ u.eiflist = list
BY DEF InstanceType, WithList

\* eigrp_intf_up
LEMMA IntfUpKeeps ==
    ASSUME NEW s \in State, NEW I, NEW t, t = IntfUp(s, I)
    PROVE  Kept(s, t) /\ \A a \in As : t.eigrp[a].eiflist = s.eigrp[a].eiflist
<1> DEFINE up == [i \in Ifp |-> IF i \in I
                        THEN [s.ifp[i] EXCEPT !.info.obuf = TRUE, !.info.hello = TRUE]
                        ELSE s.ifp[i]]
           table(a) == [p \in Addr |-> [i \in Ifp |->
                          IF i \in I /\ Owner(s, i) = a /\ Info(s, i).address = p
                          THEN s.eigrp[a].table[p][i] + 1 ELSE s.eigrp[a].table[p][i]]]
           inst == [a \in As |-> [s.eigrp[a] EXCEPT !.table = table(a)]]
<1>1. t = With(s, up, inst)
  BY DEF IntfUp, With
<1>2. \A i \in Ifp : /\ up[i] \in IfpType
                     /\ up[i].real = s.ifp[i].real /\ up[i].addrs = s.ifp[i].addrs
                     /\ up[i].info.owner = s.ifp[i].info.owner
                     /\ up[i].info.address = s.ifp[i].info.address
  <2> SUFFICES ASSUME NEW i \in Ifp, i \in I
               PROVE  /\ up[i] \in IfpType
                      /\ up[i].real = s.ifp[i].real /\ up[i].addrs = s.ifp[i].addrs
                      /\ up[i].info.owner = s.ifp[i].info.owner
                      /\ up[i].info.address = s.ifp[i].info.address
    BY Types
  <2> HIDE DEF table, inst
  <2> DEFINE x == [s.ifp[i].info EXCEPT !.obuf = TRUE, !.hello = TRUE]
  <2>1. x \in InfoType /\ x.owner = s.ifp[i].info.owner
        /\ x.address = s.ifp[i].info.address
    BY Types, InfoSet
  <2>2. up[i] = [s.ifp[i] EXCEPT !.info = x]
    OBVIOUS
  <2> HIDE DEF x, up
  <2> QED BY <2>1, <2>2, InfoBuilt, Types
<1>3. \A a \in As : table(a) \in [Addr -> [Ifp -> Nat]]
  <2> SUFFICES ASSUME NEW a \in As PROVE table(a) \in [Addr -> [Ifp -> Nat]]
    OBVIOUS
  <2>1. s.eigrp[a].table \in [Addr -> [Ifp -> Nat]]
    BY DEF State, InstanceType
  <2> QED BY <2>1
<1>4. up \in [Ifp -> IfpType]
  BY <1>2
<1> HIDE DEF table
<1>5. \A a \in As :
        /\ inst[a] \in InstanceType
        /\ inst[a].alive = s.eigrp[a].alive /\ inst[a].older = s.eigrp[a].older
        /\ inst[a].entry = s.eigrp[a].entry
        /\ inst[a].rid = s.eigrp[a].rid /\ inst[a].static = s.eigrp[a].static
        /\ inst[a].networks = s.eigrp[a].networks
        /\ inst[a].redistributed = s.eigrp[a].redistributed
        /\ inst[a].redistribute = s.eigrp[a].redistribute
        /\ inst[a].eiflist = s.eigrp[a].eiflist
  BY <1>3, Types, TableBuilt
<1>6. inst \in [As -> InstanceType]
  BY <1>5
<1> HIDE DEF up, inst
<1>7. t \in State /\ t.ifp = up /\ t.eigrp = inst /\ t.daemon = s.daemon
  BY <1>1, <1>4, <1>6, Built
<1> QED BY <1>2, <1>5, <1>7 DEF Kept, Owner, Info

\* eigrp_intf_down
LEMMA IntfDownKeeps ==
    ASSUME NEW s \in State, NEW I, NEW t, t = IntfDown(s, I)
    PROVE  Kept(s, t) /\ t.eigrp = s.eigrp
<1> DEFINE down == [i \in Ifp |-> IF i \in I
                        THEN [s.ifp[i] EXCEPT !.info.hello = FALSE, !.info.nbrs = {}]
                        ELSE s.ifp[i]]
<1>1. t = With(s, down, s.eigrp)
  BY Types DEF IntfDown, With, State
<1>2. \A i \in Ifp : /\ down[i] \in IfpType
                     /\ down[i].real = s.ifp[i].real /\ down[i].addrs = s.ifp[i].addrs
                     /\ down[i].info.owner = s.ifp[i].info.owner
                     /\ down[i].info.address = s.ifp[i].info.address
  <2> SUFFICES ASSUME NEW i \in Ifp, i \in I
               PROVE  /\ down[i] \in IfpType
                      /\ down[i].real = s.ifp[i].real /\ down[i].addrs = s.ifp[i].addrs
                      /\ down[i].info.owner = s.ifp[i].info.owner
                      /\ down[i].info.address = s.ifp[i].info.address
    BY Types
  <2> DEFINE x == [s.ifp[i].info EXCEPT !.hello = FALSE]
             y == [x EXCEPT !.nbrs = {}]
             e == [s.ifp[i] EXCEPT !.info = x]
  <2>1. y \in InfoType /\ y.owner = s.ifp[i].info.owner
        /\ y.address = s.ifp[i].info.address /\ x \in InfoType
    BY Types, InfoSet
  <2>2. e.info = x
    BY <2>1, Types, InfoBuilt
  <2>3. down[i] = [e EXCEPT !.info = y]
    BY <2>2
  <2> HIDE DEF x, y, down
  <2>4. e \in IfpType /\ e.real = s.ifp[i].real /\ e.addrs = s.ifp[i].addrs
    BY <2>1, Types, InfoBuilt
  <2> HIDE DEF e
  <2> QED BY <2>1, <2>3, <2>4, InfoBuilt
<1>3. down \in [Ifp -> IfpType] /\ s.eigrp \in [As -> InstanceType]
  BY <1>2, Types
<1> HIDE DEF down
<1>4. t \in State /\ t.ifp = down /\ t.eigrp = s.eigrp /\ t.daemon = s.daemon
  BY <1>1, <1>3, Built
<1> QED BY <1>2, <1>4 DEF Kept, Owner, Info

\* eigrp_intf_free
LEMMA IntfFreeKeeps ==
    ASSUME NEW s \in State, NEW I, NEW t, t = IntfFree(s, I)
    PROVE  /\ Kept(s, t)
           /\ \A a \in As : t.eigrp[a].eiflist =
                s.eigrp[a].eiflist \ {i \in I : Owner(s, i) = a}
<1> DEFINE d == IntfDown(s, I)
           Of(a) == {i \in I : Owner(s, i) = a}
           prefixes(a) == {Info(s, i).address : i \in Of(a)}
           table(a) == [p \in Addr |-> [i \in Ifp |->
                            IF p \in prefixes(a) THEN 0 ELSE s.eigrp[a].table[p][i]]]
           less(a) == [s.eigrp[a] EXCEPT !.eiflist = @ \ Of(a)]
           inst == [a \in As |-> [less(a) EXCEPT !.table = table(a)]]
<1>1. Kept(s, d) /\ d.eigrp = s.eigrp /\ d \in State /\ d.ifp \in [Ifp -> IfpType]
  BY IntfDownKeeps, Types DEF Kept
<1>2. \A a \in As : /\ less(a) \in InstanceType
                    /\ less(a).alive = s.eigrp[a].alive /\ less(a).older = s.eigrp[a].older
                    /\ less(a).entry = s.eigrp[a].entry
                    /\ less(a).rid = s.eigrp[a].rid /\ less(a).static = s.eigrp[a].static
                    /\ less(a).networks = s.eigrp[a].networks
                    /\ less(a).redistributed = s.eigrp[a].redistributed
                    /\ less(a).redistribute = s.eigrp[a].redistribute
                    /\ less(a).eiflist = s.eigrp[a].eiflist \ Of(a)
                    /\ less(a).table = s.eigrp[a].table
  <2> SUFFICES ASSUME NEW a \in As
               PROVE  /\ less(a) \in InstanceType
                      /\ less(a).alive = s.eigrp[a].alive /\ less(a).older = s.eigrp[a].older
                      /\ less(a).entry = s.eigrp[a].entry
                      /\ less(a).rid = s.eigrp[a].rid /\ less(a).static = s.eigrp[a].static
                      /\ less(a).networks = s.eigrp[a].networks
                      /\ less(a).redistributed = s.eigrp[a].redistributed
                      /\ less(a).redistribute = s.eigrp[a].redistribute
                      /\ less(a).eiflist = s.eigrp[a].eiflist \ Of(a)
                      /\ less(a).table = s.eigrp[a].table
    OBVIOUS
  <2>1. s.eigrp[a] \in InstanceType /\ s.eigrp[a].eiflist \ Of(a) \in SUBSET Ifp
    BY Types DEF InstanceType
  <2>2. less(a) = WithList(s.eigrp[a], s.eigrp[a].eiflist \ Of(a))
    BY DEF WithList
  <2> HIDE DEF d, inst, table, Of, less
  <2> QED BY <2>1, <2>2, ListBuilt
<1>3. t = With(d, d.ifp, inst)
  <2>1. t = [d EXCEPT !.eigrp = inst]
    BY <1>2 DEF IntfFree
  <2> HIDE DEF d, inst
  <2> QED BY <1>1, <2>1 DEF With, State
<1>4. \A a \in As : table(a) \in [Addr -> [Ifp -> Nat]]
  <2> SUFFICES ASSUME NEW a \in As PROVE table(a) \in [Addr -> [Ifp -> Nat]]
    OBVIOUS
  <2>1. s.eigrp[a].table \in [Addr -> [Ifp -> Nat]]
    BY DEF State, InstanceType
  <2> QED BY <2>1
<1> HIDE DEF table, less, Of
<1>5. \A a \in As :
        /\ inst[a] \in InstanceType
        /\ inst[a].alive = s.eigrp[a].alive /\ inst[a].older = s.eigrp[a].older
        /\ inst[a].entry = s.eigrp[a].entry
        /\ inst[a].rid = s.eigrp[a].rid /\ inst[a].static = s.eigrp[a].static
        /\ inst[a].networks = s.eigrp[a].networks
        /\ inst[a].redistributed = s.eigrp[a].redistributed
        /\ inst[a].redistribute = s.eigrp[a].redistribute
        /\ inst[a].eiflist = s.eigrp[a].eiflist \ Of(a)
  BY <1>2, <1>4, TableBuilt
<1>6. inst \in [As -> InstanceType]
  BY <1>5
<1> HIDE DEF inst, d
<1>7. t \in State /\ t.ifp = d.ifp /\ t.eigrp = inst /\ t.daemon = d.daemon
  BY <1>1, <1>3, <1>6, Built
<1> QED BY <1>1, <1>5, <1>7 DEF Kept, Owner, Info, Of

\* eigrp_intf_reset
LEMMA IntfResetKeeps ==
    ASSUME NEW s \in State, NEW i, NEW t, t = IntfReset(s, i)
    PROVE  Kept(s, t)
<1> DEFINE d == IntfDown(s, {i})
<1>1. Kept(s, d) /\ d \in State
  BY IntfDownKeeps DEF Kept
<1>2. t = IntfUp(d, {i})
  BY DEF IntfReset
<1> HIDE DEF d
<1>3. Kept(d, t)
  BY <1>1, <1>2, IntfUpKeeps
<1> QED BY <1>1, <1>3, KeptTwice


LEMMA KeptIsGrown ==
    ASSUME NEW s, NEW t, Kept(s, t) PROVE Grown(s, t) /\ SameIds(s, t)
BY DEF Kept, Grown, SameIds

LEMMA GrownTwice ==
    ASSUME NEW s, NEW t, NEW u, Grown(s, t), Grown(t, u) PROVE Grown(s, u)
BY DEF Grown

LEMMA NoneLeftKept ==
    ASSUME NEW s, NEW t, Kept(s, t), NEW nets, NEW I \in SUBSET Ifp,
           NoneLeft(s, nets, I)
    PROVE  NoneLeft(t, nets, I)
BY DEF Kept, NoneLeft, Matched

LEMMA TakenGrown ==
    ASSUME NEW s, NEW t, Taken(s), Grown(s, t), SameIds(s, t) PROVE Taken(t)
<1>1. Alive(t) = Alive(s) /\ Alive(s) \subseteq As
  BY AliveSame DEF Grown, Alive
<1> QED BY <1>1 DEF Grown, Taken, Matched, SameIds

InfoOf(a, p) == [NoInfo EXCEPT !.owner = a, !.address = p]

LEMMA InfoOfTyped ==
    ASSUME NEW a \in As, NEW p \in Addr
    PROVE  /\ InfoOf(a, p) \in InfoType
           /\ InfoOf(a, p).owner = a /\ InfoOf(a, p).address = p
<1>1. NoInfo \in InfoType
  BY DEF NoInfo, InfoType
<1>2. \A x \in InfoType : LET y == [x EXCEPT !.owner = a, !.address = p]
                         IN  y \in InfoType /\ y.owner = a /\ y.address = p
  BY DEF InfoType
<1> HIDE DEF NoInfo
<1> QED BY <1>1, <1>2 DEF InfoOf

\* The interfaces that eigrp_network_run_interface takes.
Wanted(s, nets, I) == {i \in I : Owner(s, i) = NoObject /\ Matched(s, i, nets) # {}}

\* u is s with the interfaces of T taken for instance a, but not brought up yet.
IsTaking(s, u, a, nets, T) ==
    /\ u \in State /\ u.daemon = s.daemon
    /\ \A i \in Ifp :
        /\ u.ifp[i].real = s.ifp[i].real /\ u.ifp[i].up = s.ifp[i].up
        /\ u.ifp[i].addrs = s.ifp[i].addrs
        /\ i \notin T => u.ifp[i].info = s.ifp[i].info
        /\ i \in T => Owner(u, i) = a /\ Info(u, i).address \in Matched(s, i, nets)
    /\ \A b \in As :
        /\ u.eigrp[b].alive = s.eigrp[b].alive /\ u.eigrp[b].older = s.eigrp[b].older
        /\ u.eigrp[b].entry = s.eigrp[b].entry
        /\ u.eigrp[b].rid = s.eigrp[b].rid /\ u.eigrp[b].static = s.eigrp[b].static
        /\ u.eigrp[b].networks = s.eigrp[b].networks
        /\ u.eigrp[b].redistributed = s.eigrp[b].redistributed
        /\ u.eigrp[b].redistribute = s.eigrp[b].redistribute
        /\ u.eigrp[b].table = s.eigrp[b].table
        /\ u.eigrp[b].eiflist = IF b = a THEN s.eigrp[a].eiflist \cup T
                                ELSE s.eigrp[b].eiflist

\* eigrp_network_run_interface takes them (eigrp_intf_new), then brings up those
\* whose link is up.
LEMMA NetworkTakes ==
    ASSUME NEW s \in State, NEW a \in As, NEW nets, NEW I \in SUBSET Ifp,
           NEW t, t = NetworkRunInterface(s, a, nets, I)
    PROVE  \E u : /\ IsTaking(s, u, a, nets, Wanted(s, nets, I))
                  /\ t = IntfUp(u, {i \in Wanted(s, nets, I) : s.ifp[i].up})
<1> DEFINE T == Wanted(s, nets, I)
           info(i) == [NoInfo EXCEPT !.owner = a,
                            !.address = CHOOSE p \in Matched(s, i, nets) : TRUE]
           f == [i \in Ifp |-> IF i \in T THEN [s.ifp[i] EXCEPT !.info = info(i)]
                               ELSE s.ifp[i]]
           mine == WithList(s.eigrp[a], s.eigrp[a].eiflist \cup T)
           g == [s.eigrp EXCEPT ![a] = mine]
           u == With(s, f, g)
<1>1. t = IntfUp(u, {i \in T : s.ifp[i].up})
  <2>1. u = [s EXCEPT !.ifp = f, !.eigrp = g]
    BY DEF With
  <2>2. u = [s EXCEPT !.ifp = f, !.eigrp[a].eiflist = @ \cup T]
    BY <2>1 DEF WithList
  <2> HIDE DEF u
  <2> QED BY <2>2 DEF NetworkRunInterface, Wanted
<1>2. \A i \in T : /\ info(i) \in InfoType /\ info(i).owner = a
                   /\ info(i).address \in Matched(s, i, nets)
  <2> SUFFICES ASSUME NEW i \in T
               PROVE  /\ info(i) \in InfoType /\ info(i).owner = a
                      /\ info(i).address \in Matched(s, i, nets)
    OBVIOUS
  <2> DEFINE p == CHOOSE p \in Matched(s, i, nets) : TRUE
  <2>1. p \in Matched(s, i, nets) /\ i \in Ifp
    BY DEF Wanted
  <2>2. Matched(s, i, nets) \subseteq Addr
    BY <2>1, Types DEF Matched
  <2>3. info(i) = InfoOf(a, p)
    BY DEF InfoOf
  <2> HIDE DEF p, info
  <2> QED BY <2>1, <2>2, <2>3, InfoOfTyped
<1>9. T \subseteq Ifp
  BY DEF Wanted
<1> HIDE DEF info, T
<1>3. \A i \in Ifp :
        /\ f[i] \in IfpType
        /\ f[i].real = s.ifp[i].real /\ f[i].up = s.ifp[i].up
        /\ f[i].addrs = s.ifp[i].addrs
        /\ f[i].info = IF i \in T THEN info(i) ELSE s.ifp[i].info
  <2> SUFFICES ASSUME NEW i \in Ifp
               PROVE  /\ f[i] \in IfpType
                      /\ f[i].real = s.ifp[i].real /\ f[i].up = s.ifp[i].up
                      /\ f[i].addrs = s.ifp[i].addrs
                      /\ f[i].info = IF i \in T THEN info(i) ELSE s.ifp[i].info
    OBVIOUS
  <2>1. CASE i \in T
    <3>1. f[i] = [s.ifp[i] EXCEPT !.info = info(i)]
      BY <2>1
    <3> HIDE DEF f
    <3> QED BY <1>2, <2>1, <3>1, InfoBuilt, Types
  <2>2. CASE i \notin T
    <3>1. f[i] = s.ifp[i]
      BY <2>2
    <3> HIDE DEF f
    <3> QED BY <2>2, <3>1, Types
  <2> QED BY <2>1, <2>2
<1>4. /\ mine \in InstanceType
      /\ mine.alive = s.eigrp[a].alive /\ mine.older = s.eigrp[a].older
      /\ mine.entry = s.eigrp[a].entry
      /\ mine.rid = s.eigrp[a].rid
      /\ mine.static = s.eigrp[a].static /\ mine.networks = s.eigrp[a].networks
      /\ mine.redistributed = s.eigrp[a].redistributed
      /\ mine.redistribute = s.eigrp[a].redistribute
      /\ mine.table = s.eigrp[a].table /\ mine.eiflist = s.eigrp[a].eiflist \cup T
  <2>1. s.eigrp[a] \in InstanceType /\ s.eigrp[a].eiflist \cup T \in SUBSET Ifp
    BY <1>9, Types DEF InstanceType
  <2> QED BY <2>1, ListBuilt
<1>5. f \in [Ifp -> IfpType] /\ g \in [As -> InstanceType]
  <2>1. s.eigrp \in [As -> InstanceType]
    BY Types
  <2> HIDE DEF mine
  <2> QED BY <1>3, <1>4, <2>1
<1>6. u \in State /\ u.ifp = f /\ u.eigrp = g /\ u.daemon = s.daemon
  <2> HIDE DEF f, g
  <2> QED BY <1>5, Built
<1>7. \A b \in As : g[b] = IF b = a THEN mine ELSE s.eigrp[b]
  BY Types
<1> HIDE DEF f, g, u, mine
<1>8. IsTaking(s, u, a, nets, T)
  BY <1>2, <1>3, <1>4, <1>6, <1>7 DEF IsTaking, Owner, Info
<1> QED BY <1>1, <1>8 DEF T

\* eigrp_network_run_interface: it takes what it can, and what it takes is
\* justified.
LEMMA NetworkRuns ==
    ASSUME NEW s, Base(s), NEW a \in Alive(s), NEW nets \in SUBSET s.eigrp[a].networks,
           NEW I \in SUBSET Ifp, NEW t, t = NetworkRunInterface(s, a, nets, I)
    PROVE  Base(t) /\ Grown(s, t) /\ SameIds(s, t) /\ NoneLeft(t, nets, I)
<1> DEFINE T == Wanted(s, nets, I)
<1>0. a \in As /\ s \in State /\ s.eigrp[a].alive /\ NoObject \notin As
  BY ConstantsAssumption DEF Alive, Base, Rest
<1>1. PICK u : IsTaking(s, u, a, nets, T) /\ t = IntfUp(u, {i \in T : s.ifp[i].up})
  <2>1. s \in State /\ a \in As
    BY <1>0
  <2> QED BY <2>1, NetworkTakes
<1>2. \A i \in I : Owner(s, i) = NoObject /\ i \notin T => Matched(s, i, nets) = {}
  BY DEF Wanted
<1>3. \A i \in T : i \in Ifp /\ Owner(s, i) = NoObject
  BY DEF Wanted
<1> HIDE DEF T
<1>8. Grown(s, u) /\ SameIds(s, u)
  BY <1>0, <1>1, <1>3 DEF IsTaking, Grown, SameIds, Owner
<1>9. Rest(u)
  <2>1. Alive(u) = Alive(s) /\ Alive(s) \subseteq As
    BY <1>8, AliveSame DEF Grown, Alive
  <2>2. Ordered(u)
    BY <1>8, <2>1 DEF Grown, Ordered, Base, Rest
  <2>3. Entered(u) /\ Addressed(u) /\ Counted(u)
    BY <1>8 DEF Grown, Entered, Addressed, Counted, Base, Rest
  <2> QED BY <1>1, <2>2, <2>3 DEF Rest, IsTaking
<1>10. Listed(u)
  <2> SUFFICES ASSUME NEW b \in As, NEW i \in u.eigrp[b].eiflist
               PROVE  ListedOK(u, b, i)
    BY DEF Listed
  <2>1. CASE b = a /\ i \in T
    <3>1. /\ i \in Ifp /\ Owner(u, i) = a /\ u.ifp[i].addrs = s.ifp[i].addrs
          /\ Info(u, i).address \in Matched(s, i, nets)
      BY <1>1, <1>3, <2>1 DEF IsTaking
    <3>2. /\ Info(u, i).address \in s.ifp[i].addrs
          /\ \E n \in nets : <<n, Info(u, i).address>> \in Covers
      BY <3>1 DEF Matched
    <3>3. u.eigrp[a].alive /\ u.eigrp[a].networks = s.eigrp[a].networks
      BY <1>0, <1>8 DEF Grown
    <3>4. s.ifp[i].addrs \subseteq Addr
      BY <1>0, <3>1, Types
    <3> QED BY <2>1, <3>1, <3>2, <3>3, <3>4 DEF ListedOK
  <2>2. CASE ~ (b = a /\ i \in T)
    <3>1. i \in s.eigrp[b].eiflist
      BY <1>1, <2>2 DEF IsTaking
    <3>2. ListedOK(s, b, i) /\ i \in Ifp
      BY <1>0, <3>1, Types DEF Base, Listed, InstanceType
    <3>3. i \notin T
      BY <1>0, <1>3, <3>2 DEF ListedOK
    <3>4. u.ifp[i].info = s.ifp[i].info /\ u.ifp[i].addrs = s.ifp[i].addrs
      BY <1>1, <3>2, <3>3 DEF IsTaking
    <3> QED BY <1>8, <3>2, <3>4 DEF Grown, ListedOK, Owner, Info
  <2> QED BY <2>1, <2>2
<1>11. NoneLeft(u, nets, I)
  <2> SUFFICES ASSUME NEW i \in I, Owner(u, i) = NoObject
               PROVE  Matched(u, i, nets) = {}
    BY DEF NoneLeft
  <2>1. i \notin T
    BY <1>0, <1>1, <1>3 DEF IsTaking
  <2>2. Owner(s, i) = NoObject /\ u.ifp[i].addrs = s.ifp[i].addrs
    BY <1>1, <2>1 DEF IsTaking, Owner
  <2> QED BY <1>2, <2>1, <2>2 DEF Matched
<1>12. u \in State /\ Kept(u, t)
  BY <1>1, IntfUpKeeps DEF IsTaking
<1>13. Base(t)
  BY <1>9, <1>10, <1>12, KeptRest, KeptListed DEF Base
<1>14. Grown(s, t) /\ SameIds(s, t)
  BY <1>8, <1>12, KeptIsGrown, GrownTwice DEF SameIds
<1> QED BY <1>11, <1>12, <1>13, <1>14, NoneLeftKept

\* A state with another instance of number a, and an instance with other fields.
WithInstance(s, a, e) == [s EXCEPT !.eigrp[a] = e]

LEMMA InstanceBuilt ==
    ASSUME NEW s \in State, NEW a \in As, NEW e \in InstanceType
    PROVE  LET t == WithInstance(s, a, e)
           IN  /\ t \in State /\ t.ifp = s.ifp /\ t.daemon = s.daemon
               /\ \A b \in As : t.eigrp[b] = IF b = a THEN e ELSE s.eigrp[b]
BY DEF State, WithInstance

WithRid(e, x) == [e EXCEPT !.rid = x]

LEMMA RidBuilt ==
    ASSUME NEW e \in InstanceType, NEW x \in RouterId
    PROVE  LET u == WithRid(e, x)
           IN  /\ u \in InstanceType /\ u.rid = x
               /\ u.alive = e.alive /\ u.entry = e.entry /\ u.older = e.older
               /\ u.static = e.static /\ u.networks = e.networks /\ u.eiflist = e.eiflist
               /\ u.redistributed = e.redistributed /\ u.redistribute = e.redistribute
               /\ u.table = e.table
BY DEF InstanceType, WithRid

WithStatic(e, x) == [e EXCEPT !.static = x]

LEMMA StaticBuilt ==
    ASSUME NEW e \in InstanceType, NEW x \in RouterId
    PROVE  LET u == WithStatic(e, x)
           IN  /\ u \in InstanceType /\ u.static = x
               /\ u.alive = e.alive /\ u.entry = e.entry /\ u.older = e.older
               /\ u.rid = e.rid /\ u.networks = e.networks /\ u.eiflist = e.eiflist
               /\ u.redistributed = e.redistributed /\ u.redistribute = e.redistribute
               /\ u.table = e.table
BY DEF InstanceType, WithStatic

WithNetworks(e, x) == [e EXCEPT !.networks = x]

LEMMA NetworksBuilt ==
    ASSUME NEW e \in InstanceType, NEW x \in SUBSET Net
    PROVE  LET u == WithNetworks(e, x)
           IN  /\ u \in InstanceType /\ u.networks = x
               /\ u.alive = e.alive /\ u.entry = e.entry /\ u.older = e.older
               /\ u.rid = e.rid /\ u.static = e.static /\ u.eiflist = e.eiflist
               /\ u.redistributed = e.redistributed /\ u.redistribute = e.redistribute
               /\ u.table = e.table
BY DEF InstanceType, WithNetworks

WithEntry(e, x) == [e EXCEPT !.entry = x]

LEMMA EntryBuilt ==
    ASSUME NEW e \in InstanceType, NEW x \in BOOLEAN
    PROVE  LET u == WithEntry(e, x)
           IN  /\ u \in InstanceType /\ u.entry = x
               /\ u.alive = e.alive /\ u.older = e.older
               /\ u.rid = e.rid
               /\ u.static = e.static /\ u.networks = e.networks /\ u.eiflist = e.eiflist
               /\ u.redistributed = e.redistributed /\ u.redistribute = e.redistribute
               /\ u.table = e.table
BY DEF InstanceType, WithEntry


WithOlder(e, x) == [e EXCEPT !.older = x]

LEMMA OlderBuilt ==
    ASSUME NEW e \in InstanceType, NEW x \in SUBSET As
    PROVE  LET u == WithOlder(e, x)
           IN  /\ u \in InstanceType /\ u.older = x
               /\ u.alive = e.alive /\ u.entry = e.entry /\ u.rid = e.rid
               /\ u.static = e.static /\ u.networks = e.networks /\ u.eiflist = e.eiflist
               /\ u.redistributed = e.redistributed /\ u.redistribute = e.redistribute
               /\ u.table = e.table
BY DEF InstanceType, WithOlder

LEMMA GrownSelf == ASSUME NEW s \in State PROVE Grown(s, s) /\ SameIds(s, s)
BY DEF Grown, SameIds

\* eigrp_intf_update
LEMMA IntfUpdates ==
    ASSUME NEW s, Base(s), NEW a \in Alive(s), NEW I \in SUBSET Ifp,
           NEW t, t = IntfUpdate(s, a, I)
    PROVE  /\ Base(t) /\ Grown(s, t) /\ SameIds(s, t)
           /\ s.eigrp[a].rid # Unset => NoneLeft(t, s.eigrp[a].networks, I)
<1>1. CASE s.eigrp[a].rid = Unset
  <2>1. t = s
    BY <1>1 DEF IntfUpdate
  <2> QED BY <1>1, <2>1, GrownSelf DEF Base, Rest
<1>2. CASE s.eigrp[a].rid # Unset
  <2>1. t = NetworkRunInterface(s, a, s.eigrp[a].networks, I)
    BY <1>2 DEF IntfUpdate
  <2> QED BY <2>1, NetworkRuns
<1> QED BY <1>1, <1>2

\* A new router id keeps all but Taken.
LEMMA RidKeeps ==
    ASSUME NEW s, Base(s), NEW a \in As, NEW id \in RouterId,
           NEW t, t = WithInstance(s, a, WithRid(s.eigrp[a], id))
    PROVE  /\ Base(t) /\ Grown(s, t) /\ t.ifp = s.ifp /\ t.eigrp[a].rid = id
           /\ \A b \in As \ {a} : t.eigrp[b] = s.eigrp[b]
<1> DEFINE e == WithRid(s.eigrp[a], id)
<1>1. s \in State /\ s.eigrp[a] \in InstanceType
  BY Types DEF Base, Rest
<1>2. /\ e \in InstanceType /\ e.rid = id
      /\ e.alive = s.eigrp[a].alive /\ e.older = s.eigrp[a].older
      /\ e.entry = s.eigrp[a].entry
      /\ e.static = s.eigrp[a].static /\ e.networks = s.eigrp[a].networks
      /\ e.eiflist = s.eigrp[a].eiflist
      /\ e.redistributed = s.eigrp[a].redistributed
      /\ e.redistribute = s.eigrp[a].redistribute
  BY <1>1, RidBuilt
<1> HIDE DEF e
<1>3. /\ t \in State /\ t.ifp = s.ifp /\ t.daemon = s.daemon
      /\ \A b \in As : t.eigrp[b] = IF b = a THEN e ELSE s.eigrp[b]
  BY <1>1, <1>2, InstanceBuilt DEF e
<1>4. Grown(s, t)
  BY <1>2, <1>3 DEF Grown, Owner
<1>5. \A b \in As : t.eigrp[b].eiflist = s.eigrp[b].eiflist
  BY <1>2, <1>3
<1>6. Rest(t)
  <2>1. Alive(t) = Alive(s) /\ Alive(s) \subseteq As
    BY <1>4, AliveSame DEF Grown, Alive
  <2>2. Ordered(t)
    BY <1>4, <2>1 DEF Grown, Ordered, Base, Rest
  <2>3. Entered(t) /\ Addressed(t) /\ Counted(t)
    BY <1>4 DEF Grown, Entered, Addressed, Counted, Base, Rest
  <2> QED BY <1>3, <2>2, <2>3 DEF Rest
<1>7. Listed(t)
  BY <1>3, <1>4, <1>5 DEF Base, Listed, ListedOK, Grown, Owner, Info
<1> QED BY <1>2, <1>3, <1>4, <1>6, <1>7 DEF Base


\* eigrp_router_id_update
LEMMA RouterIdUpdates ==
    ASSUME NEW s, Sound(s), NEW a \in Alive(s), NEW t, t = RouterIdUpdate(s, a)
    PROVE  /\ Sound(t) /\ Grown(s, t) /\ Sticky(s, t)
           /\ \A b \in As \ {a} : t.eigrp[b].rid = s.eigrp[b].rid
<1> DEFINE old == s.eigrp[a].rid
           new == IF s.eigrp[a].static # Unset THEN s.eigrp[a].static
                  ELSE IF old # Unset THEN old ELSE s.daemon.zebraId
           u == WithInstance(s, a, WithRid(s.eigrp[a], new))
<1>0. /\ a \in As /\ s \in State /\ Base(s) /\ s.eigrp[a] \in InstanceType
      /\ Alive(s) \subseteq As
  BY Types DEF Alive, Sound, Base, Rest
<1>1. new \in RouterId
  <2>1. s.daemon.zebraId \in RouterId
    BY <1>0, Types DEF DaemonType
  <2> QED BY <1>0, <2>1 DEF InstanceType
<1>2. t = IF new = old THEN u ELSE IntfUpdate(u, a, Ifp)
  BY DEF RouterIdUpdate, WithInstance, WithRid
<1>3. old # Unset => new \in {old, s.eigrp[a].static}
  OBVIOUS
<1> HIDE DEF new, u
<1>4. /\ Base(u) /\ Grown(s, u) /\ u.ifp = s.ifp /\ u.eigrp[a].rid = new
      /\ \A b \in As \ {a} : u.eigrp[b] = s.eigrp[b]
  BY <1>0, <1>1, RidKeeps DEF u
<1>5. Alive(u) = Alive(s)
  BY <1>4, AliveSame DEF Grown
<1>6. CASE new = old
  <2>1. t = u /\ SameIds(s, t)
    BY <1>2, <1>4, <1>6 DEF SameIds
  <2>2. Taken(t) /\ Sticky(s, t)
    BY <1>4, <2>1, TakenGrown DEF Sound, SameIds, Sticky
  <2> QED BY <1>4, <2>1, <2>2 DEF Sound
<1>7. CASE new # old
  <2>1. t = IntfUpdate(u, a, Ifp)
    BY <1>2, <1>7
  <2>2. /\ Base(t) /\ Grown(u, t) /\ SameIds(u, t)
        /\ new # Unset => NoneLeft(t, u.eigrp[a].networks, Ifp)
    <3>1. a \in Alive(u)
      BY <1>5
    <3> QED BY <1>4, <2>1, <3>1, IntfUpdates
  <2>3. Grown(s, t)
    BY <1>4, <2>2, GrownTwice
  <2>4. Alive(t) = Alive(s)
    BY <2>3, AliveSame DEF Grown
  <2>5. ASSUME NEW b \in Alive(t), NEW i \in Ifp, t.eigrp[b].rid # Unset,
               Owner(t, i) = NoObject
        PROVE  Matched(t, i, t.eigrp[b].networks) = {}
    <3>1. CASE b = a
      <4>1. new # Unset /\ t.eigrp[a].networks = u.eigrp[a].networks
        BY <1>0, <1>4, <2>2, <2>5, <3>1 DEF SameIds, Grown
      <4> QED BY <2>2, <2>5, <3>1, <4>1 DEF NoneLeft
    <3>2. CASE b # a
      <4>1. b \in As /\ b \in Alive(s)
        BY <1>0, <2>4
      <4>2. s.eigrp[b].rid # Unset /\ Owner(s, i) = NoObject
            /\ t.eigrp[b].networks = s.eigrp[b].networks
            /\ t.ifp[i].addrs = s.ifp[i].addrs
        BY <1>4, <2>2, <2>3, <2>5, <3>2, <4>1 DEF SameIds, Grown
      <4>3. Matched(s, i, s.eigrp[b].networks) = {}
        BY <4>1, <4>2 DEF Sound, Taken
      <4> QED BY <4>2, <4>3 DEF Matched
    <3> QED BY <3>1, <3>2
  <2>6. Taken(t)
    BY <2>5 DEF Taken
  <2>7. Sticky(s, t) /\ \A b \in As \ {a} : t.eigrp[b].rid = s.eigrp[b].rid
    BY <1>3, <1>4, <2>2 DEF Sticky, SameIds
  <2> QED BY <2>2, <2>3, <2>6, <2>7 DEF Sound
<1> QED BY <1>6, <1>7

\* eigrp_network_set
LEMMA NetworkSets ==
    ASSUME NEW s, Sound(s), NEW a \in Alive(s), NEW n \in Net,
           NEW v, v = NetworkSet(s, a, n)
    PROVE  Sound(v) /\ Sticky(s, v)
<1> DEFINE nets == s.eigrp[a].networks \cup {n}
           e == WithNetworks(s.eigrp[a], nets)
           t == WithInstance(s, a, e)
           u == IF t.eigrp[a].rid = Unset THEN RouterIdUpdate(t, a) ELSE t
<1>0. /\ a \in As /\ s \in State /\ Base(s) /\ s.eigrp[a] \in InstanceType
      /\ Alive(s) \subseteq As /\ nets \in SUBSET Net
  <2>1. a \in As /\ s \in State /\ Base(s) /\ Alive(s) \subseteq As
    BY DEF Alive, Sound, Base, Rest
  <2> QED BY <2>1, Types DEF InstanceType
<1>1. v = NetworkRunInterface(u, a, {n}, Ifp)
  BY DEF NetworkSet, WithInstance, WithNetworks
<1> HIDE DEF nets
<1>2. /\ e \in InstanceType /\ e.networks = nets
      /\ e.alive = s.eigrp[a].alive /\ e.older = s.eigrp[a].older
      /\ e.entry = s.eigrp[a].entry
      /\ e.rid = s.eigrp[a].rid
      /\ e.static = s.eigrp[a].static /\ e.eiflist = s.eigrp[a].eiflist
      /\ e.redistributed = s.eigrp[a].redistributed
      /\ e.redistribute = s.eigrp[a].redistribute
  BY <1>0, NetworksBuilt
<1> HIDE DEF e
<1>3. /\ t \in State /\ t.ifp = s.ifp /\ t.daemon = s.daemon
      /\ \A b \in As : t.eigrp[b] = IF b = a THEN e ELSE s.eigrp[b]
  BY <1>0, <1>2, InstanceBuilt
<1> HIDE DEF t
<1>4. Alive(t) = Alive(s)
  BY <1>2, <1>3, AliveSame
<1>5. Rest(t)
  <2>1. Ordered(t)
    BY <1>0, <1>2, <1>3, <1>4 DEF Ordered, Base, Rest
  <2>2. Entered(t) /\ Addressed(t)
    BY <1>0, <1>2, <1>3 DEF Entered, Addressed, Base, Rest
  <2>3. Counted(t)
    BY <1>0, <1>2, <1>3 DEF Counted, Base, Rest
  <2> QED BY <1>3, <2>1, <2>2, <2>3 DEF Rest
<1>6. Listed(t)
  <2>1. \A b \in As : t.eigrp[b].eiflist = s.eigrp[b].eiflist
        /\ t.eigrp[b].alive = s.eigrp[b].alive
        /\ s.eigrp[b].networks \subseteq t.eigrp[b].networks
    BY <1>2, <1>3 DEF nets
  <2> SUFFICES ASSUME NEW b \in As, NEW i \in t.eigrp[b].eiflist
               PROVE  ListedOK(t, b, i)
    BY DEF Listed
  <2>2. ListedOK(s, b, i)
    BY <1>0, <2>1 DEF Base, Listed
  <2> QED BY <1>3, <2>1, <2>2 DEF ListedOK, Owner, Info
<1>7. Base(t) /\ SameIds(s, t)
  BY <1>2, <1>3, <1>5, <1>6 DEF Base, SameIds
\* Nothing matches but for the new network.
<1>8. \A b \in Alive(s), i \in Ifp :
        s.eigrp[b].rid # Unset /\ Owner(t, i) = NoObject =>
            Matched(t, i, s.eigrp[b].networks) = {}
  BY <1>3 DEF Sound, Taken, Matched, Owner
<1>9. \A b \in Alive(s) \ {a} : t.eigrp[b] = s.eigrp[b]
  BY <1>0, <1>3
<1>10. CASE t.eigrp[a].rid = Unset
  <2>1. Taken(t)
    BY <1>4, <1>8, <1>9, <1>10 DEF Taken
  <2>2. u = RouterIdUpdate(t, a) /\ Sound(t) /\ a \in Alive(t)
    BY <1>4, <1>7, <1>10, <2>1 DEF Sound
  <2> HIDE DEF u
  <2>3. Sound(u) /\ Grown(t, u) /\ \A b \in As \ {a} : u.eigrp[b].rid = t.eigrp[b].rid
    BY <2>2, RouterIdUpdates
  <2>4. Alive(u) = Alive(t) /\ u.eigrp[a].networks = nets
    BY <1>0, <1>2, <1>3, <2>3, AliveSame DEF Grown
  <2>5. Base(v) /\ Grown(u, v) /\ SameIds(u, v)
    <3>1. Base(u) /\ a \in Alive(u) /\ {n} \in SUBSET u.eigrp[a].networks
      BY <2>2, <2>3, <2>4 DEF Sound, nets
    <3> QED BY <1>1, <3>1, NetworkRuns
  <2>6. Taken(v)
    BY <2>3, <2>5, TakenGrown DEF Sound
  <2>7. Sticky(s, v)
    BY <1>7, <1>10, <2>3, <2>5 DEF Sticky, SameIds
  <2> QED BY <2>5, <2>6, <2>7 DEF Sound
<1>11. CASE t.eigrp[a].rid # Unset
  <2>1. u = t /\ a \in Alive(t) /\ {n} \in SUBSET t.eigrp[a].networks
    BY <1>0, <1>2, <1>3, <1>4, <1>11 DEF nets
  <2> HIDE DEF u
  <2>2. Base(v) /\ Grown(t, v) /\ SameIds(t, v) /\ NoneLeft(v, {n}, Ifp)
    BY <1>1, <1>7, <2>1, NetworkRuns
  <2>3. Alive(v) = Alive(s)
    BY <1>4, <2>2, AliveSame DEF Grown
  <2>4. ASSUME NEW b \in Alive(v), NEW i \in Ifp, v.eigrp[b].rid # Unset,
               Owner(v, i) = NoObject
        PROVE  Matched(v, i, v.eigrp[b].networks) = {}
    <3>1. b \in Alive(s) /\ b \in As
      BY <1>0, <2>3
    <3>2. /\ s.eigrp[b].rid # Unset /\ Owner(t, i) = NoObject
          /\ v.eigrp[b].networks = t.eigrp[b].networks
          /\ v.ifp[i].addrs = t.ifp[i].addrs
      BY <1>7, <2>2, <2>4, <3>1 DEF SameIds, Grown
    <3>3. Matched(v, i, s.eigrp[b].networks) = {}
      BY <1>8, <3>1, <3>2 DEF Matched
    <3>4. CASE b = a
      <4>1. v.eigrp[b].networks = s.eigrp[b].networks \cup {n}
        BY <1>0, <1>2, <1>3, <3>2, <3>4 DEF nets
      <4>2. Matched(v, i, {n}) = {}
        BY <2>2, <2>4 DEF NoneLeft
      <4> QED BY <3>3, <4>1, <4>2 DEF Matched
    <3>5. CASE b # a
      BY <1>9, <3>1, <3>2, <3>3, <3>5
    <3> QED BY <3>4, <3>5
  <2>5. Taken(v)
    BY <2>4 DEF Taken
  <2>6. Sticky(s, v)
    BY <1>7, <2>2 DEF Sticky, SameIds
  <2> QED BY <2>2, <2>5, <2>6 DEF Sound
<1> QED BY <1>10, <1>11


\* The process without memory.
LEMMA BlankTyped ==
    /\ Blank \in InstanceType /\ NoIfp \in IfpType /\ NoInfo \in InfoType
    /\ ~ Blank.alive /\ ~ Blank.entry /\ Blank.older = {} /\ Blank.eiflist = {} /\ Blank.rid = Unset
    /\ Blank.redistributed = {} /\ Blank.redistribute = 0 /\ Blank.networks = {}
    /\ NoIfp.addrs = {} /\ NoIfp.info.owner = NoObject
BY DEF Blank, InstanceType, NoIfp, NoInfo, IfpType, InfoType, RouterId

LEMMA BlankSound ==
    ASSUME NEW t \in State, \A i \in Ifp : t.ifp[i] = NoIfp, \A a \in As : t.eigrp[a] = Blank
    PROVE  Sound(t)
<1>1. Alive(t) = {}
  BY BlankTyped DEF Alive
<1>2. Cardinality({}) = 0
  BY FS_EmptySet
<1>3. Ordered(t) /\ Entered(t) /\ Addressed(t) /\ Listed(t) /\ Taken(t)
  BY <1>1, BlankTyped DEF Ordered, Entered, Addressed, Listed, Taken
<1>4. Counted(t)
  BY <1>2, BlankTyped DEF Counted
<1> QED BY <1>3, <1>4 DEF Sound, Base, Rest

LEMMA GoneSound ==
    ASSUME NEW s, NEW why \in {"stopped", "crashed"}
    PROVE  Sound(Gone(why)) /\ Sticky(s, Gone(why)) /\ Sound(Fresh)
<1> DEFINE d == [state |-> "running", zebraId |-> Unset, redist |-> {},
                 loose |-> FALSE]
           g == [d EXCEPT !.state = why]
<1>1. d \in DaemonType /\ g \in DaemonType
  BY DEF DaemonType, RouterId
<1>2. [i \in Ifp |-> NoIfp] \in [Ifp -> IfpType] /\ [a \in As |-> Blank] \in [As -> InstanceType]
  BY BlankTyped
<1>3. Fresh = [ifp |-> [i \in Ifp |-> NoIfp], eigrp |-> [a \in As |-> Blank], daemon |-> d]
  BY DEF Fresh
<1>4. Gone(why) = [ifp |-> [i \in Ifp |-> NoIfp], eigrp |-> [a \in As |-> Blank], daemon |-> g]
  <2>1. Gone(why) = [Fresh EXCEPT !.daemon = g]
    BY <1>3 DEF Gone
  <2> QED BY <2>1, <1>3
<1> HIDE DEF d, g
<1>5. Fresh \in State /\ Gone(why) \in State
  BY <1>1, <1>2, <1>3, <1>4 DEF State
<1>6. Sound(Fresh) /\ Sound(Gone(why))
  BY <1>3, <1>4, <1>5, BlankSound
<1>7. \A a \in As : ~ Gone(why).eigrp[a].alive
  BY <1>4, BlankTyped
<1> QED BY <1>6, <1>7 DEF Sticky

\* eigrp_network_unset: the interfaces that stay are matched by another network.
LEMMA NetworkUnsets ==
    ASSUME NEW s, Sound(s), NEW a \in Alive(s), NEW n \in Net,
           NEW v, v = NetworkUnset(s, a, n)
    PROVE  Sound(v) /\ Sticky(s, v)
<1> DEFINE nets == s.eigrp[a].networks \ {n}
           e == WithNetworks(s.eigrp[a], nets)
           t == WithInstance(s, a, e)
           gone == Unmatched(s, a, n)
<1>20. CASE \E i \in gone : ~ Info(s, i).obuf
  BY <1>20, GoneSound DEF NetworkUnset
<1> SUFFICES ASSUME ~ \E i \in gone : ~ Info(s, i).obuf
             PROVE  Sound(v) /\ Sticky(s, v)
  BY <1>20
<1>0. /\ a \in As /\ s \in State /\ Base(s) /\ s.eigrp[a] \in InstanceType
      /\ Alive(s) \subseteq As /\ nets \in SUBSET Net
  <2>1. a \in As /\ s \in State /\ Base(s) /\ Alive(s) \subseteq As
    BY DEF Alive, Sound, Base, Rest
  <2> QED BY <2>1, Types DEF InstanceType
<1>1. v = IntfFree(t, gone)
  BY DEF NetworkUnset, WithInstance, WithNetworks
<1> HIDE DEF nets
<1>2. /\ e \in InstanceType /\ e.networks = nets
      /\ e.alive = s.eigrp[a].alive /\ e.older = s.eigrp[a].older
      /\ e.entry = s.eigrp[a].entry
      /\ e.rid = s.eigrp[a].rid
      /\ e.static = s.eigrp[a].static /\ e.eiflist = s.eigrp[a].eiflist
      /\ e.redistributed = s.eigrp[a].redistributed
      /\ e.redistribute = s.eigrp[a].redistribute
  BY <1>0, NetworksBuilt
<1> HIDE DEF e
<1>3. /\ t \in State /\ t.ifp = s.ifp /\ t.daemon = s.daemon
      /\ \A b \in As : t.eigrp[b] = IF b = a THEN e ELSE s.eigrp[b]
  BY <1>0, <1>2, InstanceBuilt
<1> HIDE DEF t
<1>4. Alive(t) = Alive(s)
  BY <1>2, <1>3, AliveSame
<1>5. Rest(t)
  <2>1. Ordered(t)
    BY <1>0, <1>2, <1>3, <1>4 DEF Ordered, Base, Rest
  <2>2. Entered(t) /\ Addressed(t)
    BY <1>0, <1>2, <1>3 DEF Entered, Addressed, Base, Rest
  <2>3. Counted(t)
    BY <1>0, <1>2, <1>3 DEF Counted, Base, Rest
  <2> QED BY <1>3, <2>1, <2>2, <2>3 DEF Rest
<1>6. Taken(t) /\ Sticky(s, t) /\ SameIds(s, t)
  <2>1. /\ SameIds(s, t)
        /\ \A b \in As : t.eigrp[b].networks \subseteq s.eigrp[b].networks
    BY <1>2, <1>3 DEF SameIds, nets
  <2>2. Taken(t)
    BY <1>0, <1>3, <1>4, <2>1 DEF SameIds, Sound, Taken, Matched, Owner
  <2> QED BY <2>1, <2>2 DEF SameIds, Sticky
<1> HIDE DEF gone
<1>7. /\ Kept(t, v)
      /\ \A b \in As : v.eigrp[b].eiflist =
            t.eigrp[b].eiflist \ {i \in gone : Owner(t, i) = b}
  BY <1>1, <1>3, IntfFreeKeeps
<1>8. Listed(v)
  <2> SUFFICES ASSUME NEW b \in As, NEW i \in v.eigrp[b].eiflist
               PROVE  ListedOK(v, b, i)
    BY DEF Listed
  <2>1. i \in t.eigrp[b].eiflist /\ ~ (i \in gone /\ Owner(t, i) = b)
    BY <1>7
  <2>2. i \in s.eigrp[b].eiflist
    BY <1>2, <1>3, <2>1
  <2>3. ListedOK(s, b, i) /\ i \in Ifp
    BY <1>0, <2>2, Types DEF Base, Listed, InstanceType
  <2>4. Owner(t, i) = b /\ Info(t, i) = Info(s, i) /\ t.ifp[i].addrs = s.ifp[i].addrs
    BY <1>3, <2>3 DEF ListedOK, Owner, Info
  <2>5. \E m \in t.eigrp[b].networks : <<m, Info(t, i).address>> \in Covers
    <3>1. CASE b = a
      BY <1>2, <1>3, <2>1, <2>2, <2>4, <3>1 DEF gone, nets, Unmatched
    <3>2. CASE b # a
      BY <1>3, <2>3, <2>4, <3>2 DEF ListedOK
    <3> QED BY <3>1, <3>2
  <2>6. t.eigrp[b].alive
    BY <1>2, <1>3, <2>3 DEF ListedOK
  <2>7. ListedOK(t, b, i)
    BY <2>3, <2>4, <2>5, <2>6 DEF ListedOK
  <2> QED BY <1>7, <2>3, <2>7 DEF Kept, ListedOK
<1>9. Rest(v) /\ Taken(v) /\ SameIds(t, v)
  BY <1>5, <1>6, <1>7, KeptRest, KeptTaken, KeptIsGrown
<1>10. Sticky(s, v)
  BY <1>6, <1>9 DEF Sticky, SameIds
<1> QED BY <1>8, <1>9, <1>10 DEF Sound, Base


\* A state that differs from s in HELLO timers, neighbours, links, entries,
\* configured router ids and what zebra announced as one.
Quiet(s, t) ==
    /\ t \in State /\ t.daemon.redist = s.daemon.redist
    /\ \A i \in Ifp :
        /\ t.ifp[i].addrs = s.ifp[i].addrs
        /\ s.ifp[i].real => t.ifp[i].real \/ t.ifp[i].addrs = {}
        /\ Owner(t, i) = Owner(s, i) /\ Info(t, i).address = Info(s, i).address
    /\ \A a \in As :
        /\ t.eigrp[a].alive = s.eigrp[a].alive /\ t.eigrp[a].older = s.eigrp[a].older
        /\ (t.eigrp[a].entry => t.eigrp[a].alive)
        /\ t.eigrp[a].rid = s.eigrp[a].rid /\ t.eigrp[a].networks = s.eigrp[a].networks
        /\ t.eigrp[a].redistributed = s.eigrp[a].redistributed
        /\ t.eigrp[a].redistribute = s.eigrp[a].redistribute
        /\ t.eigrp[a].eiflist = s.eigrp[a].eiflist

LEMMA QuietSound ==
    ASSUME NEW s, NEW t, Sound(s), Quiet(s, t) PROVE Sound(t) /\ Sticky(s, t)
<1>1. Alive(t) = Alive(s) /\ Alive(s) \subseteq As
  BY AliveSame DEF Quiet, Alive
<1>2. Rest(t)
  <2>1. Ordered(t)
    BY <1>1 DEF Quiet, Ordered, Sound, Base, Rest
  <2>2. Entered(t) /\ Addressed(t) /\ Counted(t)
    BY DEF Quiet, Entered, Addressed, Counted, Sound, Base, Rest
  <2> QED BY <2>1, <2>2 DEF Quiet, Rest
<1>3. Listed(t)
  <2> SUFFICES ASSUME NEW a \in As, NEW i \in t.eigrp[a].eiflist
               PROVE  ListedOK(t, a, i)
    BY DEF Listed
  <2>1. i \in s.eigrp[a].eiflist /\ ListedOK(s, a, i)
    BY DEF Quiet, Listed, Sound, Base
  <2>2. i \in Ifp
    BY <2>1, Types DEF InstanceType, Sound, Base, Rest
  <2> QED BY <2>1, <2>2 DEF Quiet, ListedOK
<1>4. Taken(t)
  BY <1>1 DEF Quiet, Taken, Sound, Matched
<1>5. Sticky(s, t)
  BY DEF Quiet, Sticky
<1> QED BY <1>2, <1>3, <1>4, <1>5 DEF Sound, Base

\* eigrp_get
LEMMA Gets ==
    ASSUME NEW s, Sound(s), NEW a \in As, NEW t, t = Get(s, a)
    PROVE  /\ Sound(t) /\ a \in Alive(t)
           /\ \A b \in Alive(s) : t.eigrp[b] = s.eigrp[b] /\ b \in Alive(t)
<1>0. s \in State /\ Alive(s) \subseteq As
  BY DEF Sound, Base, Rest, Alive
<1>1. CASE s.eigrp[a].alive
  BY <1>1 DEF Get, Alive
<1>2. CASE ~ s.eigrp[a].alive
  <2> DEFINE e == [Blank EXCEPT !.alive = TRUE, !.older = Alive(s)]
  <2>1. /\ e \in InstanceType /\ e.alive /\ e.older = Alive(s) /\ e.eiflist = {}
        /\ e.rid = Unset /\ e.redistributed = {} /\ e.redistribute = 0
    <3>1. \A x \in InstanceType, o \in SUBSET As :
            LET y == [x EXCEPT !.alive = TRUE, !.older = o]
            IN  /\ y \in InstanceType /\ y.alive /\ y.older = o /\ y.eiflist = x.eiflist
                /\ y.rid = x.rid /\ y.redistributed = x.redistributed
                /\ y.redistribute = x.redistribute
      BY DEF InstanceType
    <3> QED BY <1>0, <3>1, BlankTyped
  <2>2. t = WithInstance(s, a, e)
    BY <1>2 DEF Get, WithInstance
  <2> HIDE DEF e
  <2>3. /\ t \in State /\ t.ifp = s.ifp /\ t.daemon = s.daemon
        /\ \A b \in As : t.eigrp[b] = IF b = a THEN e ELSE s.eigrp[b]
    BY <1>0, <2>1, <2>2, InstanceBuilt
  <2>4. Alive(t) = Alive(s) \cup {a} /\ a \notin Alive(s)
    BY <1>2, <2>1, <2>3 DEF Alive
  <2>5. Ordered(t)
    BY <1>0, <2>1, <2>3, <2>4 DEF Ordered, Sound, Base, Rest
  <2>6. Entered(t) /\ Addressed(t)
    BY <2>1, <2>3 DEF Entered, Addressed, Sound, Base, Rest
  <2>7. Counted(t)
    BY <2>1, <2>3, FS_EmptySet DEF Counted, Sound, Base, Rest
  <2>8. Listed(t)
    <3> SUFFICES ASSUME NEW b \in As, NEW i \in t.eigrp[b].eiflist
                 PROVE  ListedOK(t, b, i)
      BY DEF Listed
    <3>1. b # a /\ t.eigrp[b] = s.eigrp[b]
      BY <2>1, <2>3
    <3>2. ListedOK(s, b, i)
      BY <3>1 DEF Sound, Base, Listed
    <3> QED BY <2>3, <3>1, <3>2 DEF ListedOK, Owner, Info
  <2>9. Taken(t)
    <3> SUFFICES ASSUME NEW b \in Alive(t), NEW i \in Ifp, t.eigrp[b].rid # Unset,
                        Owner(t, i) = NoObject
                 PROVE  Matched(t, i, t.eigrp[b].networks) = {}
      BY DEF Taken
    <3>1. b \in Alive(s) /\ t.eigrp[b] = s.eigrp[b]
      BY <1>0, <2>1, <2>3, <2>4
    <3> QED BY <2>3, <3>1 DEF Sound, Taken, Matched, Owner
  <2>10. \A b \in Alive(s) : t.eigrp[b] = s.eigrp[b] /\ b \in Alive(t)
    BY <1>0, <2>3, <2>4
  <2> QED BY <2>3, <2>4, <2>5, <2>6, <2>7, <2>8, <2>9, <2>10 DEF Sound, Base, Rest
<1> QED BY <1>1, <1>2


\* eigrp_finish_final: the instance's interfaces are orphans, and orphans are
\* on no list.
LEMMA Finishes ==
    ASSUME NEW s, Sound(s), NEW a \in As, NEW v, v = Finish(s, a)
    PROVE  Sound(v) /\ \A b \in As : v.eigrp[b].rid = s.eigrp[b].rid \/ ~ v.eigrp[b].alive
<1> DEFINE t == IntfFree(s, s.eigrp[a].eiflist)
           f == [i \in Ifp |-> IF Owner(s, i) = a
                               THEN [t.ifp[i] EXCEPT !.info.owner = Freed]
                               ELSE t.ifp[i]]
           g == [b \in As |-> IF b = a THEN Blank
                              ELSE WithOlder(t.eigrp[b], t.eigrp[b].older \ {a})]
<1>0. /\ s \in State /\ Alive(s) \subseteq As /\ Freed \notin As /\ Freed # NoObject
      /\ NoObject \notin As
  BY ConstantsAssumption DEF Sound, Base, Rest, Alive
<1>1. v = With(t, f, g)
  <2> HIDE DEF t
  <2> SUFFICES v = [t EXCEPT !.ifp = f, !.eigrp = g]
    BY DEF With
  <2> QED BY DEF Finish, WithOlder, t
<1>2. /\ Kept(s, t) /\ Sound(t) /\ t \in State
      /\ \A b \in As : t.eigrp[b].eiflist =
            s.eigrp[b].eiflist \ {i \in s.eigrp[a].eiflist : Owner(s, i) = b}
  <2> DEFINE I == s.eigrp[a].eiflist
  <2>1. t = IntfFree(s, I)
    OBVIOUS
  <2> HIDE DEF t, I
  <2>2. Kept(s, t) /\ \A b \in As : t.eigrp[b].eiflist =
            s.eigrp[b].eiflist \ {i \in I : Owner(s, i) = b}
    BY <1>0, <2>1, IntfFreeKeeps
  <2> QED BY <2>2, KeptSound DEF Kept, I
<1> HIDE DEF t
<1>3. t.eigrp[a].eiflist = {}
  BY <1>2 DEF Sound, Base, Listed, ListedOK
<1>4. \A i \in Ifp :
        /\ f[i] \in IfpType
        /\ f[i].real = t.ifp[i].real /\ f[i].addrs = t.ifp[i].addrs
        /\ f[i].info.address = t.ifp[i].info.address
        /\ f[i].info.owner = IF Owner(t, i) = a THEN Freed ELSE Owner(t, i)
  <2> SUFFICES ASSUME NEW i \in Ifp
               PROVE  /\ f[i] \in IfpType
                      /\ f[i].real = t.ifp[i].real /\ f[i].addrs = t.ifp[i].addrs
                      /\ f[i].info.address = t.ifp[i].info.address
                      /\ f[i].info.owner = IF Owner(t, i) = a THEN Freed ELSE Owner(t, i)
    OBVIOUS
  <2>1. Owner(t, i) = Owner(s, i)
    BY <1>2 DEF Kept
  <2>2. CASE Owner(s, i) = a
    <3> DEFINE x == [t.ifp[i].info EXCEPT !.owner = Freed]
    <3>1. x \in InfoType /\ x.owner = Freed /\ x.address = t.ifp[i].info.address
      <4>1. t.ifp[i].info \in InfoType /\ Freed \in As \cup {NoObject, Freed}
        BY <1>2, Types
      <4> HIDE DEF f, g
      <4> QED BY <4>1 DEF InfoType
    <3>2. f[i] = [t.ifp[i] EXCEPT !.info = x]
      BY <2>2
    <3> HIDE DEF x, f
    <3>3. t.ifp[i] \in IfpType
      BY <1>2, Types
    <3> QED BY <2>1, <2>2, <3>1, <3>2, <3>3, InfoBuilt
  <2>3. CASE Owner(s, i) # a
    <3>1. f[i] = t.ifp[i] /\ t.ifp[i] \in IfpType
      BY <1>2, <2>3, Types
    <3> HIDE DEF f
    <3> QED BY <2>1, <2>3, <3>1 DEF Owner
  <2> QED BY <2>2, <2>3
<1>5. \A b \in As \ {a} :
        /\ g[b] \in InstanceType /\ g[b].older = t.eigrp[b].older \ {a}
        /\ g[b].alive = t.eigrp[b].alive /\ g[b].entry = t.eigrp[b].entry
        /\ g[b].rid = t.eigrp[b].rid /\ g[b].networks = t.eigrp[b].networks
        /\ g[b].eiflist = t.eigrp[b].eiflist
        /\ g[b].redistributed = t.eigrp[b].redistributed
        /\ g[b].redistribute = t.eigrp[b].redistribute
  <2> SUFFICES ASSUME NEW b \in As, b # a
               PROVE  /\ g[b] \in InstanceType /\ g[b].older = t.eigrp[b].older \ {a}
                      /\ g[b].alive = t.eigrp[b].alive /\ g[b].entry = t.eigrp[b].entry
                      /\ g[b].rid = t.eigrp[b].rid /\ g[b].networks = t.eigrp[b].networks
                      /\ g[b].eiflist = t.eigrp[b].eiflist
                      /\ g[b].redistributed = t.eigrp[b].redistributed
                      /\ g[b].redistribute = t.eigrp[b].redistribute
    OBVIOUS
  <2>1. g[b] = WithOlder(t.eigrp[b], t.eigrp[b].older \ {a})
    OBVIOUS
  <2>2. t.eigrp[b] \in InstanceType
    BY <1>2, Types
  <2>3. t.eigrp[b].older \ {a} \in SUBSET As
    BY <2>2 DEF InstanceType
  <2> HIDE DEF g
  <2> QED BY <2>1, <2>2, <2>3, OlderBuilt
<1>6. g[a] = Blank /\ Blank \in InstanceType
  BY BlankTyped
<1>7. f \in [Ifp -> IfpType] /\ g \in [As -> InstanceType]
  <2>1. \A b \in As : g[b] \in InstanceType
    BY <1>5, <1>6
  <2> QED BY <1>4, <2>1
<1> HIDE DEF f, g
<1>8. v \in State /\ v.ifp = f /\ v.eigrp = g /\ v.daemon = t.daemon
  BY <1>1, <1>2, <1>7, Built
<1>9. Alive(v) = Alive(t) \ {a} /\ Alive(t) \subseteq As
  BY <1>5, <1>6, <1>8, BlankTyped DEF Alive
<1>10. Ordered(v)
  <2>1. Ordered(t)
    BY <1>2 DEF Sound, Base, Rest
  <2>2. \A b \in As : v.eigrp[b].older \subseteq Alive(v) \ {b}
    BY <1>5, <1>6, <1>8, <1>9, <2>1, BlankTyped DEF Ordered
  <2>3. ASSUME NEW b \in Alive(v), NEW c \in Alive(v), b # c
        PROVE  (b \in v.eigrp[c].older) # (c \in v.eigrp[b].older)
    <3>1. /\ b \in Alive(t) /\ c \in Alive(t) /\ b # a /\ c # a /\ b \in As /\ c \in As
      BY <1>9, <2>3
    <3>2. (b \in t.eigrp[c].older) # (c \in t.eigrp[b].older)
      BY <2>1, <2>3, <3>1 DEF Ordered
    <3> QED BY <1>5, <1>8, <3>1, <3>2
  <2> QED BY <2>2, <2>3 DEF Ordered
<1>11. Entered(v) /\ Addressed(v)
  BY <1>2, <1>4, <1>5, <1>6, <1>8, BlankTyped DEF Entered, Addressed, Sound, Base, Rest
<1>12. Counted(v)
  <2>1. Counted(t) /\ Cardinality({}) = 0
    BY <1>2, FS_EmptySet DEF Sound, Base, Rest
  <2>2. v.eigrp[a].redistribute = 0 /\ v.eigrp[a].redistributed = {}
    BY <1>6, <1>8, BlankTyped
  <2>3. \A b \in As \ {a} : /\ v.eigrp[b].redistribute = t.eigrp[b].redistribute
                            /\ v.eigrp[b].redistributed = t.eigrp[b].redistributed
    BY <1>5, <1>8
  <2>4. v.daemon = t.daemon
    BY <1>8
  <2>5. ASSUME NEW b \in As
        PROVE  /\ v.eigrp[b].redistribute = Cardinality(v.eigrp[b].redistributed)
               /\ v.eigrp[b].redistributed \subseteq v.daemon.redist
    BY <2>1, <2>2, <2>3, <2>4 DEF Counted
  <2>6. ASSUME NEW b \in As, NEW c \in As, b # c
        PROVE  v.eigrp[b].redistributed \cap v.eigrp[c].redistributed = {}
    <3>1. CASE b = a \/ c = a
      BY <2>2, <3>1
    <3>2. CASE b # a /\ c # a
      BY <2>1, <2>3, <2>6, <3>2 DEF Counted
    <3> QED BY <3>1, <3>2
  <2> QED BY <2>5, <2>6 DEF Counted
<1>13. Listed(v)
  <2> SUFFICES ASSUME NEW b \in As, NEW i \in v.eigrp[b].eiflist
               PROVE  ListedOK(v, b, i)
    BY DEF Listed
  <2>1. b # a /\ i \in t.eigrp[b].eiflist
    BY <1>5, <1>6, <1>8, BlankTyped
  <2>2. ListedOK(t, b, i) /\ i \in Ifp
    BY <1>2, <2>1, Types DEF Sound, Base, Listed, InstanceType
  <2>3. f[i].info.owner = b
    BY <1>4, <2>1, <2>2 DEF ListedOK
  <2> QED BY <1>4, <1>5, <1>8, <2>1, <2>2, <2>3 DEF ListedOK, Owner, Info
<1>14. Taken(v)
  <2> SUFFICES ASSUME NEW b \in Alive(v), NEW i \in Ifp, v.eigrp[b].rid # Unset,
                      Owner(v, i) = NoObject
               PROVE  Matched(v, i, v.eigrp[b].networks) = {}
    BY DEF Taken
  <2>1. b \in Alive(t) /\ b \in As \ {a}
    BY <1>9
  <2>2. Owner(t, i) = NoObject
    BY <1>0, <1>4, <1>8 DEF Owner
  <2>3. Matched(t, i, t.eigrp[b].networks) = {}
    BY <1>2, <1>5, <1>8, <2>1, <2>2 DEF Sound, Taken
  <2> QED BY <1>4, <1>5, <1>8, <2>1, <2>3 DEF Matched
<1>15. \A b \in As : v.eigrp[b].rid = s.eigrp[b].rid \/ ~ v.eigrp[b].alive
  BY <1>2, <1>5, <1>6, <1>8, BlankTyped DEF Kept
<1> QED BY <1>8, <1>10, <1>11, <1>12, <1>13, <1>14, <1>15 DEF Sound, Base, Rest


WithRedistributed(e, x, n) == [e EXCEPT !.redistributed = x, !.redistribute = n]

LEMMA RedistributedBuilt ==
    ASSUME NEW e \in InstanceType, NEW x \in SUBSET Proto, NEW n \in Nat
    PROVE  LET u == WithRedistributed(e, x, n)
           IN  /\ u \in InstanceType /\ u.redistributed = x /\ u.redistribute = n
               /\ u.alive = e.alive /\ u.entry = e.entry /\ u.older = e.older
               /\ u.rid = e.rid /\ u.static = e.static
               /\ u.networks = e.networks /\ u.eiflist = e.eiflist /\ u.table = e.table
BY DEF InstanceType, WithRedistributed

\* A state in which instance a and zebra hold other protocols.
WithProtocols(s, a, x, n, d) ==
    [s EXCEPT !.eigrp = [s.eigrp EXCEPT ![a] = WithRedistributed(s.eigrp[a], x, n)],
              !.daemon = [s.daemon EXCEPT !.redist = d]]

LEMMA ProtocolsSound ==
    ASSUME NEW s, Sound(s), NEW a \in As, NEW x \in SUBSET Proto, NEW n \in Nat,
           NEW d \in SUBSET Proto, NEW t, t = WithProtocols(s, a, x, n, d),
           n = Cardinality(x), x \subseteq d,
           \A b \in As \ {a} : /\ s.eigrp[b].redistributed \subseteq d
                               /\ s.eigrp[b].redistributed \cap x = {}
    PROVE  Sound(t) /\ Sticky(s, t)
<1> DEFINE e == WithRedistributed(s.eigrp[a], x, n)
<1>0. s \in State /\ s.eigrp[a] \in InstanceType /\ Alive(s) \subseteq As
  BY Types DEF Sound, Base, Rest, Alive
<1>1. /\ e \in InstanceType /\ e.redistributed = x /\ e.redistribute = n
      /\ e.alive = s.eigrp[a].alive /\ e.entry = s.eigrp[a].entry
      /\ e.older = s.eigrp[a].older
      /\ e.rid = s.eigrp[a].rid /\ e.static = s.eigrp[a].static
      /\ e.networks = s.eigrp[a].networks /\ e.eiflist = s.eigrp[a].eiflist
  BY <1>0, RedistributedBuilt
<1>2. t = [s EXCEPT !.eigrp = [s.eigrp EXCEPT ![a] = e],
                    !.daemon = [s.daemon EXCEPT !.redist = d]]
  BY DEF WithProtocols
<1> HIDE DEF e
<1>3. /\ t \in State /\ t.ifp = s.ifp /\ t.daemon.redist = d
      /\ \A b \in As : t.eigrp[b] = IF b = a THEN e ELSE s.eigrp[b]
  <2> DEFINE g == [s.eigrp EXCEPT ![a] = e]
             c == [s.daemon EXCEPT !.redist = d]
  <2>1. s.daemon \in DaemonType /\ s.eigrp \in [As -> InstanceType]
    BY <1>0, Types
  <2>2. c \in DaemonType /\ c.redist = d
    BY <2>1 DEF DaemonType
  <2>3. g \in [As -> InstanceType] /\ \A b \in As : g[b] = IF b = a THEN e ELSE s.eigrp[b]
    BY <1>1, <2>1
  <2> HIDE DEF g, c
  <2>4. t \in State /\ t.ifp = s.ifp /\ t.eigrp = g /\ t.daemon = c
    <3>1. t = [s EXCEPT !.eigrp = g, !.daemon = c]
      BY <1>2 DEF g, c
    <3> QED BY <1>0, <2>2, <2>3, <3>1 DEF State
  <2> QED BY <2>2, <2>3, <2>4
<1>4. \A b \in As :
        /\ t.eigrp[b].alive = s.eigrp[b].alive /\ t.eigrp[b].entry = s.eigrp[b].entry
        /\ t.eigrp[b].older = s.eigrp[b].older /\ t.eigrp[b].rid = s.eigrp[b].rid
        /\ t.eigrp[b].networks = s.eigrp[b].networks
        /\ t.eigrp[b].eiflist = s.eigrp[b].eiflist
  BY <1>1, <1>3
<1>11. Alive(t) = Alive(s)
  BY <1>4, AliveSame
<1>5. Ordered(t)
  BY <1>0, <1>4, <1>11 DEF Ordered, Sound, Base, Rest
<1>6. Entered(t) /\ Addressed(t)
  BY <1>3, <1>4 DEF Entered, Addressed, Sound, Base, Rest
<1>7. Counted(t)
  BY <1>1, <1>3 DEF Counted, Sound, Base, Rest
<1>8. Listed(t)
  <2> SUFFICES ASSUME NEW b \in As, NEW i \in t.eigrp[b].eiflist
               PROVE  ListedOK(t, b, i)
    BY DEF Listed
  <2>1. ListedOK(s, b, i)
    BY <1>4 DEF Sound, Base, Listed
  <2> QED BY <1>3, <1>4, <2>1 DEF ListedOK, Owner, Info
<1>9. Taken(t)
  <2> SUFFICES ASSUME NEW b \in Alive(t), NEW i \in Ifp, t.eigrp[b].rid # Unset,
                      Owner(t, i) = NoObject
               PROVE  Matched(t, i, t.eigrp[b].networks) = {}
    BY DEF Taken
  <2>1. /\ b \in Alive(s) /\ s.eigrp[b].rid # Unset /\ Owner(s, i) = NoObject
        /\ t.eigrp[b].networks = s.eigrp[b].networks
    BY <1>0, <1>3, <1>4, <1>11 DEF Owner
  <2>2. Matched(s, i, s.eigrp[b].networks) = {}
    BY <2>1 DEF Sound, Taken
  <2> QED BY <1>3, <2>1, <2>2 DEF Matched
<1>10. Sticky(s, t)
  BY <1>4 DEF Sticky
<1> QED BY <1>3, <1>5, <1>6, <1>7, <1>8, <1>9, <1>10 DEF Sound, Base, Rest

\* The configuration's part of that change, and zebra's.
Holds(s, a, x) == [s EXCEPT !.eigrp[a].redistributed = x]
Asked(u, a, n, d) == [u EXCEPT !.daemon.redist = d, !.eigrp[a].redistribute = n]

LEMMA ProtocolsSet ==
    ASSUME NEW s \in State, NEW a \in As, NEW x \in SUBSET Proto, NEW n \in Nat,
           NEW d \in SUBSET Proto
    PROVE  Asked(Holds(s, a, x), a, n, d) = WithProtocols(s, a, x, n, d)
<1> DEFINE u == Holds(s, a, x)
           e == [s.eigrp[a] EXCEPT !.redistributed = x]
           g == [s.eigrp EXCEPT ![a] = e]
           h == [s.eigrp EXCEPT ![a] = WithRedistributed(s.eigrp[a], x, n)]
           c == [s.daemon EXCEPT !.redist = d]
<1>1. /\ s = [ifp |-> s.ifp, eigrp |-> s.eigrp, daemon |-> s.daemon]
      /\ s.eigrp \in [As -> InstanceType] /\ s.eigrp[a] \in InstanceType
  BY Types
<1>2. u = [ifp |-> s.ifp, eigrp |-> g, daemon |-> s.daemon]
  BY <1>1 DEF Holds
<1>3. g[a] = e /\ [e EXCEPT !.redistribute = n] = WithRedistributed(s.eigrp[a], x, n)
  BY <1>1 DEF InstanceType, WithRedistributed
<1> HIDE DEF e
<1>4. [g EXCEPT ![a] = WithRedistributed(s.eigrp[a], x, n)] = h
  BY <1>1
<1>5. Asked(u, a, n, d) = [ifp |-> s.ifp, eigrp |-> h, daemon |-> c]
  <2>1. [g EXCEPT ![a] = [g[a] EXCEPT !.redistribute = n]] = h
    BY <1>3, <1>4
  <2> HIDE DEF u, g, h
  <2>2. u.ifp = s.ifp /\ u.eigrp = g /\ u.daemon = s.daemon
    BY <1>2
  <2>3. Asked(u, a, n, d)
          = [u EXCEPT !.daemon = [u.daemon EXCEPT !.redist = d],
                      !.eigrp = [u.eigrp EXCEPT ![a] = [u.eigrp[a] EXCEPT !.redistribute = n]]]
    BY DEF Asked
  <2>4. [u.eigrp EXCEPT ![a] = [u.eigrp[a] EXCEPT !.redistribute = n]] = h
    BY <2>1, <2>2
  <2>5. Asked(u, a, n, d) = [u EXCEPT !.daemon = c, !.eigrp = h]
    BY <2>2, <2>3, <2>4
  <2> HIDE DEF c
  <2> QED BY <1>2, <2>5
<1>6. WithProtocols(s, a, x, n, d) = [ifp |-> s.ifp, eigrp |-> h, daemon |-> c]
  <2>1. WithProtocols(s, a, x, n, d) = [s EXCEPT !.eigrp = h, !.daemon = c]
    BY DEF WithProtocols
  <2> HIDE DEF h, c
  <2> QED BY <1>1, <2>1
<1> QED BY <1>5, <1>6

\* VALIDATE of `redistribute' and eigrp_redistribute_set
LEMMA RedistributeSets ==
    ASSUME NEW s, Sound(s), NEW a \in As, NEW p \in Proto \ s.daemon.redist, NEW t,
           t = RedistributeSet([s EXCEPT !.eigrp[a].redistributed = @ \cup {p}], a, p)
    PROVE  Sound(t) /\ Sticky(s, t)
<1> DEFINE x == s.eigrp[a].redistributed \cup {p}
           n == s.eigrp[a].redistribute + 1
           d == s.daemon.redist \cup {p}
<1>1. /\ s \in State /\ s.eigrp[a] \in InstanceType /\ s.daemon \in DaemonType
      /\ \A b \in As : s.eigrp[b].redistributed \subseteq s.daemon.redist
      /\ s.eigrp[a].redistribute = Cardinality(s.eigrp[a].redistributed)
  BY Types DEF Sound, Base, Rest, Counted
<1>2. t = WithProtocols(s, a, x, n, d)
  <2>1. s.eigrp[a].redistributed \in SUBSET Proto /\ s.eigrp \in [As -> InstanceType]
    BY <1>1, Types DEF InstanceType
  <2> DEFINE u == Holds(s, a, x)
  <2>2. u = [s EXCEPT !.eigrp[a].redistributed = @ \cup {p}]
    BY DEF Holds
  <2>3. u.daemon = s.daemon /\ u.eigrp[a].redistribute = s.eigrp[a].redistribute
    BY <1>1 DEF Holds, State, InstanceType
  <2>4. t = Asked(u, a, n, d)
    BY <2>2, <2>3 DEF RedistributeSet, Asked
  <2>5. x \in SUBSET Proto /\ d \in SUBSET Proto /\ n \in Nat
    BY <1>1 DEF InstanceType, DaemonType
  <2> HIDE DEF x, n, d
  <2> QED BY <1>1, <2>4, <2>5, ProtocolsSet
<1>3. x \in SUBSET Proto /\ d \in SUBSET Proto /\ n \in Nat
  BY <1>1 DEF InstanceType, DaemonType
<1>4. n = Cardinality(x)
  <2>1. IsFiniteSet(s.eigrp[a].redistributed)
    BY <1>1, FS_Subset, ConstantsAssumption DEF InstanceType
  <2>2. p \notin s.eigrp[a].redistributed
    BY <1>1
  <2> QED BY <1>1, <2>1, <2>2, FS_AddElement
<1>5. \A b \in As \ {a} : s.eigrp[b].redistributed \subseteq d
                         /\ s.eigrp[b].redistributed \cap x = {}
  BY <1>1 DEF Sound, Base, Rest, Counted
<1>6. x \subseteq d
  BY <1>1
<1> HIDE DEF x, n, d
<1> QED BY <1>2, <1>3, <1>4, <1>5, <1>6, ProtocolsSound

\* eigrp_redistribute_unset
LEMMA RedistributeUnsets ==
    ASSUME NEW s, Sound(s), NEW a \in As, NEW p \in s.eigrp[a].redistributed, NEW t,
           t = RedistributeUnset([s EXCEPT !.eigrp[a].redistributed = @ \ {p}], a, p)
    PROVE  Sound(t) /\ Sticky(s, t)
<1> DEFINE x == s.eigrp[a].redistributed \ {p}
           n == s.eigrp[a].redistribute - 1
           d == s.daemon.redist \ {p}
<1>1. /\ s \in State /\ s.eigrp[a] \in InstanceType /\ s.daemon \in DaemonType
      /\ \A b \in As : s.eigrp[b].redistributed \subseteq s.daemon.redist
      /\ s.eigrp[a].redistribute = Cardinality(s.eigrp[a].redistributed)
  BY Types DEF Sound, Base, Rest, Counted
<1>3. IsFiniteSet(s.eigrp[a].redistributed)
  BY <1>1, FS_Subset, ConstantsAssumption DEF InstanceType
<1>4. n = Cardinality(x) /\ n \in Nat
  <2>1. IsFiniteSet(x) /\ Cardinality(x) = Cardinality(s.eigrp[a].redistributed) - 1
    BY <1>3, FS_RemoveElement
  <2> QED BY <1>1, <2>1, FS_CardinalityType
<1>5. x \in SUBSET Proto /\ d \in SUBSET Proto
  BY <1>1 DEF InstanceType, DaemonType
<1>2. t = WithProtocols(s, a, x, n, d)
  <2> DEFINE u == Holds(s, a, x)
  <2>2. u = [s EXCEPT !.eigrp[a].redistributed = @ \ {p}]
    BY DEF Holds
  <2>3. u.daemon = s.daemon /\ u.eigrp[a].redistribute = s.eigrp[a].redistribute
    BY <1>1 DEF Holds, State, InstanceType
  <2>4. t = Asked(u, a, n, d)
    <3>1. p \in u.daemon.redist
      BY <1>1, <2>3
    <3> QED BY <2>2, <2>3, <3>1 DEF RedistributeUnset, Asked
  <2> HIDE DEF x, n, d
  <2> QED BY <1>1, <1>4, <1>5, <2>4, ProtocolsSet
<1>6. \A b \in As \ {a} : s.eigrp[b].redistributed \subseteq d
                         /\ s.eigrp[b].redistributed \cap x = {}
  BY <1>1 DEF Sound, Base, Rest, Counted
<1>7. x \subseteq d
  BY <1>1
<1> HIDE DEF x, n, d
<1> QED BY <1>2, <1>4, <1>5, <1>6, <1>7, ProtocolsSound


LEMMA SameSticky == ASSUME NEW s, NEW t, SameIds(s, t) PROVE Sticky(s, t)
BY DEF SameIds, Sticky

\* Nothing is taken when nothing matches.
LEMMA IntfUpNone == ASSUME NEW s \in State PROVE IntfUp(s, {}) = s
<1> DEFINE f == [i \in Ifp |-> IF i \in {}
                        THEN [s.ifp[i] EXCEPT !.info.obuf = TRUE, !.info.hello = TRUE]
                        ELSE s.ifp[i]]
           table(a) == [p \in Addr |-> [i \in Ifp |->
                          IF i \in {} /\ Owner(s, i) = a /\ Info(s, i).address = p
                          THEN s.eigrp[a].table[p][i] + 1 ELSE s.eigrp[a].table[p][i]]]
           g == [a \in As |-> [s.eigrp[a] EXCEPT !.table = table(a)]]
<1>1. IntfUp(s, {}) = With(s, f, g)
  BY DEF IntfUp, With
<1>2. f = s.ifp
  <2>1. s.ifp = [i \in Ifp |-> s.ifp[i]]
    BY Types
  <2> QED BY <2>1
<1>3. \A a \in As : table(a) = s.eigrp[a].table
  <2> SUFFICES ASSUME NEW a \in As PROVE table(a) = s.eigrp[a].table
    OBVIOUS
  <2>1. s.eigrp[a].table \in [Addr -> [Ifp -> Nat]]
    BY Types DEF InstanceType
  <2>2. table(a) = [p \in Addr |-> [i \in Ifp |-> s.eigrp[a].table[p][i]]]
    OBVIOUS
  <2> HIDE DEF table
  <2>3. \A p \in Addr : s.eigrp[a].table[p] = [i \in Ifp |-> s.eigrp[a].table[p][i]]
    BY <2>1
  <2>4. s.eigrp[a].table = [p \in Addr |-> s.eigrp[a].table[p]]
    BY <2>1
  <2> QED BY <2>2, <2>3, <2>4
<1> HIDE DEF f, table
<1>4. g = s.eigrp
  <2>1. \A a \in As : [s.eigrp[a] EXCEPT !.table = table(a)] = s.eigrp[a]
    BY <1>3, Types DEF InstanceType
  <2>2. s.eigrp = [a \in As |-> s.eigrp[a]]
    BY Types
  <2> QED BY <2>1, <2>2
<1> HIDE DEF g
<1> QED BY <1>1, <1>2, <1>4, Types DEF With

LEMMA NetworkRunNone ==
    ASSUME NEW s \in State, NEW a \in As, NEW nets, NEW i, Matched(s, i, nets) = {}
    PROVE  NetworkRunInterface(s, a, nets, {i}) = s
<1> DEFINE T == {j \in {i} : Owner(s, j) = NoObject /\ Matched(s, j, nets) # {}}
           f == [j \in Ifp |-> IF j \in T
                    THEN [s.ifp[j] EXCEPT !.info = [NoInfo EXCEPT !.owner = a,
                            !.address = CHOOSE p \in Matched(s, j, nets) : TRUE]]
                    ELSE s.ifp[j]]
           g == [s.eigrp EXCEPT ![a] = WithList(s.eigrp[a], s.eigrp[a].eiflist \cup T)]
           u == With(s, f, g)
<1>1. NetworkRunInterface(s, a, nets, {i}) = IntfUp(u, {j \in T : s.ifp[j].up})
  <2>1. u = [s EXCEPT !.ifp = f, !.eigrp = g]
    BY DEF With
  <2>2. u = [s EXCEPT !.ifp = f, !.eigrp[a].eiflist = @ \cup T]
    BY <2>1 DEF WithList
  <2> HIDE DEF u
  <2> QED BY <2>2 DEF NetworkRunInterface
<1>2. T = {}
  OBVIOUS
<1>3. f = s.ifp
  <2>1. s.ifp = [j \in Ifp |-> s.ifp[j]]
    BY Types
  <2> HIDE DEF T
  <2> QED BY <1>2, <2>1
<1>4. g = s.eigrp
  <2>1. WithList(s.eigrp[a], s.eigrp[a].eiflist \cup T) = s.eigrp[a]
    <3>1. s.eigrp[a].eiflist \cup T = s.eigrp[a].eiflist /\ s.eigrp[a] \in InstanceType
      BY <1>2, Types
    <3> HIDE DEF T
    <3> QED BY <3>1 DEF WithList, InstanceType
  <2> QED BY <2>1, Types
<1> HIDE DEF f, g, T
<1>5. u = s /\ {j \in T : s.ifp[j].up} = {}
  BY <1>2, <1>3, <1>4, Types DEF With
<1> HIDE DEF u
<1> QED BY <1>1, <1>5, IntfUpNone

\* A state with another interface i.
WithIfp(s, i, e) == [s EXCEPT !.ifp[i] = e]

LEMMA IfpBuilt ==
    ASSUME NEW s \in State, NEW i \in Ifp, NEW e \in IfpType
    PROVE  LET t == WithIfp(s, i, e)
           IN  /\ t \in State /\ t.eigrp = s.eigrp /\ t.daemon = s.daemon
               /\ \A j \in Ifp : t.ifp[j] = IF j = i THEN e ELSE s.ifp[j]
BY DEF State, WithIfp

WithLink(e, r, u) == [e EXCEPT !.real = r, !.up = u]
WithAddrs(e, x) == [e EXCEPT !.addrs = x]
WithNbrs(e, x) == [e EXCEPT !.info.nbrs = x]

LEMMA LinkBuilt ==
    ASSUME NEW e \in IfpType, NEW r \in BOOLEAN, NEW u \in BOOLEAN
    PROVE  LET w == WithLink(e, r, u)
           IN  /\ w \in IfpType /\ w.real = r /\ w.up = u
               /\ w.addrs = e.addrs /\ w.info = e.info
BY DEF IfpType, WithLink

LEMMA AddrsBuilt ==
    ASSUME NEW e \in IfpType, NEW x \in SUBSET Addr
    PROVE  LET w == WithAddrs(e, x)
           IN  /\ w \in IfpType /\ w.real = e.real /\ w.up = e.up
               /\ w.addrs = x /\ w.info = e.info
BY DEF IfpType, WithAddrs

LEMMA NbrsBuilt ==
    ASSUME NEW e \in IfpType, NEW x \in SUBSET Peer
    PROVE  LET u == WithNbrs(e, x)
           IN  /\ u \in IfpType /\ u.real = e.real /\ u.up = e.up /\ u.addrs = e.addrs
               /\ u.info.owner = e.info.owner /\ u.info.address = e.info.address
               /\ u.info.hello = e.info.hello
<1> DEFINE y == [e.info EXCEPT !.nbrs = x]
<1>1. e.info \in InfoType
  BY DEF IfpType
<1>2. /\ y \in InfoType /\ y.owner = e.info.owner /\ y.address = e.info.address
      /\ y.hello = e.info.hello
  BY <1>1 DEF InfoType
<1>3. WithNbrs(e, x) = [e EXCEPT !.info = y]
  BY DEF WithNbrs
<1> HIDE DEF y
<1> QED BY <1>2, <1>3, InfoBuilt

\* A change of an interface that keeps its addresses and its object's owner.
LEMMA IfpQuiet ==
    ASSUME NEW s, Sound(s), NEW i \in Ifp, NEW e \in IfpType, NEW t, t = WithIfp(s, i, e),
           e.addrs = s.ifp[i].addrs, s.ifp[i].real => e.real \/ e.addrs = {},
           e.info.owner = s.ifp[i].info.owner, e.info.address = s.ifp[i].info.address
    PROVE  Sound(t) /\ SameIds(s, t) /\ t.ifp[i] = e /\ t \in State
<1>1. s \in State
  BY DEF Sound, Base, Rest
<1>2. /\ t \in State /\ t.eigrp = s.eigrp /\ t.daemon = s.daemon
      /\ \A j \in Ifp : t.ifp[j] = IF j = i THEN e ELSE s.ifp[j]
  BY <1>1, IfpBuilt
<1>3. Quiet(s, t)
  BY <1>2 DEF Quiet, Owner, Info, Sound, Base, Rest, Entered
<1> QED BY <1>2, <1>3, QuietSound DEF SameIds


\* The interface's addresses less p: nothing new matches.
Cut(s, i, p) == WithIfp(s, i, WithAddrs(s.ifp[i], s.ifp[i].addrs \ {p}))

IsCut(s, i, p, t) ==
    /\ SameIds(s, t) /\ t.eigrp = s.eigrp
    /\ \A j \in Ifp : /\ t.ifp[j].info = s.ifp[j].info
                      /\ t.ifp[j].addrs = IF j = i THEN s.ifp[i].addrs \ {p}
                                          ELSE s.ifp[j].addrs

LEMMA Cuts ==
    ASSUME NEW s, Sound(s), NEW i \in Ifp, NEW p, NEW t, t = Cut(s, i, p)
    PROVE  Rest(t) /\ Taken(t) /\ IsCut(s, i, p, t)
<1> DEFINE e == WithAddrs(s.ifp[i], s.ifp[i].addrs \ {p})
<1>1. s \in State /\ s.ifp[i] \in IfpType /\ s.ifp[i].addrs \ {p} \in SUBSET Addr
  BY Types DEF Sound, Base, Rest
<1>2. /\ e \in IfpType /\ e.real = s.ifp[i].real /\ e.addrs = s.ifp[i].addrs \ {p}
      /\ e.info = s.ifp[i].info
  BY <1>1, AddrsBuilt
<1>8. t = WithIfp(s, i, e)
  BY DEF Cut
<1> HIDE DEF e
<1>3. /\ t \in State /\ t.eigrp = s.eigrp /\ t.daemon = s.daemon
      /\ \A j \in Ifp : t.ifp[j] = IF j = i THEN e ELSE s.ifp[j]
  BY <1>1, <1>2, <1>8, IfpBuilt
<1>4. \A j \in Ifp : /\ t.ifp[j].info = s.ifp[j].info
                     /\ t.ifp[j].addrs = IF j = i THEN s.ifp[i].addrs \ {p}
                                         ELSE s.ifp[j].addrs
  BY <1>2, <1>3
<1>5. Alive(t) = Alive(s) /\ Alive(s) \subseteq As
  BY <1>3 DEF Alive
<1>6. Rest(t)
  <2>1. Ordered(t) /\ Entered(t) /\ Counted(t)
    BY <1>3, <1>5 DEF Ordered, Entered, Counted, Sound, Base, Rest
  <2>2. Addressed(t)
    BY <1>2, <1>3 DEF Addressed, Sound, Base, Rest
  <2> QED BY <1>3, <2>1, <2>2 DEF Rest
<1>7. Taken(t)
  <2> SUFFICES ASSUME NEW b \in Alive(t), NEW j \in Ifp, t.eigrp[b].rid # Unset,
                      Owner(t, j) = NoObject
               PROVE  Matched(t, j, t.eigrp[b].networks) = {}
    BY DEF Taken
  <2>1. Matched(s, j, s.eigrp[b].networks) = {}
    BY <1>3, <1>4, <1>5 DEF Sound, Taken, Owner
  <2> QED BY <1>3, <1>4, <2>1 DEF Matched
<1> QED BY <1>3, <1>4, <1>6, <1>7 DEF SameIds, IsCut

LEMMA NowSound ==
    ASSUME Sound(Now)
    PROVE  /\ Now \in State /\ Now.ifp = ifp /\ Now.eigrp = eigrp /\ Now.daemon = daemon
           /\ \A i \in Ifp : ifp[i] \in IfpType /\ ifp[i].info \in InfoType
           /\ \A a \in As : eigrp[a].entry => a \in Alive(Now)
BY Types DEF Now, Sound, Base, Rest, Entered, Alive

Good(t) == Sound(t) /\ Sticky(Now, t)

\* The next state is the one a handler leaves, or that of a process that died.
LEMMA BecomesGood ==
    ASSUME NEW t, Good(t), Becomes(t) PROVE Sound(Now') /\ Sticky(Now, Now')
<1>1. t = [ifp |-> t.ifp, eigrp |-> t.eigrp, daemon |-> t.daemon]
  BY Types DEF Good, Sound, Base, Rest
<1>2. Now' = t
  BY <1>1 DEF Becomes, Now
<1> QED BY <1>2 DEF Good

LEMMA FollowsGood ==
    ASSUME NEW i, NEW t, Good(t), Follows(i, t) PROVE Sound(Now') /\ Sticky(Now, Now')
<1>1. Good(Gone("crashed"))
  BY GoneSound DEF Good
<1>2. CASE Owner(Now, i) = Freed
  BY <1>1, <1>2, BecomesGood DEF Follows
<1>3. CASE Owner(Now, i) # Freed
  BY <1>3, BecomesGood DEF Follows
<1> QED BY <1>2, <1>3

LEMMA KeptGood ==
    ASSUME NEW s, Sound(s), SameIds(Now, s), NEW t, Kept(s, t) PROVE Good(t)
<1>1. Sound(t) /\ SameIds(s, t)
  BY KeptSound, KeptIsGrown
<1>2. SameIds(Now, t)
  BY <1>1 DEF SameIds
<1> QED BY <1>1, <1>2, SameSticky DEF Good

-------------------------------------------------------------------------------
(* One step per action                                                       *)

LEMMA IfpCreateStep ==
    ASSUME Sound(Now), NEW i \in Ifp, IfpCreate(i) PROVE Sound(Now') /\ Sticky(Now, Now')
<1> DEFINE e == WithLink(ifp[i], TRUE, ifp[i].up)
           t == WithIfp(Now, i, e)
<1>1. ifp[i] \in IfpType /\ ifp[i].up \in BOOLEAN /\ Now.ifp = ifp
  BY NowSound DEF IfpType
<1>2. t = [Now EXCEPT !.ifp[i].real = TRUE]
  BY <1>1 DEF WithIfp, WithLink, IfpType
<1>3. e \in IfpType /\ e.real /\ e.addrs = ifp[i].addrs /\ e.info = ifp[i].info
  BY <1>1, LinkBuilt
<1> HIDE DEF e
<1>4. Sound(t) /\ SameIds(Now, t)
  BY <1>1, <1>3, IfpQuiet
<1> HIDE DEF t
<1>5. Good(t) /\ Becomes(t)
  BY <1>2, <1>4, SameSticky DEF Good, IfpCreate
<1> QED BY <1>5, BecomesGood

LEMMA IfpUpStep ==
    ASSUME Sound(Now), NEW i \in Ifp, IfpUp(i) PROVE Sound(Now') /\ Sticky(Now, Now')
<1> DEFINE e == WithLink(ifp[i], ifp[i].real, TRUE)
           t == WithIfp(Now, i, e)
<1>1. ifp[i] \in IfpType /\ ifp[i].real \in BOOLEAN /\ Now.ifp = ifp
  BY NowSound DEF IfpType
<1>2. t = [Now EXCEPT !.ifp[i].up = TRUE]
  BY <1>1 DEF WithIfp, WithLink, IfpType
<1>3. /\ e \in IfpType /\ e.real = ifp[i].real /\ e.addrs = ifp[i].addrs
      /\ e.info = ifp[i].info
  BY <1>1, LinkBuilt
<1> HIDE DEF e
<1>4. Sound(t) /\ SameIds(Now, t) /\ t \in State
  BY <1>1, <1>3, IfpQuiet
<1> HIDE DEF t
<1>5. Good(t) /\ Good(IntfReset(t, i)) /\ Good(IntfUp(t, {i}))
  BY <1>4, SameSticky, KeptGood, IntfResetKeeps, IntfUpKeeps DEF Good
<1>6. \/ Becomes(t) \/ Follows(i, IntfReset(t, i)) \/ Follows(i, IntfUp(t, {i}))
  BY <1>2 DEF IfpUp
<1> QED BY <1>5, <1>6, BecomesGood, FollowsGood

LEMMA IfpDownStep ==
    ASSUME Sound(Now), NEW i \in Ifp, IfpDown(i) PROVE Sound(Now') /\ Sticky(Now, Now')
<1> DEFINE e == WithLink(ifp[i], ifp[i].real, FALSE)
           t == WithIfp(Now, i, e)
<1>1. ifp[i] \in IfpType /\ ifp[i].real \in BOOLEAN /\ Now.ifp = ifp
  BY NowSound DEF IfpType
<1>2. t = [Now EXCEPT !.ifp[i].up = FALSE]
  BY <1>1 DEF WithIfp, WithLink, IfpType
<1>3. /\ e \in IfpType /\ e.real = ifp[i].real /\ e.addrs = ifp[i].addrs
      /\ e.info = ifp[i].info
  BY <1>1, LinkBuilt
<1> HIDE DEF e
<1>4. Sound(t) /\ SameIds(Now, t) /\ t \in State
  BY <1>1, <1>3, IfpQuiet
<1> HIDE DEF t
<1>5. Good(IntfDown(t, {i}))
  BY <1>4, KeptGood, IntfDownKeeps
<1>6. Becomes(IntfDown(t, {i})) \/ Follows(i, IntfDown(t, {i}))
  BY <1>2 DEF IfpDown
<1> QED BY <1>5, <1>6, BecomesGood, FollowsGood

LEMMA IfpDestroyStep ==
    ASSUME Sound(Now), NEW i \in Ifp, IfpDestroy(i) PROVE Sound(Now') /\ Sticky(Now, Now')
<1> DEFINE e == WithLink(ifp[i], FALSE, FALSE)
           t == WithIfp(Now, i, e)
<1>1. ifp[i] \in IfpType /\ Now.ifp = ifp /\ ifp[i].addrs = {}
  BY NowSound DEF IfpDestroy
<1>2. t = [Now EXCEPT !.ifp[i].real = FALSE, !.ifp[i].up = FALSE]
  BY <1>1 DEF WithIfp, WithLink, IfpType
<1>3. e \in IfpType /\ e.addrs = ifp[i].addrs /\ e.info = ifp[i].info
  BY <1>1, LinkBuilt
<1> HIDE DEF e
<1>4. Sound(t) /\ SameIds(Now, t) /\ t \in State
  BY <1>1, <1>3, IfpQuiet
<1> HIDE DEF t
<1>5. Good(t) /\ Good(IntfFree(t, {i}))
  BY <1>4, SameSticky, KeptGood, IntfFreeKeeps DEF Good
<1>6. Becomes(t) \/ Follows(i, IntfFree(t, {i}))
  BY <1>2 DEF IfpDestroy
<1> QED BY <1>5, <1>6, BecomesGood, FollowsGood


\* The object goes with the interface, which is on no list by then.
LEMMA IfpDeleteStep ==
    ASSUME Sound(Now), NEW i \in Ifp, IfpDelete(i) PROVE Sound(Now') /\ Sticky(Now, Now')
<1> DEFINE g == [a \in As |-> WithList(eigrp[a], eigrp[a].eiflist \ {i})]
           f == [ifp EXCEPT ![i] = NoIfp]
           d == [daemon EXCEPT !.loose = daemon.loose \/ ifp[i].info.hello]
           u == With(Now, f, g)
           t == [u EXCEPT !.daemon = d]
<1>1. /\ Now \in State /\ Now.ifp = ifp /\ Now.eigrp = eigrp /\ ifp[i].addrs = {}
      /\ ifp \in [Ifp -> IfpType] /\ eigrp \in [As -> InstanceType]
  BY NowSound, Types DEF IfpDelete, Sound, Base, Rest, Addressed
<1>2. Follows(i, IF ~ ifp[i].info.obuf THEN Gone("crashed") ELSE t)
  <2>1. t = [Now EXCEPT !.ifp[i] = NoIfp,
                !.eigrp = [a \in As |-> [eigrp[a] EXCEPT !.eiflist = @ \ {i}]],
                !.daemon.loose = @ \/ ifp[i].info.hello]
    BY <1>1 DEF With, WithList, Now
  <2> HIDE DEF t
  <2> QED BY <2>1 DEF IfpDelete
<1>3. \A a \in As : /\ g[a] \in InstanceType
                    /\ g[a].alive = eigrp[a].alive /\ g[a].older = eigrp[a].older
                    /\ g[a].entry = eigrp[a].entry /\ g[a].rid = eigrp[a].rid
                    /\ g[a].networks = eigrp[a].networks
                    /\ g[a].redistributed = eigrp[a].redistributed
                    /\ g[a].redistribute = eigrp[a].redistribute
                    /\ g[a].eiflist \subseteq eigrp[a].eiflist /\ i \notin g[a].eiflist
  <2> SUFFICES ASSUME NEW a \in As
               PROVE  /\ g[a] \in InstanceType
                      /\ g[a].alive = eigrp[a].alive /\ g[a].older = eigrp[a].older
                      /\ g[a].entry = eigrp[a].entry /\ g[a].rid = eigrp[a].rid
                      /\ g[a].networks = eigrp[a].networks
                      /\ g[a].redistributed = eigrp[a].redistributed
                      /\ g[a].redistribute = eigrp[a].redistribute
                      /\ g[a].eiflist \subseteq eigrp[a].eiflist /\ i \notin g[a].eiflist
    OBVIOUS
  <2>1. eigrp[a] \in InstanceType /\ eigrp[a].eiflist \ {i} \in SUBSET Ifp
    BY <1>1 DEF InstanceType
  <2>2. g[a] = WithList(eigrp[a], eigrp[a].eiflist \ {i})
    OBVIOUS
  <2> HIDE DEF g
  <2> QED BY <2>1, <2>2, ListBuilt
<1>4. f \in [Ifp -> IfpType] /\ g \in [As -> InstanceType]
      /\ \A j \in Ifp : f[j] = IF j = i THEN NoIfp ELSE ifp[j]
  <2>1. g \in [As -> InstanceType]
    BY <1>3
  <2> HIDE DEF g
  <2> QED BY <1>1, <2>1, BlankTyped
<1> HIDE DEF f, g
<1>5. t \in State /\ t.ifp = f /\ t.eigrp = g /\ t.daemon.redist = Now.daemon.redist
  <2>1. u \in State /\ u.ifp = f /\ u.eigrp = g
    BY <1>1, <1>4, Built
  <2>2. daemon \in DaemonType /\ daemon = Now.daemon
    BY <1>1, Types DEF Now
  <2>3. d \in DaemonType /\ d.redist = daemon.redist
    BY <1>1, <2>2 DEF DaemonType, IfpType, InfoType
  <2> HIDE DEF u, d
  <2> QED BY <2>1, <2>2, <2>3 DEF State
<1> HIDE DEF t
<1>6. Alive(t) = Alive(Now) /\ Alive(Now) \subseteq As
  BY <1>1, <1>3, <1>5 DEF Alive
<1>7. Ordered(t)
  BY <1>1, <1>3, <1>5, <1>6 DEF Ordered, Sound, Base, Rest
<1>8. Entered(t) /\ Counted(t)
  BY <1>1, <1>3, <1>5 DEF Entered, Counted, Sound, Base, Rest
<1>9. Addressed(t)
  BY <1>1, <1>4, <1>5, BlankTyped DEF Addressed, Sound, Base, Rest
<1>10. Listed(t)
  <2> SUFFICES ASSUME NEW b \in As, NEW j \in t.eigrp[b].eiflist
               PROVE  ListedOK(t, b, j)
    BY DEF Listed
  <2>1. j \in eigrp[b].eiflist /\ j # i
    BY <1>3, <1>5
  <2>2. ListedOK(Now, b, j) /\ j \in Ifp
    BY <1>1, <2>1 DEF Sound, Base, Listed, InstanceType
  <2> QED BY <1>1, <1>3, <1>4, <1>5, <2>1, <2>2 DEF ListedOK, Owner, Info
<1>11. Taken(t)
  <2> SUFFICES ASSUME NEW b \in Alive(t), NEW j \in Ifp, t.eigrp[b].rid # Unset,
                      Owner(t, j) = NoObject
               PROVE  Matched(t, j, t.eigrp[b].networks) = {}
    BY DEF Taken
  <2>1. CASE j = i
    BY <1>4, <1>5, <2>1, BlankTyped DEF Matched
  <2>2. CASE j # i
    <3>1. b \in Alive(Now) /\ t.ifp[j] = ifp[j]
      BY <1>4, <1>5, <1>6, <2>2
    <3>2. eigrp[b].rid # Unset /\ t.eigrp[b].networks = eigrp[b].networks
      BY <1>3, <1>5, <1>6, <3>1
    <3>3. Matched(Now, j, eigrp[b].networks) = {}
      BY <1>1, <3>1, <3>2 DEF Sound, Taken, Owner
    <3> QED BY <1>1, <3>1, <3>2, <3>3 DEF Matched
  <2> QED BY <2>1, <2>2
<1>12. Sticky(Now, t)
  BY <1>1, <1>3, <1>5 DEF Sticky
<1>13. Good(t)
  BY <1>5, <1>7, <1>8, <1>9, <1>10, <1>11, <1>12 DEF Good, Sound, Base, Rest
<1> QED BY <1>2, <1>13, GoneSound, FollowsGood DEF Good

\* Whichever instance takes the interface, none is left that would.
LEMMA AddressAddStep ==
    ASSUME Sound(Now), NEW i \in Ifp, NEW p \in Addr, AddressAdd(i, p)
    PROVE  Sound(Now') /\ Sticky(Now, Now')
<1> DEFINE e == WithAddrs(ifp[i], ifp[i].addrs \cup {p})
           s == WithIfp(Now, i, e)
<1>1. /\ Now \in State /\ Now.ifp = ifp /\ Now.eigrp = eigrp /\ ifp[i] \in IfpType
      /\ ifp[i].addrs \cup {p} \in SUBSET Addr /\ ifp[i].real
  BY NowSound, Types DEF AddressAdd
<1>2. s = [Now EXCEPT !.ifp[i].addrs = @ \cup {p}]
  BY <1>1 DEF WithIfp, WithAddrs
<1>3. /\ e \in IfpType /\ e.real = ifp[i].real /\ e.addrs = ifp[i].addrs \cup {p}
      /\ e.info = ifp[i].info
  BY <1>1, AddrsBuilt
<1> HIDE DEF e
<1>4. /\ s \in State /\ s.eigrp = eigrp /\ s.daemon = Now.daemon
      /\ \A j \in Ifp : s.ifp[j] = IF j = i THEN e ELSE ifp[j]
  BY <1>1, <1>3, IfpBuilt
<1> HIDE DEF s
<1>5. Alive(s) = Alive(Now) /\ Alive(s) \subseteq As /\ SameIds(Now, s)
  BY <1>1, <1>4 DEF Alive, SameIds
<1>6. Rest(s)
  <2>1. Ordered(s) /\ Entered(s) /\ Counted(s)
    BY <1>1, <1>4, <1>5 DEF Ordered, Entered, Counted, Sound, Base, Rest
  <2>2. Addressed(s)
    BY <1>1, <1>3, <1>4 DEF Addressed, Sound, Base, Rest
  <2> QED BY <1>4, <2>1, <2>2 DEF Rest
<1>7. Listed(s)
  <2> SUFFICES ASSUME NEW b \in As, NEW j \in s.eigrp[b].eiflist
               PROVE  ListedOK(s, b, j)
    BY DEF Listed
  <2>1. ListedOK(Now, b, j) /\ j \in Ifp
    BY <1>1, <1>4, Types DEF Sound, Base, Listed, InstanceType
  <2> QED BY <1>1, <1>3, <1>4, <2>1 DEF ListedOK, Owner, Info
<1>8. Base(s)
  BY <1>6, <1>7 DEF Base
<1>9. \A b \in Alive(s), j \in Ifp \ {i} :
        s.eigrp[b].rid # Unset /\ Owner(s, j) = NoObject =>
            Matched(s, j, s.eigrp[b].networks) = {}
  BY <1>1, <1>4, <1>5 DEF Sound, Taken, Owner, Matched
<1>10. CASE Ready(s, i) = {}
  <2>1. ASSUME NEW b \in Alive(s), s.eigrp[b].rid # Unset, Owner(s, i) = NoObject
        PROVE  Matched(s, i, s.eigrp[b].networks) = {}
    <3>1. IntfUpdate(s, b, {i}) = s
      BY <1>10, <2>1 DEF Ready
    <3>2. NoneLeft(s, s.eigrp[b].networks, {i})
      BY <1>8, <2>1, <3>1, IntfUpdates
    <3> QED BY <2>1, <3>2 DEF NoneLeft
  <2>2. Taken(s)
    BY <1>9, <2>1 DEF Taken
  <2>3. Good(s) /\ Becomes(s)
    BY <1>2, <1>5, <1>8, <1>10, <2>2, SameSticky DEF Good, Sound, AddressAdd
  <2> QED BY <2>3, BecomesGood
<1>11. CASE Ready(s, i) # {}
  <2>1. PICK a \in Ready(s, i) : Becomes(IntfUpdate(s, a, {i}))
    BY <1>2, <1>11 DEF AddressAdd
  <2> DEFINE t == IntfUpdate(s, a, {i})
  <2>2. a \in Alive(s) /\ t # s
    BY <2>1 DEF Ready
  <2>3. s.eigrp[a].rid # Unset /\ t = NetworkRunInterface(s, a, s.eigrp[a].networks, {i})
    BY <2>2 DEF IntfUpdate
  <2>4. /\ Base(t) /\ Grown(s, t) /\ SameIds(s, t)
        /\ NoneLeft(t, s.eigrp[a].networks, {i})
    <3>1. s.eigrp[a].rid # Unset
      BY <2>3
    <3> QED BY <1>8, <2>2, <3>1, IntfUpdates
  <2> HIDE DEF t
  <2>5. Owner(t, i) # NoObject
    <3> SUFFICES ASSUME Owner(t, i) = NoObject PROVE FALSE
      OBVIOUS
    <3>1. Matched(s, i, s.eigrp[a].networks) = {}
      BY <2>4 DEF NoneLeft, Grown, Matched
    <3>2. t = s
      BY <1>4, <1>5, <2>2, <2>3, <3>1, NetworkRunNone
    <3> QED BY <2>2, <3>2
  <2>6. Taken(t)
    <3> SUFFICES ASSUME NEW b \in Alive(t), NEW j \in Ifp, t.eigrp[b].rid # Unset,
                        Owner(t, j) = NoObject
                 PROVE  Matched(t, j, t.eigrp[b].networks) = {}
      BY DEF Taken
    <3>1. /\ b \in Alive(s) /\ b \in As /\ j # i /\ Owner(s, j) = NoObject
          /\ s.eigrp[b].rid # Unset
          /\ t.eigrp[b].networks = s.eigrp[b].networks
          /\ t.ifp[j].addrs = s.ifp[j].addrs
      BY <2>4, <2>5 DEF Grown, SameIds, Alive
    <3>2. Matched(s, j, s.eigrp[b].networks) = {}
      BY <1>9, <3>1
    <3> QED BY <3>1, <3>2 DEF Matched
  <2>7. Good(t)
    BY <1>5, <2>4, <2>6, SameSticky DEF Good, Sound, SameIds
  <2> QED BY <2>1, <2>7, BecomesGood DEF t
<1> QED BY <1>10, <1>11

\* The interface leaves its list with the address its object was made for.
LEMMA AddressDeleteStep ==
    ASSUME Sound(Now), NEW i \in Ifp, NEW p \in Addr, AddressDelete(i, p)
    PROVE  Sound(Now') /\ Sticky(Now, Now')
<1> DEFINE s == Cut(Now, i, p)
           t == IntfFree(s, {i})
<1>1. /\ Now \in State /\ Now.ifp = ifp /\ Now.eigrp = eigrp /\ NoObject \notin As
  BY NowSound, ConstantsAssumption
<1>2. s = [Now EXCEPT !.ifp[i].addrs = @ \ {p}]
  BY <1>1 DEF Cut, WithIfp, WithAddrs
<1> HIDE DEF s
<1>3. /\ Rest(s) /\ Taken(s) /\ SameIds(Now, s) /\ s.eigrp = eigrp
      /\ \A j \in Ifp : /\ s.ifp[j].info = ifp[j].info
                        /\ s.ifp[j].addrs = IF j = i THEN ifp[i].addrs \ {p}
                                            ELSE ifp[j].addrs
  <2>1. s = Cut(Now, i, p)
    BY DEF s
  <2>2. Rest(s) /\ Taken(s) /\ IsCut(Now, i, p, s)
    BY <2>1, Cuts
  <2> QED BY <1>1, <2>2 DEF IsCut
<1>4. ASSUME NEW b \in As, NEW j \in eigrp[b].eiflist,
             j # i \/ Owner(s, i) = NoObject \/ Info(s, i).address # p
      PROVE  ListedOK(s, b, j)
  <2>1. ListedOK(Now, b, j) /\ j \in Ifp
    BY <1>1, Types DEF Sound, Base, Listed, InstanceType
  <2>2. s.ifp[j].info = ifp[j].info /\ s.eigrp = eigrp
    BY <1>3, <2>1
  <2>3. Info(s, j).address \in s.ifp[j].addrs
    BY <1>1, <1>3, <1>4, <2>1, <2>2 DEF ListedOK, Owner, Info
  <2> QED BY <1>1, <2>1, <2>2, <2>3 DEF ListedOK, Owner, Info
<1>5. CASE Owner(s, i) = NoObject \/ Info(s, i).address # p
  <2>1. Listed(s)
    BY <1>3, <1>4, <1>5 DEF Listed
  <2>2. Good(s) /\ Becomes(s)
    BY <1>2, <1>3, <1>5, <2>1, SameSticky DEF Good, Sound, Base, AddressDelete
  <2> QED BY <2>2, BecomesGood
<1>6. CASE ~ (Owner(s, i) = NoObject \/ Info(s, i).address # p)
  <2>1. Follows(i, t)
    BY <1>2, <1>6 DEF AddressDelete
  <2> HIDE DEF t
  <2>2. /\ Kept(s, t)
        /\ \A b \in As : t.eigrp[b].eiflist =
                s.eigrp[b].eiflist \ {j \in {i} : Owner(s, j) = b}
    BY <1>3, IntfFreeKeeps DEF Rest, t
  <2>3. Listed(t)
    <3> SUFFICES ASSUME NEW b \in As, NEW j \in t.eigrp[b].eiflist
                 PROVE  ListedOK(t, b, j)
      BY DEF Listed
    <3>1. j \in eigrp[b].eiflist /\ ~ (j = i /\ Owner(s, i) = b)
      BY <1>3, <2>2
    <3>2. ListedOK(Now, b, j) /\ j \in Ifp
      BY <1>1, <3>1, Types DEF Sound, Base, Listed, InstanceType
    <3>3. j # i
      BY <1>1, <1>3, <3>1, <3>2 DEF ListedOK, Owner
    <3>4. ListedOK(s, b, j)
      BY <1>4, <3>1, <3>3
    <3> QED BY <2>2, <3>2, <3>4 DEF Kept, ListedOK
  <2>4. Rest(t) /\ Taken(t) /\ SameIds(Now, t)
    BY <1>3, <2>2, KeptRest, KeptTaken, KeptIsGrown DEF SameIds
  <2>5. Good(t)
    BY <2>3, <2>4, SameSticky DEF Good, Sound, Base
  <2> QED BY <2>1, <2>5, FollowsGood
<1> QED BY <1>5, <1>6


\* A router id of zebra is used by the head of the list if it has none.
LEMMA ZebraRouterIdStep ==
    ASSUME Sound(Now), NEW id \in ZebraId, ZebraRouterId(id)
    PROVE  Sound(Now') /\ Sticky(Now, Now')
<1> DEFINE d == [daemon EXCEPT !.zebraId = id]
           s == [Now EXCEPT !.daemon = d]
<1>1. Now \in State /\ Now.eigrp = eigrp /\ Now.daemon = daemon /\ daemon \in DaemonType
  BY NowSound, Types
<1>2. s = [Now EXCEPT !.daemon.zebraId = id]
  BY <1>1
<1>3. d \in DaemonType /\ d.redist = daemon.redist
  BY <1>1 DEF DaemonType, RouterId
<1> HIDE DEF d
<1>4. s \in State /\ s.ifp = Now.ifp /\ s.eigrp = Now.eigrp /\ s.daemon = d
  BY <1>1, <1>3 DEF State
<1> HIDE DEF s
<1>5. Quiet(Now, s)
  BY <1>1, <1>3, <1>4 DEF Quiet, Owner, Info, Sound, Base, Rest, Entered
<1>6. Sound(s) /\ SameIds(Now, s)
  BY <1>4, <1>5, QuietSound DEF SameIds
<1>7. CASE Alive(s) = {}
  <2>1. Good(s) /\ Becomes(s)
    BY <1>2, <1>6, <1>7, SameSticky DEF Good, ZebraRouterId
  <2> QED BY <2>1, BecomesGood
<1>8. CASE Alive(s) # {}
  <2>1. PICK a \in Alive(s) : Becomes(RouterIdUpdate(s, a))
    BY <1>2, <1>8 DEF ZebraRouterId
  <2> DEFINE t == RouterIdUpdate(s, a)
  <2> HIDE DEF t
  <2>2. Sound(t) /\ Sticky(s, t)
    BY <1>6, RouterIdUpdates DEF t
  <2>3. Good(t)
    BY <1>4, <2>2 DEF Good, Sticky
  <2> QED BY <2>1, <2>3, BecomesGood DEF t
<1> QED BY <1>7, <1>8

LEMMA HelloTimerStep ==
    ASSUME Sound(Now), NEW i \in Ifp, HelloTimer(i) PROVE Sound(Now') /\ Sticky(Now, Now')
<1>1. Good(Now)
  BY DEF Good, Sticky
<1> QED BY <1>1, FollowsGood DEF HelloTimer

LEMMA NbrsGood ==
    ASSUME Sound(Now), NEW i \in Ifp, NEW x \in SUBSET Peer, NEW t,
           t = WithIfp(Now, i, WithNbrs(ifp[i], x))
    PROVE  Good(t)
<1> DEFINE e == WithNbrs(ifp[i], x)
<1>1. Now.ifp = ifp /\ ifp[i] \in IfpType
  BY NowSound
<1>2. /\ e \in IfpType /\ e.real = ifp[i].real /\ e.addrs = ifp[i].addrs
      /\ e.info.owner = ifp[i].info.owner /\ e.info.address = ifp[i].info.address
  BY <1>1, NbrsBuilt
<1> HIDE DEF e
<1>3. t = WithIfp(Now, i, e)
  BY DEF e
<1>4. Sound(t) /\ SameIds(Now, t)
  BY <1>1, <1>2, <1>3, IfpQuiet
<1> QED BY <1>4, SameSticky DEF Good

LEMMA HelloReceiveStep ==
    ASSUME Sound(Now), NEW i \in Ifp, NEW nbr \in Peer, HelloReceive(i, nbr)
    PROVE  Sound(Now') /\ Sticky(Now, Now')
<1> DEFINE t == WithIfp(Now, i, WithNbrs(ifp[i], ifp[i].info.nbrs \cup {nbr}))
<1>1. /\ Now.ifp = ifp /\ ifp[i].info \in InfoType
      /\ ifp[i].info.nbrs \cup {nbr} \in SUBSET Peer
  BY NowSound DEF InfoType
<1>2. t = [Now EXCEPT !.ifp[i].info.nbrs = @ \cup {nbr}]
  BY <1>1 DEF WithIfp, WithNbrs
<1>3. Good(t)
  BY <1>1, NbrsGood
<1> HIDE DEF t
<1>4. Follows(i, t)
  BY <1>2 DEF HelloReceive
<1> QED BY <1>3, <1>4, FollowsGood

LEMMA HoldExpiresStep ==
    ASSUME Sound(Now), NEW i \in Ifp, NEW nbr \in Peer, HoldExpires(i, nbr)
    PROVE  Sound(Now') /\ Sticky(Now, Now')
<1> DEFINE t == WithIfp(Now, i, WithNbrs(ifp[i], ifp[i].info.nbrs \ {nbr}))
<1>1. /\ Now.ifp = ifp /\ ifp[i].info \in InfoType
      /\ ifp[i].info.nbrs \ {nbr} \in SUBSET Peer
  BY NowSound DEF InfoType
<1>2. t = [Now EXCEPT !.ifp[i].info.nbrs = @ \ {nbr}]
  BY <1>1 DEF WithIfp, WithNbrs
<1>3. Good(t)
  BY <1>1, NbrsGood
<1> HIDE DEF t
<1>4. Follows(i, t)
  BY <1>2 DEF HoldExpires
<1> QED BY <1>3, <1>4, FollowsGood

LEMMA InstanceCreateStep ==
    ASSUME Sound(Now), NEW a \in As, InstanceCreate(a)
    PROVE  Sound(Now') /\ Sticky(Now, Now')
<1> DEFINE s == Get(Now, a)
           e == WithEntry(s.eigrp[a], TRUE)
           t == WithInstance(s, a, e)
<1>1. /\ Sound(s) /\ a \in Alive(s)
      /\ \A b \in Alive(Now) : s.eigrp[b] = Now.eigrp[b] /\ b \in Alive(s)
  BY Gets
<1>2. Becomes(t)
  BY DEF InstanceCreate, WithInstance, WithEntry
<1> HIDE DEF s
<1>3. s \in State /\ s.eigrp[a] \in InstanceType
  BY <1>1, Types DEF Sound, Base, Rest
<1>4. /\ e \in InstanceType
      /\ e.alive = s.eigrp[a].alive /\ e.older = s.eigrp[a].older
      /\ e.rid = s.eigrp[a].rid /\ e.networks = s.eigrp[a].networks
      /\ e.eiflist = s.eigrp[a].eiflist
      /\ e.redistributed = s.eigrp[a].redistributed
      /\ e.redistribute = s.eigrp[a].redistribute
  BY <1>3, EntryBuilt
<1> HIDE DEF e
<1>5. /\ t \in State /\ t.ifp = s.ifp /\ t.daemon = s.daemon
      /\ \A b \in As : t.eigrp[b] = IF b = a THEN e ELSE s.eigrp[b]
  BY <1>3, <1>4, InstanceBuilt
<1> HIDE DEF t
<1>6. Quiet(s, t)
  BY <1>1, <1>4, <1>5 DEF Quiet, Owner, Info, Sound, Base, Rest, Entered, Alive
<1>7. Sound(t) /\ \A b \in As : t.eigrp[b].rid = s.eigrp[b].rid
  BY <1>1, <1>4, <1>5, <1>6, QuietSound
<1>8. Sticky(Now, t)
  BY <1>1, <1>7 DEF Sticky, Alive
<1> QED BY <1>2, <1>7, <1>8, BecomesGood DEF Good

LEMMA InstanceCreateAbortedStep ==
    ASSUME Sound(Now), NEW a \in As, InstanceCreateAborted(a)
    PROVE  Sound(Now') /\ Sticky(Now, Now')
<1> DEFINE s == Get(Now, a)
           t == Finish(s, a)
<1>1. /\ Sound(s)
      /\ \A b \in Alive(Now) : s.eigrp[b] = Now.eigrp[b]
  BY Gets
<1>2. Becomes(t)
  BY DEF InstanceCreateAborted
<1> HIDE DEF s
<1>3. Sound(t) /\ \A b \in As : t.eigrp[b].rid = s.eigrp[b].rid \/ ~ t.eigrp[b].alive
  BY <1>1, Finishes
<1> HIDE DEF t
<1>4. Sticky(Now, t)
  BY <1>1, <1>3 DEF Sticky, Alive
<1> QED BY <1>2, <1>3, <1>4, BecomesGood DEF Good

LEMMA InstanceDestroyStep ==
    ASSUME Sound(Now), NEW a \in As, InstanceDestroy(a)
    PROVE  Sound(Now') /\ Sticky(Now, Now')
<1> DEFINE t == Finish(Now, a)
<1>1. Becomes(t)
  BY DEF InstanceDestroy
<1>2. Sound(t) /\ \A b \in As : t.eigrp[b].rid = Now.eigrp[b].rid \/ ~ t.eigrp[b].alive
  BY Finishes
<1> HIDE DEF t
<1>3. Sticky(Now, t)
  BY <1>2 DEF Sticky
<1> QED BY <1>1, <1>2, <1>3, BecomesGood DEF Good

LEMMA StaticGood ==
    ASSUME Sound(Now), NEW a \in As, NEW x \in RouterId, NEW t,
           t = WithInstance(Now, a, WithStatic(eigrp[a], x))
    PROVE  Good(t)
<1> DEFINE e == WithStatic(eigrp[a], x)
<1>1. Now \in State /\ Now.eigrp = eigrp /\ eigrp[a] \in InstanceType
  BY NowSound, Types
<1>2. /\ e \in InstanceType
      /\ e.alive = eigrp[a].alive /\ e.entry = eigrp[a].entry /\ e.older = eigrp[a].older
      /\ e.rid = eigrp[a].rid /\ e.networks = eigrp[a].networks
      /\ e.eiflist = eigrp[a].eiflist
      /\ e.redistributed = eigrp[a].redistributed
      /\ e.redistribute = eigrp[a].redistribute
  BY <1>1, StaticBuilt
<1>3. t = WithInstance(Now, a, e)
  OBVIOUS
<1> HIDE DEF e
<1>4. /\ t \in State /\ t.ifp = Now.ifp /\ t.daemon = Now.daemon
      /\ \A b \in As : t.eigrp[b] = IF b = a THEN e ELSE Now.eigrp[b]
  BY <1>1, <1>2, <1>3, InstanceBuilt
<1>5. Quiet(Now, t) /\ SameIds(Now, t)
  BY <1>1, <1>2, <1>4 DEF Quiet, SameIds, Owner, Info, Sound, Base, Rest, Entered
<1> QED BY <1>5, QuietSound DEF Good

LEMMA RouterIdStep ==
    ASSUME Sound(Now), NEW a \in As,
           RouterIdDestroy(a) \/ \E id \in StaticId : RouterIdModify(a, id)
    PROVE  Sound(Now') /\ Sticky(Now, Now')
<1>1. Now.eigrp = eigrp
  BY NowSound
<1>2. PICK id \in StaticId \cup {Unset} : Becomes([Now EXCEPT !.eigrp[a].static = id])
  BY DEF RouterIdDestroy, RouterIdModify
<1> DEFINE t == WithInstance(Now, a, WithStatic(eigrp[a], id))
<1>3. t = [Now EXCEPT !.eigrp[a].static = id]
  BY <1>1 DEF WithInstance, WithStatic
<1>4. id \in RouterId
  BY DEF RouterId
<1>5. Good(t)
  BY <1>4, StaticGood
<1> HIDE DEF t
<1> QED BY <1>2, <1>3, <1>5, BecomesGood


LEMMA NetworkStep ==
    ASSUME Sound(Now), NEW a \in As, NEW n \in Net, NetworkCreate(a, n) \/ NetworkDestroy(a, n)
    PROVE  Sound(Now') /\ Sticky(Now, Now')
<1>1. a \in Alive(Now)
  BY NowSound DEF NetworkCreate, NetworkDestroy
<1>2. Good(NetworkSet(Now, a, n)) /\ Good(NetworkUnset(Now, a, n))
  BY <1>1, NetworkSets, NetworkUnsets DEF Good
<1>3. Becomes(NetworkSet(Now, a, n)) \/ Becomes(NetworkUnset(Now, a, n))
  BY DEF NetworkCreate, NetworkDestroy
<1> QED BY <1>2, <1>3, BecomesGood

LEMMA RedistributeStep ==
    ASSUME Sound(Now), NEW a \in As, NEW p \in Proto,
           RedistributeCreate(a, p) \/ RedistributeDestroy(a, p)
    PROVE  Sound(Now') /\ Sticky(Now, Now')
<1>1. Now.eigrp = eigrp /\ Now.daemon = daemon
  BY NowSound
<1>2. CASE RedistributeCreate(a, p)
  <2> DEFINE t == RedistributeSet([Now EXCEPT !.eigrp[a].redistributed = @ \cup {p}], a, p)
  <2>1. Becomes(t) /\ p \in Proto \ Now.daemon.redist
    BY <1>1, <1>2 DEF RedistributeCreate
  <2>2. Good(t)
    BY <2>1, RedistributeSets DEF Good
  <2> HIDE DEF t
  <2> QED BY <2>1, <2>2, BecomesGood
<1>3. CASE RedistributeDestroy(a, p)
  <2> DEFINE t == RedistributeUnset([Now EXCEPT !.eigrp[a].redistributed = @ \ {p}], a, p)
  <2>1. Becomes(t) /\ p \in Now.eigrp[a].redistributed
    BY <1>1, <1>3 DEF RedistributeDestroy
  <2>2. Good(t)
    BY <2>1, RedistributeUnsets DEF Good
  <2> HIDE DEF t
  <2> QED BY <2>1, <2>2, BecomesGood
<1> QED BY <1>2, <1>3

LEMMA ParamModifyStep ==
    ASSUME Sound(Now), NEW i \in Ifp, ParamModify(i) PROVE Sound(Now') /\ Sticky(Now, Now')
<1>1. Now \in State /\ SameIds(Now, Now)
  BY NowSound DEF SameIds
<1>2. Good(IntfReset(Now, i))
  BY <1>1, KeptGood, IntfResetKeeps
<1> QED BY <1>2, FollowsGood DEF ParamModify

LEMMA IfpInstanceCreateStep ==
    ASSUME Sound(Now), NEW i \in Ifp, NEW a \in As, IfpInstanceCreate(i, a)
    PROVE  Sound(Now') /\ Sticky(Now, Now')
<1> DEFINE t == Get(Now, a)
<1>1. Becomes(t)
  BY DEF IfpInstanceCreate
<1>2. Sound(t) /\ \A b \in Alive(Now) : t.eigrp[b] = Now.eigrp[b]
  BY Gets
<1> HIDE DEF t
<1>3. Sticky(Now, t)
  BY <1>2 DEF Sticky, Alive
<1> QED BY <1>1, <1>2, <1>3, BecomesGood DEF Good

LEMMA LifeStep ==
    ASSUME FreedTimer \/ Terminate \/ Restart PROVE Sound(Now') /\ Sticky(Now, Now')
<1>1. Good(Gone("stopped")) /\ Good(Gone("crashed")) /\ Good(Fresh)
  <2>1. \A a \in As : ~ Fresh.eigrp[a].alive
    BY BlankTyped DEF Fresh
  <2> QED BY <2>1, GoneSound DEF Good, Sticky
<1>2. CASE FreedTimer \/ Terminate
  BY <1>1, <1>2, BecomesGood DEF FreedTimer, Terminate
<1>3. CASE Restart
  <2>1. Now' = Fresh
    BY <1>3 DEF Restart, Now, Fresh
  <2> QED BY <1>1, <2>1 DEF Good
<1> QED BY <1>2, <1>3

LEMMA NextSound ==
    ASSUME Sound(Now), [Next]_vars PROVE Sound(Now') /\ Sticky(Now, Now')
<1>1. CASE \E i \in Ifp : \/ IfpCreate(i) \/ IfpUp(i) \/ IfpDown(i) \/ IfpDestroy(i)
                          \/ IfpDelete(i) \/ HelloTimer(i) \/ ParamModify(i)
  BY <1>1, IfpCreateStep, IfpUpStep, IfpDownStep, IfpDestroyStep, IfpDeleteStep,
     HelloTimerStep, ParamModifyStep
<1>2. CASE \E i \in Ifp, p \in Addr : AddressAdd(i, p) \/ AddressDelete(i, p)
  BY <1>2, AddressAddStep, AddressDeleteStep
<1>3. CASE \E i \in Ifp, nbr \in Peer : HelloReceive(i, nbr) \/ HoldExpires(i, nbr)
  BY <1>3, HelloReceiveStep, HoldExpiresStep
<1>4. CASE \E i \in Ifp, a \in As : IfpInstanceCreate(i, a)
  BY <1>4, IfpInstanceCreateStep
<1>5. CASE \E id \in ZebraId : ZebraRouterId(id)
  BY <1>5, ZebraRouterIdStep
<1>6. CASE \E a \in As : \/ InstanceCreate(a) \/ InstanceCreateAborted(a)
                         \/ InstanceDestroy(a) \/ RouterIdDestroy(a)
  BY <1>6, InstanceCreateStep, InstanceCreateAbortedStep, InstanceDestroyStep,
     RouterIdStep
<1>7. CASE \E a \in As, id \in StaticId : RouterIdModify(a, id)
  BY <1>7, RouterIdStep
<1>8. CASE \E a \in As, n \in Net : NetworkCreate(a, n) \/ NetworkDestroy(a, n)
  BY <1>8, NetworkStep
<1>9. CASE \E a \in As, p \in Proto : RedistributeCreate(a, p) \/ RedistributeDestroy(a, p)
  BY <1>9, RedistributeStep
<1>10. CASE FreedTimer \/ Terminate \/ Restart
  BY <1>10, LifeStep
<1>11. CASE UNCHANGED vars
  <2>1. Now' = Now
    BY <1>11 DEF vars, Now
  <2> QED BY <2>1 DEF Sticky
<1> QED BY <1>1, <1>2, <1>3, <1>4, <1>5, <1>6, <1>7, <1>8, <1>9, <1>10, <1>11 DEF Next

-------------------------------------------------------------------------------
\* Everything that the theorems below say of a state, at once.
InstancesSound == Sound(Now)

\* In every reachable state the instances, their interfaces and the protocols
\* they redistribute are as the inductive invariant has them, whatever zebra
\* announces, the operator configures and the neighbours send.
THEOREM InstancesAlwaysSound == Spec => []InstancesSound
<1>1. Init => InstancesSound
  <2> SUFFICES ASSUME Init PROVE Sound(Now)
    BY DEF InstancesSound
  <2>1. Now = Fresh
    BY DEF Init, Now, Fresh
  <2> QED BY <2>1, GoneSound
<1>2. InstancesSound /\ [Next]_vars => InstancesSound'
  <2> SUFFICES ASSUME Sound(Now), [Next]_vars PROVE Sound(Now)'
    BY DEF InstancesSound
  <2>1. Sound(Now')
    BY NextSound
  <2> QED BY <2>1 DEF Now
<1> QED BY <1>1, <1>2, PTL DEF Spec

\* The records stay well formed, and the list of instances is in an order: two
\* live ones are never each older than the other, nor neither of them.
THEOREM TypeCorrect == Spec => []TypeOK
<1>1. InstancesSound => TypeOK
  BY NowSound DEF InstancesSound, TypeOK, Sound, Base, Rest, Ordered, Alive
<1> QED BY <1>1, InstancesAlwaysSound, PTL

\* Every walk of an eiflist (eigrp_network_unset, eigrp_finish_final,
\* eigrp_update_send_all) meets objects of its own live instance.
THEOREM ListedAlwaysLive == Spec => []ListedIsLive
<1>1. InstancesSound => ListedIsLive
  <2> SUFFICES ASSUME Sound(Now), NEW a \in As, NEW i \in eigrp[a].eiflist
               PROVE  /\ eigrp[a].alive /\ Owner(Now, i) = a
                      /\ ifp[i].info.address \in Addr
    BY DEF InstancesSound, ListedIsLive
  <2>1. ListedOK(Now, a, i) /\ Now.ifp = ifp /\ Now.eigrp = eigrp
    BY NowSound DEF Sound, Base, Listed
  <2> QED BY <2>1 DEF ListedOK, Info
<1> QED BY <1>1, InstancesAlwaysSound, PTL

\* No interface stays enabled on an address that zebra withdrew or that no
\* `network' statement matches any more.
THEOREM EnabledAlwaysJustified == Spec => []EnabledIsJustified
<1>1. InstancesSound => EnabledIsJustified
  <2> SUFFICES ASSUME Sound(Now), NEW a \in As, NEW i \in eigrp[a].eiflist
               PROVE  /\ ifp[i].real
                      /\ ifp[i].info.address \in ifp[i].addrs
                      /\ \E n \in eigrp[a].networks : <<n, ifp[i].info.address>> \in Covers
    BY DEF InstancesSound, EnabledIsJustified
  <2>1. Now.ifp = ifp /\ Now.eigrp = eigrp /\ Now \in State
    BY NowSound
  <2>2. ListedOK(Now, a, i) /\ i \in Ifp
    BY <2>1, Types DEF Sound, Base, Listed, InstanceType
  <2>3. ifp[i].addrs # {} => ifp[i].real
    BY <2>1, <2>2 DEF Sound, Base, Rest, Addressed
  <2> QED BY <2>1, <2>2, <2>3 DEF ListedOK, Info
<1> QED BY <1>1, InstancesAlwaysSound, PTL

\* In whichever order addresses, networks and router ids come, an instance with a
\* router id leaves no interface aside that it would take.
THEOREM CoveredAlwaysTaken == Spec => []CoveredIsTaken
<1>1. InstancesSound => CoveredIsTaken
  BY NowSound DEF InstancesSound, Sound, Taken, CoveredIsTaken
<1> QED BY <1>1, InstancesAlwaysSound, PTL

\* A protocol is redistributed by one instance at most, and the instance counts
\* what it asked zebra for: eigrp_redistribute_unset never takes the count below
\* zero.
THEOREM RedistributeAlwaysCounted == Spec => []RedistributeCounted
<1>1. InstancesSound => RedistributeCounted
  <2> SUFFICES ASSUME Sound(Now) PROVE RedistributeCounted
    BY DEF InstancesSound
  <2>1. Counted(Now) /\ Now.eigrp = eigrp /\ Now.daemon = daemon
    BY NowSound DEF Sound, Base, Rest
  <2> QED BY <2>1 DEF Counted, RedistributeCounted
<1> QED BY <1>1, InstancesAlwaysSound, PTL

\* While an instance lives, what zebra announces does not change a router id that
\* it uses.
THEOREM RouterIdAlwaysSticky == Spec => RouterIdSticky
<1>1. InstancesSound /\ [Next]_vars =>
        [\A a \in As : eigrp[a].alive /\ eigrp'[a].alive /\ eigrp[a].rid # Unset =>
            eigrp'[a].rid \in {eigrp[a].rid, eigrp[a].static}]_vars
  <2> SUFFICES ASSUME Sound(Now), [Next]_vars
               PROVE  \A a \in As : eigrp[a].alive /\ eigrp'[a].alive /\ eigrp[a].rid # Unset =>
                            eigrp'[a].rid \in {eigrp[a].rid, eigrp[a].static}
    BY DEF InstancesSound
  <2>1. Sticky(Now, Now')
    BY NextSound
  <2>2. Now.eigrp = eigrp /\ (Now').eigrp = eigrp'
    BY DEF Now
  <2> QED BY <2>1, <2>2 DEF Sticky
<1> QED BY <1>1, InstancesAlwaysSound, PTL DEF Spec, RouterIdSticky

-------------------------------------------------------------------------------
(* Connected routes                                                          *)

\* No other interface may get address p.
Alone(i, p) == \A j \in Ifp \ {i} : p \notin Home[j]

Routes(s, a, p, i) == s.eigrp[a].table[p][i]

ConnectedOK(s, a, i) ==
    s.ifp[i].up /\ Alone(i, Info(s, i).address) =>
        Routes(s, a, Info(s, i).address, i) > 0 /\ Info(s, i).hello

\* EnabledIsConnected, but for the interfaces X that the handler is not done
\* with; and why the deletion of one's prefix spares the others: an object is
\* made for an address of its own interface.
Wired(s, X) ==
    /\ \A i \in Ifp : /\ s.ifp[i].addrs \subseteq Home[i]
                      /\ Info(s, i).address \in Home[i] \cup {Unset}
    /\ \A a \in As : \A i \in s.eigrp[a].eiflist :
        /\ Owner(s, i) = a /\ Info(s, i).address \in Addr
        /\ i \in X \/ ConnectedOK(s, a, i)

\* What t adds to s, and what it may take from the interfaces X only.
Carries(s, t, X) ==
    /\ \A i \in Ifp :
        /\ t.ifp[i].addrs \subseteq Home[i]
        /\ Owner(t, i) = Owner(s, i) /\ Info(t, i).address = Info(s, i).address
        /\ i \in X \/ (/\ t.ifp[i].up => s.ifp[i].up
                       /\ Info(s, i).hello => Info(t, i).hello)
    /\ \A a \in As :
        /\ t.eigrp[a].eiflist \subseteq s.eigrp[a].eiflist
        /\ \A i \in t.eigrp[a].eiflist \ X :
              Routes(s, a, Info(s, i).address, i) > 0 =>
                Routes(t, a, Info(s, i).address, i) > 0

\* What a handler leaves alone stays connected.
LEMMA WiredCarried ==
    ASSUME NEW s \in State, NEW t, NEW X, NEW Y, Wired(s, X), Carries(s, t, Y)
    PROVE  Wired(t, X \cup Y)
<1>1. \A i \in Ifp : /\ t.ifp[i].addrs \subseteq Home[i]
                     /\ Info(t, i).address \in Home[i] \cup {Unset}
  BY DEF Wired, Carries
<1>2. ASSUME NEW a \in As, NEW i \in t.eigrp[a].eiflist
      PROVE  /\ Owner(t, i) = a /\ Info(t, i).address \in Addr
             /\ i \in X \cup Y \/ ConnectedOK(t, a, i)
  <2>1. i \in s.eigrp[a].eiflist /\ i \in Ifp
    BY <1>2, Types DEF Carries, InstanceType
  <2>2. Owner(t, i) = Owner(s, i) /\ Info(t, i).address = Info(s, i).address
    BY <2>1 DEF Carries
  <2>3. /\ Owner(s, i) = a /\ Info(s, i).address \in Addr
        /\ i \in X \/ ConnectedOK(s, a, i)
    BY <2>1 DEF Wired
  <2>4. CASE i \notin X \cup Y
    <3>1. /\ t.ifp[i].up => s.ifp[i].up
          /\ Info(s, i).hello => Info(t, i).hello
          /\ Routes(s, a, Info(s, i).address, i) > 0 =>
                Routes(t, a, Info(s, i).address, i) > 0
      BY <1>2, <2>1, <2>4 DEF Carries
    <3>2. ConnectedOK(t, a, i)
      BY <2>2, <2>3, <2>4, <3>1 DEF ConnectedOK
    <3> QED BY <2>2, <2>3, <3>2
  <2> QED BY <2>2, <2>3, <2>4
<1> QED BY <1>1, <1>2 DEF Wired

LEMMA WiredMore ==
    ASSUME NEW s, NEW X, NEW Y, Wired(s, X), X \subseteq Y PROVE Wired(s, Y)
BY DEF Wired

\* eigrp_intf_up
LEMMA IntfUpWires ==
    ASSUME NEW s \in State, NEW I, NEW t, t = IntfUp(s, I)
    PROVE  /\ \A i \in Ifp : /\ t.ifp[i].up = s.ifp[i].up
                             /\ i \in I => Info(t, i).hello
                             /\ Info(s, i).hello => Info(t, i).hello
           /\ \A a \in As, p \in Addr, i \in Ifp :
                Routes(t, a, p, i) =
                    IF i \in I /\ Owner(s, i) = a /\ Info(s, i).address = p
                    THEN Routes(s, a, p, i) + 1 ELSE Routes(s, a, p, i)
<1> DEFINE up == [i \in Ifp |-> IF i \in I
                        THEN [s.ifp[i] EXCEPT !.info.obuf = TRUE, !.info.hello = TRUE]
                        ELSE s.ifp[i]]
           table(a) == [p \in Addr |-> [i \in Ifp |->
                          IF i \in I /\ Owner(s, i) = a /\ Info(s, i).address = p
                          THEN s.eigrp[a].table[p][i] + 1 ELSE s.eigrp[a].table[p][i]]]
           inst == [a \in As |-> [s.eigrp[a] EXCEPT !.table = table(a)]]
<1>1. t.ifp = up /\ t.eigrp = inst
  BY DEF IntfUp, State
<1>2. \A i \in Ifp : /\ up[i].up = s.ifp[i].up
                     /\ i \in I => up[i].info.hello
                     /\ s.ifp[i].info.hello => up[i].info.hello
  BY Types DEF IfpType, InfoType
<1>3. \A a \in As : inst[a].table = table(a)
  <2> SUFFICES ASSUME NEW a \in As PROVE inst[a].table = table(a)
    OBVIOUS
  <2>1. s.eigrp[a] \in InstanceType /\ inst[a] = [s.eigrp[a] EXCEPT !.table = table(a)]
    BY Types
  <2> HIDE DEF table, inst
  <2> QED BY <2>1 DEF InstanceType
<1>4. \A a \in As, p \in Addr, i \in Ifp :
        table(a)[p][i] = IF i \in I /\ Owner(s, i) = a /\ Info(s, i).address = p
                         THEN s.eigrp[a].table[p][i] + 1 ELSE s.eigrp[a].table[p][i]
  OBVIOUS
<1> HIDE DEF up, inst, table
<1>5. \A i \in Ifp : /\ t.ifp[i].up = s.ifp[i].up
                     /\ i \in I => Info(t, i).hello
                     /\ Info(s, i).hello => Info(t, i).hello
  BY <1>1, <1>2 DEF Info
<1>6. \A a \in As, p \in Addr, i \in Ifp : Routes(t, a, p, i) = table(a)[p][i]
  BY <1>1, <1>3 DEF Routes
<1> QED BY <1>4, <1>5, <1>6 DEF Routes

\* eigrp_intf_down
LEMMA IntfDownWires ==
    ASSUME NEW s \in State, NEW I, NEW t, t = IntfDown(s, I)
    PROVE  \A i \in Ifp : /\ t.ifp[i].up = s.ifp[i].up
                          /\ i \notin I => t.ifp[i] = s.ifp[i]
<1> DEFINE down == [i \in Ifp |-> IF i \in I
                        THEN [s.ifp[i] EXCEPT !.info.hello = FALSE, !.info.nbrs = {}]
                        ELSE s.ifp[i]]
<1>1. t.ifp = down
  BY DEF IntfDown, State
<1>2. \A i \in Ifp : down[i].up = s.ifp[i].up /\ (i \notin I => down[i] = s.ifp[i])
  BY Types DEF IfpType
<1> QED BY <1>1, <1>2

\* eigrp_intf_free
LEMMA IntfFreeWires ==
    ASSUME NEW s \in State, NEW I, NEW t, t = IntfFree(s, I)
    PROVE  /\ \A i \in Ifp : /\ t.ifp[i].up = s.ifp[i].up
                             /\ i \notin I => t.ifp[i] = s.ifp[i]
           /\ \A a \in As, p \in Addr, i \in Ifp :
                \/ Routes(t, a, p, i) = Routes(s, a, p, i)
                \/ \E j \in I : Owner(s, j) = a /\ Info(s, j).address = p
<1> DEFINE d == IntfDown(s, I)
           Of(a) == {i \in I : Owner(s, i) = a}
           prefixes(a) == {Info(s, i).address : i \in Of(a)}
           table(a) == [p \in Addr |-> [i \in Ifp |->
                            IF p \in prefixes(a) THEN 0 ELSE s.eigrp[a].table[p][i]]]
           inst == [a \in As |-> [s.eigrp[a] EXCEPT !.eiflist = @ \ Of(a),
                        !.table = [p \in Addr |-> [i \in Ifp |->
                            IF p \in prefixes(a) THEN 0 ELSE @[p][i]]]]]
<1>1. t = [d EXCEPT !.eigrp = inst]
  BY DEF IntfFree
<1>2. d \in State
  BY IntfDownKeeps DEF Kept
<1>3. \A a \in As : inst[a].table = table(a)
  <2> SUFFICES ASSUME NEW a \in As PROVE inst[a].table = table(a)
    OBVIOUS
  <2> DEFINE less == [s.eigrp[a] EXCEPT !.eiflist = @ \ Of(a)]
  <2>1. /\ s.eigrp[a] \in InstanceType
        /\ inst[a] = [less EXCEPT !.table = [p \in Addr |-> [i \in Ifp |->
                            IF p \in prefixes(a) THEN 0 ELSE @[p][i]]]]
    BY Types
  <2>2. less.table = s.eigrp[a].table /\ DOMAIN less = DOMAIN s.eigrp[a]
    BY <2>1 DEF InstanceType
  <2>3. inst[a] = [less EXCEPT !.table = table(a)]
    <3> HIDE DEF less, prefixes
    <3> QED BY <2>1, <2>2
  <2>4. "table" \in DOMAIN less
    BY <2>1, <2>2 DEF InstanceType
  <2> HIDE DEF table, inst, less
  <2> QED BY <2>3, <2>4
<1>4. \A i \in Ifp : d.ifp[i].up = s.ifp[i].up /\ (i \notin I => d.ifp[i] = s.ifp[i])
  BY IntfDownWires
<1>5. t.ifp = d.ifp /\ t.eigrp = inst
  <2> HIDE DEF d, inst
  <2> QED BY <1>1, <1>2 DEF State
<1>6. \A a \in As, p \in Addr, i \in Ifp :
        \/ table(a)[p][i] = s.eigrp[a].table[p][i]
        \/ \E j \in I : Owner(s, j) = a /\ Info(s, j).address = p
  OBVIOUS
<1> HIDE DEF d, inst, table
<1> QED BY <1>3, <1>4, <1>5, <1>6 DEF Routes

\* An interface that is brought up is connected.
LEMMA IntfUpWired ==
    ASSUME NEW s \in State, NEW X, NEW I, Wired(s, X), NEW t, t = IntfUp(s, I)
    PROVE  Wired(t, X \ I)
<1>1. /\ Kept(s, t)
      /\ \A a \in As : t.eigrp[a].eiflist = s.eigrp[a].eiflist
  BY IntfUpKeeps
<1>2. \A i \in Ifp : /\ t.ifp[i].up = s.ifp[i].up
                     /\ i \in I => Info(t, i).hello
                     /\ Info(s, i).hello => Info(t, i).hello
  BY IntfUpWires
<1>3. \A a \in As, p \in Addr, i \in Ifp :
        Routes(t, a, p, i) = IF i \in I /\ Owner(s, i) = a /\ Info(s, i).address = p
                             THEN Routes(s, a, p, i) + 1 ELSE Routes(s, a, p, i)
  BY IntfUpWires
<1>4. \A i \in Ifp : /\ t.ifp[i].addrs \subseteq Home[i]
                     /\ Info(t, i).address \in Home[i] \cup {Unset}
  BY <1>1 DEF Wired, Kept
<1>5. ASSUME NEW a \in As, NEW i \in t.eigrp[a].eiflist
      PROVE  /\ Owner(t, i) = a /\ Info(t, i).address \in Addr
             /\ i \in X \ I \/ ConnectedOK(t, a, i)
  <2> DEFINE p == Info(s, i).address
  <2>1. i \in s.eigrp[a].eiflist /\ i \in Ifp
    BY <1>1, <1>5, Types DEF InstanceType
  <2>2. /\ Owner(s, i) = a /\ p \in Addr
        /\ i \in X \/ ConnectedOK(s, a, i)
    BY <2>1 DEF Wired
  <2>3. Owner(t, i) = a /\ Info(t, i).address = p
    BY <1>1, <2>1, <2>2 DEF Kept
  <2>4. Routes(s, a, p, i) \in Nat
    BY <2>1, <2>2, Types DEF InstanceType, Routes
  <2>5. CASE i \in I
    <3>1. Routes(t, a, p, i) > 0 /\ Info(t, i).hello
      BY <1>2, <1>3, <2>1, <2>2, <2>4, <2>5
    <3> QED BY <2>2, <2>3, <3>1 DEF ConnectedOK
  <2>6. CASE i \notin I
    <3>1. Routes(t, a, p, i) = Routes(s, a, p, i)
      BY <1>3, <2>1, <2>2, <2>6
    <3>2. t.ifp[i].up = s.ifp[i].up /\ (Info(s, i).hello => Info(t, i).hello)
      BY <1>2, <2>1
    <3> QED BY <2>2, <2>3, <2>6, <3>1, <3>2 DEF ConnectedOK
  <2> QED BY <2>5, <2>6
<1> QED BY <1>4, <1>5 DEF Wired

\* One that is brought down may not be.
LEMMA IntfDownWired ==
    ASSUME NEW s \in State, NEW X, NEW I, Wired(s, X), NEW t, t = IntfDown(s, I)
    PROVE  Wired(t, X \cup I)
<1>1. /\ Kept(s, t) /\ t.eigrp = s.eigrp
      /\ \A i \in Ifp : t.ifp[i].up = s.ifp[i].up /\ (i \notin I => t.ifp[i] = s.ifp[i])
  BY IntfDownKeeps, IntfDownWires
<1>2. Carries(s, t, I)
  BY <1>1 DEF Carries, Kept, Routes, Wired, Info
<1> QED BY <1>2, WiredCarried

\* eigrp_intf_reset
LEMMA IntfResetWired ==
    ASSUME NEW s \in State, NEW X, NEW i, Wired(s, X), NEW t, t = IntfReset(s, i)
    PROVE  Wired(t, X \ {i})
<1> DEFINE d == IntfDown(s, {i})
<1>1. d \in State /\ Wired(d, X \cup {i})
  BY IntfDownKeeps, IntfDownWired DEF Kept
<1>2. t = IntfUp(d, {i})
  BY DEF IntfReset
<1> HIDE DEF d
<1>3. Wired(t, (X \cup {i}) \ {i})
  BY <1>1, <1>2, IntfUpWired
<1> QED BY <1>3, WiredMore

\* What is freed is on no list any more; the prefix deleted with it is one that no
\* other interface may have, or it was not alone there.
LEMMA IntfFreeWired ==
    ASSUME NEW s \in State, NEW X, NEW I \in SUBSET Ifp, Wired(s, X),
           NEW t, t = IntfFree(s, I)
    PROVE  Wired(t, X \ I)
<1>1. Kept(s, t)
  BY IntfFreeKeeps
<1>2. \A a \in As : t.eigrp[a].eiflist =
        s.eigrp[a].eiflist \ {i \in I : Owner(s, i) = a}
  BY IntfFreeKeeps
<1>3. \A i \in Ifp : t.ifp[i].up = s.ifp[i].up /\ (i \notin I => t.ifp[i] = s.ifp[i])
  BY IntfFreeWires
<1>4. \A a \in As, p \in Addr, i \in Ifp :
        \/ Routes(t, a, p, i) = Routes(s, a, p, i)
        \/ \E j \in I : Owner(s, j) = a /\ Info(s, j).address = p
  BY IntfFreeWires
<1>5. \A i \in Ifp : /\ t.ifp[i].addrs \subseteq Home[i]
                     /\ Info(t, i).address \in Home[i] \cup {Unset}
  BY <1>1 DEF Wired, Kept
<1>6. ASSUME NEW a \in As, NEW i \in t.eigrp[a].eiflist
      PROVE  /\ Owner(t, i) = a /\ Info(t, i).address \in Addr
             /\ i \in X \ I \/ ConnectedOK(t, a, i)
  <2> DEFINE p == Info(s, i).address
  <2>1. i \in s.eigrp[a].eiflist /\ i \in Ifp
    BY <1>2, <1>6, Types DEF InstanceType
  <2>2. /\ Owner(s, i) = a /\ p \in Addr
        /\ i \in X \/ ConnectedOK(s, a, i)
    BY <2>1 DEF Wired
  <2>3. Owner(t, i) = a /\ Info(t, i).address = p
    BY <1>1, <2>1, <2>2 DEF Kept
  <2>4. i \notin I
    BY <1>2, <1>6, <2>2
  <2>5. t.ifp[i] = s.ifp[i]
    BY <1>3, <2>1, <2>4
  <2>6. Alone(i, p) => Routes(t, a, p, i) = Routes(s, a, p, i)
    <3> SUFFICES ASSUME NEW j \in I, Info(s, j).address = p
                 PROVE  ~ Alone(i, p)
      BY <1>4, <2>1, <2>2
    <3>1. j \in Ifp \ {i} /\ p # Unset
      BY <2>2, <2>4, ConstantsAssumption
    <3>2. p \in Home[j]
      BY <3>1 DEF Wired
    <3> QED BY <3>1, <3>2 DEF Alone
  <2> QED BY <2>2, <2>3, <2>4, <2>5, <2>6 DEF ConnectedOK, Info
<1> QED BY <1>5, <1>6 DEF Wired

\* eigrp_network_run_interface: what it takes with its link up, it connects.
LEMMA NetworkRunWired ==
    ASSUME NEW s \in State, Wired(s, {}), NEW a \in As, NEW nets, NEW I \in SUBSET Ifp,
           NEW t, t = NetworkRunInterface(s, a, nets, I)
    PROVE  t \in State /\ Wired(t, {})
<1> DEFINE T == Wanted(s, nets, I)
           U == {i \in T : s.ifp[i].up}
<1>1. PICK u : IsTaking(s, u, a, nets, T) /\ t = IntfUp(u, U)
  BY NetworkTakes
<1>2. \A i \in T : i \in Ifp /\ Owner(s, i) = NoObject /\ NoObject \notin As
  BY ConstantsAssumption DEF Wanted
<1> HIDE DEF T
<1>3. \A i \in Ifp : Matched(s, i, nets) \subseteq s.ifp[i].addrs \cap Addr
  BY Types DEF Matched
<1>4. \A i \in Ifp : /\ u.ifp[i].addrs \subseteq Home[i]
                     /\ Info(u, i).address \in Home[i] \cup {Unset}
  BY <1>1, <1>3 DEF IsTaking, Wired, Info
<1>5. ASSUME NEW b \in As, NEW i \in u.eigrp[b].eiflist
      PROVE  /\ Owner(u, i) = b /\ Info(u, i).address \in Addr
             /\ i \in U \/ ConnectedOK(u, b, i)
  <2>1. CASE b = a /\ i \in T
    <3>1. i \in Ifp /\ Owner(u, i) = b /\ Info(u, i).address \in Addr
      BY <1>1, <1>2, <1>3, <2>1 DEF IsTaking
    <3>2. u.ifp[i].up = s.ifp[i].up
      BY <1>1, <3>1 DEF IsTaking
    <3> QED BY <2>1, <3>1, <3>2 DEF ConnectedOK
  <2>2. CASE ~ (b = a /\ i \in T)
    <3>1. i \in s.eigrp[b].eiflist
      BY <1>1, <1>5, <2>2 DEF IsTaking
    <3>2. /\ i \in Ifp /\ Owner(s, i) = b /\ Info(s, i).address \in Addr
          /\ ConnectedOK(s, b, i)
      BY <3>1, Types DEF Wired, InstanceType
    <3>3. u.ifp[i].info = s.ifp[i].info /\ u.ifp[i].up = s.ifp[i].up
      BY <1>1, <1>2, <3>2 DEF IsTaking
    <3>4. u.eigrp[b].table = s.eigrp[b].table
      BY <1>1 DEF IsTaking
    <3> QED BY <3>2, <3>3, <3>4 DEF ConnectedOK, Owner, Info, Routes
  <2> QED BY <2>1, <2>2
<1>6. Wired(u, U) /\ u \in State
  BY <1>1, <1>4, <1>5 DEF Wired, IsTaking
<1>7. t \in State /\ Wired(t, U \ U)
  BY <1>1, <1>6, IntfUpKeeps, IntfUpWired DEF Kept
<1> QED BY <1>7, WiredMore

\* A change of an instance that leaves its list and its table alone.
LEMMA InstanceWired ==
    ASSUME NEW s \in State, Wired(s, {}), NEW t, t.ifp = s.ifp,
           \A b \in As : \/ t.eigrp[b].eiflist = {}
                         \/ /\ t.eigrp[b].eiflist = s.eigrp[b].eiflist
                            /\ t.eigrp[b].table = s.eigrp[b].table
    PROVE  Wired(t, {})
<1>1. Carries(s, t, {})
  BY DEF Carries, Wired, Owner, Info, Routes
<1>2. Wired(t, {} \cup {})
  BY <1>1, WiredCarried
<1> QED BY <1>2, WiredMore

\* eigrp_intf_update
LEMMA IntfUpdateWired ==
    ASSUME NEW s \in State, Wired(s, {}), NEW a \in As, NEW I \in SUBSET Ifp
    PROVE  IntfUpdate(s, a, I) \in State /\ Wired(IntfUpdate(s, a, I), {})
<1> DEFINE t == NetworkRunInterface(s, a, s.eigrp[a].networks, I)
<1>1. t \in State /\ Wired(t, {})
  BY NetworkRunWired
<1> QED BY <1>1 DEF IntfUpdate

\* eigrp_router_id_update
LEMMA RouterIdUpdateWired ==
    ASSUME NEW s \in State, Wired(s, {}), NEW a \in As
    PROVE  RouterIdUpdate(s, a) \in State /\ Wired(RouterIdUpdate(s, a), {})
<1> DEFINE old == s.eigrp[a].rid
           new == IF s.eigrp[a].static # Unset THEN s.eigrp[a].static
                  ELSE IF old # Unset THEN old ELSE s.daemon.zebraId
           e == WithRid(s.eigrp[a], new)
           u == WithInstance(s, a, e)
<1>1. RouterIdUpdate(s, a) = IF new = old THEN u ELSE IntfUpdate(u, a, Ifp)
  BY DEF RouterIdUpdate, WithInstance, WithRid
<1>2. new \in RouterId /\ s.eigrp[a] \in InstanceType
  BY Types DEF InstanceType, DaemonType
<1> HIDE DEF new
<1>3. e \in InstanceType /\ e.eiflist = s.eigrp[a].eiflist /\ e.table = s.eigrp[a].table
  BY <1>2, RidBuilt
<1> HIDE DEF e
<1>4. /\ u \in State /\ u.ifp = s.ifp
      /\ \A b \in As : u.eigrp[b] = IF b = a THEN e ELSE s.eigrp[b]
  BY <1>3, InstanceBuilt
<1> HIDE DEF u
<1>5. Wired(u, {})
  BY <1>3, <1>4, InstanceWired
<1> QED BY <1>1, <1>4, <1>5, IntfUpdateWired

\* The instance with other networks.
LEMMA NetworksWired ==
    ASSUME NEW s \in State, Wired(s, {}), NEW a \in As, NEW nets \in SUBSET Net,
           NEW t, t = WithInstance(s, a, WithNetworks(s.eigrp[a], nets))
    PROVE  t \in State /\ t.ifp = s.ifp /\ Wired(t, {})
<1> DEFINE e == WithNetworks(s.eigrp[a], nets)
<1>1. e \in InstanceType /\ e.eiflist = s.eigrp[a].eiflist /\ e.table = s.eigrp[a].table
  BY Types, NetworksBuilt
<1>2. t = WithInstance(s, a, e)
  OBVIOUS
<1> HIDE DEF e
<1>3. /\ t \in State /\ t.ifp = s.ifp
      /\ \A b \in As : t.eigrp[b] = IF b = a THEN e ELSE s.eigrp[b]
  BY <1>1, <1>2, InstanceBuilt
<1> QED BY <1>1, <1>3, InstanceWired

\* eigrp_network_set
LEMMA NetworkSetWired ==
    ASSUME NEW s \in State, Wired(s, {}), NEW a \in As, NEW n \in Net
    PROVE  Wired(NetworkSet(s, a, n), {})
<1> DEFINE nets == s.eigrp[a].networks \cup {n}
           t == WithInstance(s, a, WithNetworks(s.eigrp[a], nets))
           u == IF t.eigrp[a].rid = Unset THEN RouterIdUpdate(t, a) ELSE t
<1>1. NetworkSet(s, a, n) = NetworkRunInterface(u, a, {n}, Ifp)
  BY DEF NetworkSet, WithInstance, WithNetworks
<1>2. nets \in SUBSET Net
  BY Types DEF InstanceType
<1> HIDE DEF nets
<1>3. t \in State /\ Wired(t, {})
  BY <1>2, NetworksWired
<1> HIDE DEF t
<1>4. u \in State /\ Wired(u, {})
  BY <1>3, RouterIdUpdateWired
<1> HIDE DEF u
<1> QED BY <1>1, <1>4, NetworkRunWired

\* A process that has just started, or is gone.
LEMMA GoneWired ==
    ASSUME NEW why PROVE Wired(Gone(why), {}) /\ Wired(Fresh, {})
<1>1. /\ Fresh.ifp = [i \in Ifp |-> NoIfp] /\ Fresh.eigrp = [a \in As |-> Blank]
      /\ Gone(why).ifp = Fresh.ifp /\ Gone(why).eigrp = Fresh.eigrp
  BY DEF Fresh, Gone
<1>2. NoIfp.addrs = {} /\ NoIfp.info.address = Unset /\ Blank.eiflist = {}
  BY DEF NoIfp, NoInfo, Blank
<1> HIDE DEF Fresh, Gone
<1> QED BY <1>1, <1>2 DEF Wired, Info

\* eigrp_network_unset
LEMMA NetworkUnsetWired ==
    ASSUME NEW s \in State, Wired(s, {}), NEW a \in As, NEW n \in Net
    PROVE  Wired(NetworkUnset(s, a, n), {})
<1> DEFINE nets == s.eigrp[a].networks \ {n}
           t == WithInstance(s, a, WithNetworks(s.eigrp[a], nets))
           gone == Unmatched(s, a, n)
<1>0. CASE \E i \in gone : ~ Info(s, i).obuf
  BY <1>0, GoneWired DEF NetworkUnset
<1> SUFFICES ASSUME ~ \E i \in gone : ~ Info(s, i).obuf
             PROVE  Wired(NetworkUnset(s, a, n), {})
  BY <1>0
<1>1. NetworkUnset(s, a, n) = IntfFree(t, gone)
  BY DEF NetworkUnset, WithInstance, WithNetworks
<1>2. nets \in SUBSET Net
  BY Types DEF InstanceType
<1> HIDE DEF nets
<1>3. t \in State /\ Wired(t, {})
  BY <1>2, NetworksWired
<1> HIDE DEF t
<1>4. gone \in SUBSET Ifp
  BY Types DEF InstanceType, Unmatched
<1> HIDE DEF gone
<1>5. Wired(IntfFree(t, gone), {} \ gone)
  BY <1>3, <1>4, IntfFreeWired
<1> QED BY <1>1, <1>5, WiredMore

\* eigrp_get
LEMMA GetWired ==
    ASSUME NEW s \in State, Wired(s, {}), NEW a \in As
    PROVE  Wired(Get(s, a), {})
<1>1. CASE s.eigrp[a].alive
  BY <1>1 DEF Get
<1>2. CASE ~ s.eigrp[a].alive
  <2> DEFINE e == [Blank EXCEPT !.alive = TRUE, !.older = Alive(s)]
             t == WithInstance(s, a, e)
  <2>1. Get(s, a) = t
    BY <1>2 DEF Get, WithInstance
  <2>2. e.eiflist = {}
    BY DEF Blank
  <2> HIDE DEF e
  <2>3. t.ifp = s.ifp /\ \A b \in As : t.eigrp[b] = IF b = a THEN e ELSE s.eigrp[b]
    BY DEF WithInstance, State
  <2> HIDE DEF t
  <2>4. Wired(t, {})
    BY <2>2, <2>3, InstanceWired
  <2> QED BY <2>1, <2>4
<1> QED BY <1>1, <1>2

\* eigrp_finish_final: the interfaces of the others stay as they were.
LEMMA FinishWired ==
    ASSUME NEW s \in State, Wired(s, {}), NEW a \in As
    PROVE  Wired(Finish(s, a), {})
<1> DEFINE I == s.eigrp[a].eiflist
           t == IntfFree(s, I)
           f == [i \in Ifp |-> IF Owner(s, i) = a
                               THEN [t.ifp[i] EXCEPT !.info.owner = Freed]
                               ELSE t.ifp[i]]
           g == [b \in As |-> IF b = a THEN Blank
                              ELSE WithOlder(t.eigrp[b], t.eigrp[b].older \ {a})]
           v == Finish(s, a)
<1>1. I \in SUBSET Ifp
  BY Types DEF InstanceType
<1>2. t \in State /\ Kept(s, t) /\ Wired(t, {})
  <2> HIDE DEF I
  <2>1. Wired(t, {} \ I)
    BY <1>1, IntfFreeWired
  <2> QED BY <2>1, WiredMore, IntfFreeKeeps DEF Kept
<1>3. v = [t EXCEPT !.ifp = f, !.eigrp = g]
  BY DEF Finish, WithOlder
<1> HIDE DEF t, I
<1>4. v.ifp = f /\ v.eigrp = g
  <2> HIDE DEF f, g, v
  <2> QED BY <1>2, <1>3 DEF State
<1>5. \A i \in Ifp :
        /\ f[i].up = t.ifp[i].up /\ f[i].addrs = t.ifp[i].addrs
        /\ f[i].info.address = t.ifp[i].info.address
        /\ f[i].info.hello = t.ifp[i].info.hello
        /\ Owner(t, i) # a => f[i] = t.ifp[i]
  <2> SUFFICES ASSUME NEW i \in Ifp
               PROVE  /\ f[i].up = t.ifp[i].up /\ f[i].addrs = t.ifp[i].addrs
                      /\ f[i].info.address = t.ifp[i].info.address
                      /\ f[i].info.hello = t.ifp[i].info.hello
                      /\ Owner(t, i) # a => f[i] = t.ifp[i]
    OBVIOUS
  <2>1. t.ifp[i] \in IfpType /\ t.ifp[i].info \in InfoType /\ Owner(t, i) = Owner(s, i)
    BY <1>2, Types DEF Kept
  <2> QED BY <2>1 DEF IfpType, InfoType
<1>6. \A b \in As \ {a} : /\ g[b].eiflist = t.eigrp[b].eiflist
                          /\ g[b].table = t.eigrp[b].table
  <2> SUFFICES ASSUME NEW b \in As \ {a}
               PROVE  g[b].eiflist = t.eigrp[b].eiflist /\ g[b].table = t.eigrp[b].table
    OBVIOUS
  <2>1. t.eigrp[b] \in InstanceType /\ t.eigrp[b].older \ {a} \in SUBSET As
    BY <1>2, Types DEF InstanceType
  <2>2. g[b] = WithOlder(t.eigrp[b], t.eigrp[b].older \ {a})
    OBVIOUS
  <2> HIDE DEF g
  <2> QED BY <2>1, <2>2, OlderBuilt
<1>7. g[a].eiflist = {}
  BY BlankTyped
<1> HIDE DEF f, g, v
<1>8. \A i \in Ifp : /\ v.ifp[i].addrs \subseteq Home[i]
                     /\ Info(v, i).address \in Home[i] \cup {Unset}
  BY <1>2, <1>4, <1>5 DEF Wired, Info
<1>9. ASSUME NEW b \in As, NEW i \in v.eigrp[b].eiflist
      PROVE  Owner(v, i) = b /\ Info(v, i).address \in Addr /\ ConnectedOK(v, b, i)
  <2>1. b # a /\ i \in t.eigrp[b].eiflist
    BY <1>4, <1>6, <1>7, <1>9
  <2>2. /\ i \in Ifp /\ Owner(t, i) = b /\ Info(t, i).address \in Addr
        /\ ConnectedOK(t, b, i)
    BY <1>2, <2>1, Types DEF Wired, InstanceType
  <2>3. v.ifp[i] = t.ifp[i] /\ v.eigrp[b].table = t.eigrp[b].table
    BY <1>4, <1>5, <1>6, <2>1, <2>2
  <2> QED BY <2>2, <2>3 DEF ConnectedOK, Owner, Info, Routes
<1>10. Wired(v, {})
  BY <1>8, <1>9 DEF Wired
<1> QED BY <1>10 DEF v

\* The next state is the one a handler leaves, or that of a process that died.
LEMMA BecomesWired ==
    ASSUME NEW t, Wired(t, {}), Becomes(t) PROVE Wired(Now', {})
<1>1. (Now').ifp = t.ifp /\ (Now').eigrp = t.eigrp
  BY DEF Becomes, Now
<1> HIDE DEF Becomes, Now
<1> QED BY <1>1 DEF Wired, ConnectedOK, Owner, Info, Routes

LEMMA FollowsWired ==
    ASSUME NEW i, NEW t, Wired(t, {}), Follows(i, t) PROVE Wired(Now', {})
<1>1. Wired(Gone("crashed"), {})
  BY GoneWired
<1> QED BY <1>1, BecomesWired DEF Follows

\* A change of an interface that keeps its object's owner and address.
LEMMA IfpWired ==
    ASSUME NEW s \in State, Wired(s, {}), NEW i \in Ifp, NEW e \in IfpType, NEW X,
           NEW t, t = WithIfp(s, i, e), e.addrs \subseteq Home[i],
           e.info.owner = s.ifp[i].info.owner, e.info.address = s.ifp[i].info.address,
           i \in X \/ (/\ e.up => s.ifp[i].up
                       /\ s.ifp[i].info.hello => e.info.hello)
    PROVE  t \in State /\ Wired(t, X)
<1>1. /\ t \in State /\ t.eigrp = s.eigrp
      /\ \A j \in Ifp : t.ifp[j] = IF j = i THEN e ELSE s.ifp[j]
  BY IfpBuilt
<1>2. Carries(s, t, X)
  BY <1>1 DEF Carries, Wired, Owner, Info, Routes
<1>3. Wired(t, {} \cup X)
  BY <1>2, WiredCarried
<1> QED BY <1>1, <1>3, WiredMore

\* An interface without a link, or on no list, need not be connected.
LEMMA WiredLess ==
    ASSUME NEW s \in State, NEW i \in Ifp, Wired(s, {i}),
           ~ s.ifp[i].up \/ Owner(s, i) \notin As
    PROVE  Wired(s, {})
BY DEF Wired, ConnectedOK

\* An interface that comes up is brought up, if it has an object that is listed.
LEMMA IfpUpWired ==
    ASSUME Sound(Now), Wired(Now, {}), NEW i \in Ifp, IfpUp(i) PROVE Wired(Now', {})
<1> DEFINE e == WithLink(ifp[i], ifp[i].real, TRUE)
           t == WithIfp(Now, i, e)
<1>1. /\ Now \in State /\ ifp[i] \in IfpType /\ ifp[i].real \in BOOLEAN /\ Now.ifp = ifp
      /\ NoObject \notin As /\ ifp[i].addrs \subseteq Home[i]
  BY NowSound, ConstantsAssumption DEF IfpType, Wired
<1>2. t = [Now EXCEPT !.ifp[i].up = TRUE]
  BY <1>1 DEF WithIfp, WithLink, IfpType
<1>3. e \in IfpType /\ e.addrs = ifp[i].addrs /\ e.info = ifp[i].info
  BY <1>1, LinkBuilt
<1> HIDE DEF e
<1>4. t \in State /\ Wired(t, {i})
  BY <1>1, <1>3, IfpWired
<1> HIDE DEF t
<1>5. Owner(t, i) = NoObject => Wired(t, {})
  BY <1>1, <1>4, WiredLess
<1>6. Wired(IntfReset(t, i), {i} \ {i}) /\ Wired(IntfUp(t, {i}), {i} \ {i})
  BY <1>4, IntfResetWired, IntfUpWired
<1>7. Wired(IntfReset(t, i), {}) /\ Wired(IntfUp(t, {i}), {})
  BY <1>6, WiredMore
<1>8. \/ Owner(t, i) = NoObject /\ Becomes(t)
      \/ Follows(i, IntfReset(t, i)) \/ Follows(i, IntfUp(t, {i}))
  BY <1>2 DEF IfpUp
<1> QED BY <1>5, <1>7, <1>8, BecomesWired, FollowsWired

\* One that goes down need not be connected.
LEMMA IfpDownWired ==
    ASSUME Sound(Now), Wired(Now, {}), NEW i \in Ifp, IfpDown(i) PROVE Wired(Now', {})
<1> DEFINE e == WithLink(ifp[i], ifp[i].real, FALSE)
           t == WithIfp(Now, i, e)
           d == IntfDown(t, {i})
<1>1. /\ Now \in State /\ ifp[i] \in IfpType /\ ifp[i].real \in BOOLEAN /\ Now.ifp = ifp
      /\ ifp[i].addrs \subseteq Home[i]
  BY NowSound DEF IfpType, Wired
<1>2. t = [Now EXCEPT !.ifp[i].up = FALSE]
  BY <1>1 DEF WithIfp, WithLink, IfpType
<1>3. e \in IfpType /\ e.addrs = ifp[i].addrs /\ e.info = ifp[i].info /\ ~ e.up
  BY <1>1, LinkBuilt
<1>4. Becomes(d) \/ Follows(i, d)
  BY <1>2 DEF IfpDown
<1> HIDE DEF e
<1>5. t \in State /\ Wired(t, {})
  BY <1>1, <1>3, IfpWired
<1>6. ~ t.ifp[i].up
  BY <1>1, <1>3, IfpBuilt
<1> HIDE DEF t
<1>7. d \in State /\ Wired(d, {} \cup {i}) /\ ~ d.ifp[i].up
  BY <1>5, <1>6, IntfDownKeeps, IntfDownWires, IntfDownWired DEF Kept
<1> HIDE DEF d
<1>8. Wired(d, {i})
  BY <1>7, WiredMore
<1>9. Wired(d, {})
  BY <1>7, <1>8, WiredLess
<1> QED BY <1>4, <1>9, BecomesWired, FollowsWired

\* zebra creates an interface, or withdraws it and its object is freed.
LEMMA IfpLifeWired ==
    ASSUME Sound(Now), Wired(Now, {}), NEW i \in Ifp, IfpCreate(i) \/ IfpDestroy(i)
    PROVE  Wired(Now', {})
<1>1. /\ Now \in State /\ ifp[i] \in IfpType /\ ifp[i].up \in BOOLEAN /\ Now.ifp = ifp
      /\ ifp[i].addrs \subseteq Home[i]
  BY NowSound DEF IfpType, Wired
<1>2. CASE IfpCreate(i)
  <2> DEFINE e == WithLink(ifp[i], TRUE, ifp[i].up)
             t == WithIfp(Now, i, e)
  <2>1. t = [Now EXCEPT !.ifp[i].real = TRUE]
    BY <1>1 DEF WithIfp, WithLink, IfpType
  <2>2. e \in IfpType /\ e.addrs = ifp[i].addrs /\ e.info = ifp[i].info /\ e.up = ifp[i].up
    BY <1>1, LinkBuilt
  <2> HIDE DEF e
  <2>3. Wired(t, {})
    BY <1>1, <2>2, IfpWired
  <2> HIDE DEF t
  <2> QED BY <1>2, <2>1, <2>3, BecomesWired DEF IfpCreate
<1>3. CASE IfpDestroy(i)
  <2> DEFINE e == WithLink(ifp[i], FALSE, FALSE)
             t == WithIfp(Now, i, e)
  <2>1. t = [Now EXCEPT !.ifp[i].real = FALSE, !.ifp[i].up = FALSE]
    BY <1>1 DEF WithIfp, WithLink, IfpType
  <2>2. e \in IfpType /\ e.addrs = ifp[i].addrs /\ e.info = ifp[i].info /\ ~ e.up
    BY <1>1, LinkBuilt
  <2> HIDE DEF e
  <2>3. t \in State /\ Wired(t, {})
    BY <1>1, <2>2, IfpWired
  <2> HIDE DEF t
  <2>4. Wired(IntfFree(t, {i}), {} \ {i})
    BY <2>3, IntfFreeWired
  <2>5. Wired(IntfFree(t, {i}), {})
    BY <2>4, WiredMore
  <2>6. Becomes(t) \/ Follows(i, IntfFree(t, {i}))
    BY <1>3, <2>1 DEF IfpDestroy
  <2> QED BY <2>3, <2>5, <2>6, BecomesWired, FollowsWired
<1> QED BY <1>2, <1>3

\* The object goes with the interface, the others stay as they were.
LEMMA IfpDeleteWired ==
    ASSUME Sound(Now), Wired(Now, {}), NEW i \in Ifp, IfpDelete(i) PROVE Wired(Now', {})
<1> DEFINE f == [ifp EXCEPT ![i] = NoIfp]
           g == [a \in As |-> [eigrp[a] EXCEPT !.eiflist = @ \ {i}]]
           d == [daemon EXCEPT !.loose = daemon.loose \/ ifp[i].info.hello]
           t == [Now EXCEPT !.ifp = f, !.eigrp = g, !.daemon = d]
<1>1. /\ Now \in State /\ Now.ifp = ifp /\ Now.eigrp = eigrp
      /\ ifp \in [Ifp -> IfpType] /\ eigrp \in [As -> InstanceType]
  BY NowSound, Types
<1>2. Follows(i, IF ~ ifp[i].info.obuf THEN Gone("crashed") ELSE t)
  <2>1. t = [Now EXCEPT !.ifp[i] = NoIfp, !.eigrp = g,
                        !.daemon.loose = @ \/ ifp[i].info.hello]
    BY <1>1 DEF Now
  <2> HIDE DEF t
  <2> QED BY <2>1 DEF IfpDelete
<1>3. \A a \in As : g[a].eiflist = eigrp[a].eiflist \ {i} /\ g[a].table = eigrp[a].table
  BY <1>1 DEF InstanceType
<1>4. \A j \in Ifp : f[j] = IF j = i THEN NoIfp ELSE ifp[j]
  BY <1>1
<1>5. t.ifp = f /\ t.eigrp = g
  <2> HIDE DEF f, g, d
  <2> QED BY <1>1 DEF State
<1> HIDE DEF f, g, d, t
<1>6. \A j \in Ifp : /\ t.ifp[j].addrs \subseteq Home[j]
                     /\ Info(t, j).address \in Home[j] \cup {Unset}
  BY <1>1, <1>4, <1>5 DEF Wired, Info, NoIfp, NoInfo
<1>7. ASSUME NEW b \in As, NEW j \in t.eigrp[b].eiflist
      PROVE  Owner(t, j) = b /\ Info(t, j).address \in Addr /\ ConnectedOK(t, b, j)
  <2>1. j \in Now.eigrp[b].eiflist /\ j # i /\ j \in Ifp
    BY <1>1, <1>3, <1>5, Types DEF InstanceType
  <2>2. Owner(Now, j) = b /\ Info(Now, j).address \in Addr /\ ConnectedOK(Now, b, j)
    BY <2>1 DEF Wired
  <2>3. t.ifp[j] = Now.ifp[j] /\ t.eigrp[b].table = Now.eigrp[b].table
    BY <1>1, <1>3, <1>4, <1>5, <2>1
  <2> QED BY <2>2, <2>3 DEF ConnectedOK, Owner, Info, Routes
<1>8. Wired(t, {})
  BY <1>6, <1>7 DEF Wired
<1> QED BY <1>2, <1>8, GoneWired, FollowsWired

\* An address of the interface comes, and an instance may take it, or goes, with
\* the object that was made for it.
LEMMA AddressWired ==
    ASSUME Sound(Now), Wired(Now, {}), NEW i \in Ifp, NEW p \in Addr,
           AddressAdd(i, p) \/ AddressDelete(i, p)
    PROVE  Wired(Now', {})
<1>1. /\ Now \in State /\ ifp[i] \in IfpType /\ ifp[i].addrs \in SUBSET Addr
      /\ Now.ifp = ifp /\ ifp[i].addrs \subseteq Home[i]
  BY NowSound DEF IfpType, Wired
<1>2. ASSUME NEW x \in SUBSET Addr, x \subseteq Home[i],
             NEW s, s = WithIfp(Now, i, WithAddrs(ifp[i], x))
      PROVE  s \in State /\ Wired(s, {})
  <2> DEFINE e == WithAddrs(ifp[i], x)
  <2>1. e \in IfpType /\ e.addrs = x /\ e.info = ifp[i].info /\ e.up = ifp[i].up
    BY <1>1, AddrsBuilt
  <2>2. s = WithIfp(Now, i, e)
    BY <1>2
  <2> HIDE DEF e
  <2> QED BY <1>1, <1>2, <2>1, <2>2, IfpWired
<1>3. CASE AddressAdd(i, p)
  <2> DEFINE x == ifp[i].addrs \cup {p}
             s == WithIfp(Now, i, WithAddrs(ifp[i], x))
  <2>1. s = [Now EXCEPT !.ifp[i].addrs = @ \cup {p}]
    BY <1>1 DEF WithIfp, WithAddrs
  <2>2. x \in SUBSET Addr /\ x \subseteq Home[i]
    BY <1>1, <1>3 DEF AddressAdd
  <2> HIDE DEF x
  <2>3. s \in State /\ Wired(s, {})
    BY <1>2, <2>2
  <2>4. Becomes(s) \/ \E a \in Ready(s, i) : Becomes(IntfUpdate(s, a, {i}))
    BY <1>3, <2>1 DEF AddressAdd
  <2> HIDE DEF s
  <2>5. \A a \in Ready(s, i) : Wired(IntfUpdate(s, a, {i}), {})
    BY <2>3, IntfUpdateWired DEF Ready, Alive
  <2> QED BY <2>3, <2>4, <2>5, BecomesWired
<1>4. CASE AddressDelete(i, p)
  <2> DEFINE x == ifp[i].addrs \ {p}
             s == WithIfp(Now, i, WithAddrs(ifp[i], x))
  <2>1. s = [Now EXCEPT !.ifp[i].addrs = @ \ {p}]
    BY <1>1 DEF WithIfp, WithAddrs
  <2>2. x \in SUBSET Addr /\ x \subseteq Home[i]
    BY <1>1
  <2> HIDE DEF x
  <2>3. s \in State /\ Wired(s, {})
    BY <1>2, <2>2
  <2>4. Becomes(s) \/ Follows(i, IntfFree(s, {i}))
    BY <1>4, <2>1 DEF AddressDelete
  <2> HIDE DEF s
  <2>5. Wired(IntfFree(s, {i}), {} \ {i})
    BY <2>3, IntfFreeWired
  <2>6. Wired(IntfFree(s, {i}), {})
    BY <2>5, WiredMore
  <2> QED BY <2>3, <2>4, <2>6, BecomesWired, FollowsWired
<1> QED BY <1>3, <1>4

\* Timers, HELLO packets and a parameter's change: the object stays as it is, or
\* is reset.
LEMMA ObjectWired ==
    ASSUME Sound(Now), Wired(Now, {}), NEW i \in Ifp,
           \/ HelloTimer(i) \/ ParamModify(i)
           \/ \E nbr \in Peer : HelloReceive(i, nbr) \/ HoldExpires(i, nbr)
    PROVE  Wired(Now', {})
<1>1. /\ Now \in State /\ ifp[i] \in IfpType /\ ifp[i].info \in InfoType
      /\ Now.ifp = ifp /\ ifp[i].addrs \subseteq Home[i]
  BY NowSound DEF Wired
<1>2. CASE HelloTimer(i)
  BY <1>2, FollowsWired DEF HelloTimer
<1>3. CASE ParamModify(i)
  <2>1. Wired(IntfReset(Now, i), {} \ {i})
    BY <1>1, IntfResetWired
  <2>2. Wired(IntfReset(Now, i), {})
    BY <2>1, WiredMore
  <2> QED BY <1>3, <2>2, FollowsWired DEF ParamModify
<1>4. ASSUME NEW x \in SUBSET Peer
      PROVE  Wired(WithIfp(Now, i, WithNbrs(ifp[i], x)), {})
  <2> DEFINE e == WithNbrs(ifp[i], x)
  <2>1. /\ e \in IfpType /\ e.up = ifp[i].up /\ e.addrs = ifp[i].addrs
        /\ e.info.owner = ifp[i].info.owner /\ e.info.address = ifp[i].info.address
        /\ e.info.hello = ifp[i].info.hello
    BY <1>1, NbrsBuilt
  <2> HIDE DEF e
  <2>2. Wired(WithIfp(Now, i, e), {})
    BY <1>1, <2>1, IfpWired
  <2> QED BY <2>2 DEF e
<1>5. ASSUME NEW nbr \in Peer, HelloReceive(i, nbr) \/ HoldExpires(i, nbr)
      PROVE  Wired(Now', {})
  <2>1. PICK x \in SUBSET Peer : Follows(i, [Now EXCEPT !.ifp[i].info.nbrs = x])
    <3>1. /\ ifp[i].info.nbrs \cup {nbr} \in SUBSET Peer
          /\ ifp[i].info.nbrs \ {nbr} \in SUBSET Peer
      BY <1>1 DEF InfoType
    <3>2. CASE HelloReceive(i, nbr)
      <4>1. Follows(i, [Now EXCEPT !.ifp[i].info.nbrs = ifp[i].info.nbrs \cup {nbr}])
        BY <1>1, <3>2 DEF HelloReceive
      <4> QED BY <3>1, <4>1
    <3>3. CASE HoldExpires(i, nbr)
      <4>1. Follows(i, [Now EXCEPT !.ifp[i].info.nbrs = ifp[i].info.nbrs \ {nbr}])
        BY <1>1, <3>3 DEF HoldExpires
      <4> QED BY <3>1, <4>1
    <3> QED BY <1>5, <3>2, <3>3
  <2> DEFINE t == WithIfp(Now, i, WithNbrs(ifp[i], x))
  <2>2. t = [Now EXCEPT !.ifp[i].info.nbrs = x]
    BY <1>1 DEF WithIfp, WithNbrs
  <2>3. Wired(t, {})
    BY <1>4
  <2> HIDE DEF t
  <2> QED BY <2>1, <2>2, <2>3, FollowsWired
<1> QED BY <1>2, <1>3, <1>5

\* zebra's router id.
LEMMA ZebraRouterIdWired ==
    ASSUME Sound(Now), Wired(Now, {}), NEW id \in ZebraId, ZebraRouterId(id)
    PROVE  Wired(Now', {})
<1> DEFINE s == [Now EXCEPT !.daemon.zebraId = id]
<1>1. Now \in State /\ s.ifp = Now.ifp /\ s.eigrp = Now.eigrp
  BY NowSound DEF State
<1>2. s \in State
  <2>1. [Now.daemon EXCEPT !.zebraId = id] \in DaemonType
    BY <1>1, Types DEF DaemonType, RouterId
  <2> QED BY <1>1, <2>1 DEF State
<1>3. Becomes(s) \/ \E a \in Alive(s) : Becomes(RouterIdUpdate(s, a))
  BY DEF ZebraRouterId
<1> HIDE DEF s
<1>4. Wired(s, {})
  BY <1>1, InstanceWired
<1>5. \A a \in Alive(s) : Wired(RouterIdUpdate(s, a), {})
  BY <1>2, <1>4, RouterIdUpdateWired DEF Alive
<1> QED BY <1>3, <1>4, <1>5, BecomesWired

\* Instances and what is configured of them.
LEMMA InstanceStepWired ==
    ASSUME Sound(Now), Wired(Now, {}), NEW a \in As,
           \/ InstanceCreate(a) \/ InstanceCreateAborted(a) \/ InstanceDestroy(a)
           \/ RouterIdDestroy(a) \/ \E id \in StaticId : RouterIdModify(a, id)
           \/ \E i \in Ifp : IfpInstanceCreate(i, a)
           \/ \E n \in Net : NetworkCreate(a, n) \/ NetworkDestroy(a, n)
    PROVE  Wired(Now', {})
<1> DEFINE s == Get(Now, a)
<1>1. Now \in State /\ Now.eigrp = eigrp
  BY NowSound
<1>2. s \in State /\ Wired(s, {})
  BY <1>1, Gets, GetWired DEF Sound, Base, Rest
<1> HIDE DEF s
<1>3. ASSUME NEW u \in State, Wired(u, {}), NEW e \in InstanceType,
             e.eiflist = u.eigrp[a].eiflist, e.table = u.eigrp[a].table,
             Becomes(WithInstance(u, a, e))
      PROVE  Wired(Now', {})
  <2> DEFINE t == WithInstance(u, a, e)
  <2>1. /\ t.ifp = u.ifp
        /\ \A b \in As : t.eigrp[b] = IF b = a THEN e ELSE u.eigrp[b]
    BY <1>3, InstanceBuilt
  <2> HIDE DEF t
  <2>2. Wired(t, {})
    BY <1>3, <2>1, InstanceWired
  <2> QED BY <1>3, <2>2, BecomesWired DEF t
<1>4. CASE InstanceCreate(a)
  <2> DEFINE e == WithEntry(s.eigrp[a], TRUE)
  <2>1. e \in InstanceType /\ e.eiflist = s.eigrp[a].eiflist /\ e.table = s.eigrp[a].table
    BY <1>2, Types, EntryBuilt
  <2>2. Becomes(WithInstance(s, a, e))
    BY <1>4 DEF InstanceCreate, WithInstance, WithEntry, s
  <2> HIDE DEF e
  <2> QED BY <1>2, <1>3, <2>1, <2>2
<1>5. CASE InstanceCreateAborted(a) \/ InstanceDestroy(a)
  <2>1. Wired(Finish(s, a), {}) /\ Wired(Finish(Now, a), {})
    BY <1>1, <1>2, FinishWired
  <2> QED BY <1>5, <2>1, BecomesWired DEF InstanceCreateAborted, InstanceDestroy, s
<1>6. CASE RouterIdDestroy(a) \/ \E id \in StaticId : RouterIdModify(a, id)
  <2>1. PICK id \in StaticId \cup {Unset} : Becomes([Now EXCEPT !.eigrp[a].static = id])
    BY <1>6 DEF RouterIdDestroy, RouterIdModify
  <2> DEFINE e == WithStatic(Now.eigrp[a], id)
  <2>2. e \in InstanceType /\ e.eiflist = Now.eigrp[a].eiflist /\ e.table = Now.eigrp[a].table
    BY <1>1, Types, StaticBuilt DEF RouterId
  <2>3. Becomes(WithInstance(Now, a, e))
    BY <2>1 DEF WithInstance, WithStatic
  <2> HIDE DEF e
  <2> QED BY <1>1, <1>3, <2>2, <2>3
<1>7. CASE \E i \in Ifp : IfpInstanceCreate(i, a)
  BY <1>2, <1>7, BecomesWired DEF IfpInstanceCreate, s
<1>8. CASE \E n \in Net : NetworkCreate(a, n) \/ NetworkDestroy(a, n)
  <2>1. \A n \in Net : Wired(NetworkSet(Now, a, n), {}) /\ Wired(NetworkUnset(Now, a, n), {})
    BY <1>1, NetworkSetWired, NetworkUnsetWired
  <2> QED BY <1>8, <2>1, BecomesWired DEF NetworkCreate, NetworkDestroy
<1> QED BY <1>4, <1>5, <1>6, <1>7, <1>8

\* Redistribution changes neither a list nor a table.
LEMMA ProtocolsWires ==
    ASSUME NEW s \in State, NEW a \in As, NEW x, NEW n, NEW d,
           NEW t, t = Asked(Holds(s, a, x), a, n, d)
    PROVE  /\ t.ifp = s.ifp
           /\ \A b \in As : /\ t.eigrp[b].eiflist = s.eigrp[b].eiflist
                            /\ t.eigrp[b].table = s.eigrp[b].table
<1> DEFINE u == Holds(s, a, x)
           e == [s.eigrp[a] EXCEPT !.redistributed = x]
           w == [e EXCEPT !.redistribute = n]
           g == [s.eigrp EXCEPT ![a] = e]
<1>1. /\ s = [ifp |-> s.ifp, eigrp |-> s.eigrp, daemon |-> s.daemon]
      /\ s.eigrp \in [As -> InstanceType] /\ s.eigrp[a] \in InstanceType
  BY Types
<1>2. w.eiflist = s.eigrp[a].eiflist /\ w.table = s.eigrp[a].table
  BY <1>1 DEF InstanceType
<1> HIDE DEF w, e
<1>3. u = [ifp |-> s.ifp, eigrp |-> g, daemon |-> s.daemon]
  BY <1>1 DEF Holds, e
<1>4. g[a] = e /\ DOMAIN g = As /\ \A b \in As \ {a} : g[b] = s.eigrp[b]
  BY <1>1
<1> HIDE DEF u, g
<1>5. t.ifp = s.ifp /\ t.eigrp = [g EXCEPT ![a] = w]
  <2>1. t = [u EXCEPT !.daemon.redist = d, !.eigrp[a].redistribute = n]
    BY DEF Asked, u
  <2>2. [g EXCEPT ![a].redistribute = n] = [g EXCEPT ![a] = w]
    BY <1>4 DEF w
  <2>3. t.ifp = u.ifp /\ t.eigrp = [u.eigrp EXCEPT ![a].redistribute = n]
    BY <1>3, <2>1
  <2> QED BY <1>3, <2>2, <2>3
<1> QED BY <1>2, <1>4, <1>5

\* `redistribute' and `no redistribute'
LEMMA RedistributeWired ==
    ASSUME Sound(Now), Wired(Now, {}), NEW a \in As, NEW p \in Proto,
           RedistributeCreate(a, p) \/ RedistributeDestroy(a, p)
    PROVE  Wired(Now', {})
<1>1. /\ Now \in State /\ Now.eigrp = eigrp /\ Now.daemon = daemon
      /\ eigrp[a].redistributed \subseteq daemon.redist
  BY NowSound DEF Sound, Base, Rest, Counted
<1>2. \A x : /\ Holds(Now, a, x).daemon = daemon
             /\ Holds(Now, a, x).eigrp[a].redistribute = eigrp[a].redistribute
  BY <1>1, Types DEF Holds, State, InstanceType
<1>3. \E x, n, d : Becomes(Asked(Holds(Now, a, x), a, n, d))
  <2>1. CASE RedistributeCreate(a, p)
    <3> DEFINE u == Holds(Now, a, eigrp[a].redistributed \cup {p})
    <3>1. Becomes(RedistributeSet(u, a, p)) /\ p \notin daemon.redist
      BY <1>1, <2>1 DEF RedistributeCreate, Holds
    <3>2. u.daemon = daemon
      BY <1>2
    <3> HIDE DEF u
    <3>3. Becomes(Asked(u, a, u.eigrp[a].redistribute + 1, u.daemon.redist \cup {p}))
      BY <3>1, <3>2 DEF RedistributeSet, Asked
    <3> QED BY <3>3 DEF u
  <2>2. CASE RedistributeDestroy(a, p)
    <3> DEFINE u == Holds(Now, a, eigrp[a].redistributed \ {p})
    <3>1. Becomes(RedistributeUnset(u, a, p)) /\ p \in daemon.redist
      BY <1>1, <2>2 DEF RedistributeDestroy, Holds
    <3>2. u.daemon = daemon
      BY <1>2
    <3> HIDE DEF u
    <3>3. Becomes(Asked(u, a, u.eigrp[a].redistribute - 1, u.daemon.redist \ {p}))
      BY <3>1, <3>2 DEF RedistributeUnset, Asked
    <3> QED BY <3>3 DEF u
  <2> QED BY <2>1, <2>2
<1>4. PICK x, n, d : Becomes(Asked(Holds(Now, a, x), a, n, d))
  BY <1>3
<1> DEFINE t == Asked(Holds(Now, a, x), a, n, d)
<1>5. /\ t.ifp = Now.ifp
      /\ \A b \in As : /\ t.eigrp[b].eiflist = Now.eigrp[b].eiflist
                       /\ t.eigrp[b].table = Now.eigrp[b].table
  BY <1>1, ProtocolsWires
<1> HIDE DEF t
<1>6. Wired(t, {})
  BY <1>1, <1>5, InstanceWired
<1> QED BY <1>4, <1>6, BecomesWired DEF t

\* Every step keeps the enabled interfaces connected.
LEMMA NextWired ==
    ASSUME Sound(Now), Wired(Now, {}), [Next]_vars PROVE Wired(Now', {})
<1>1. CASE \E i \in Ifp : \/ IfpCreate(i) \/ IfpUp(i) \/ IfpDown(i) \/ IfpDestroy(i)
                          \/ IfpDelete(i) \/ HelloTimer(i) \/ ParamModify(i)
  BY <1>1, IfpLifeWired, IfpUpWired, IfpDownWired, IfpDeleteWired, ObjectWired
<1>2. CASE \E i \in Ifp, p \in Addr : AddressAdd(i, p) \/ AddressDelete(i, p)
  BY <1>2, AddressWired
<1>3. CASE \E i \in Ifp, nbr \in Peer : HelloReceive(i, nbr) \/ HoldExpires(i, nbr)
  BY <1>3, ObjectWired
<1>4. CASE \E i \in Ifp, a \in As : IfpInstanceCreate(i, a)
  BY <1>4, InstanceStepWired
<1>5. CASE \E id \in ZebraId : ZebraRouterId(id)
  BY <1>5, ZebraRouterIdWired
<1>6. CASE \E a \in As : \/ InstanceCreate(a) \/ InstanceCreateAborted(a)
                         \/ InstanceDestroy(a) \/ RouterIdDestroy(a)
  BY <1>6, InstanceStepWired
<1>7. CASE \E a \in As, id \in StaticId : RouterIdModify(a, id)
  BY <1>7, InstanceStepWired
<1>8. CASE \E a \in As, n \in Net : NetworkCreate(a, n) \/ NetworkDestroy(a, n)
  BY <1>8, InstanceStepWired
<1>9. CASE \E a \in As, p \in Proto : RedistributeCreate(a, p) \/ RedistributeDestroy(a, p)
  BY <1>9, RedistributeWired
<1>10. CASE FreedTimer \/ Terminate
  BY <1>10, GoneWired, BecomesWired DEF FreedTimer, Terminate
<1>11. CASE Restart
  <2>1. Now' = Fresh
    BY <1>11 DEF Restart, Now, Fresh
  <2> QED BY <2>1, GoneWired
<1>12. CASE UNCHANGED vars
  <2>1. Now' = Now
    BY <1>12 DEF vars, Now
  <2> QED BY <2>1
<1> QED BY <1>1, <1>2, <1>3, <1>4, <1>5, <1>6, <1>7, <1>8, <1>9, <1>10, <1>11, <1>12
        DEF Next

\* The inductive invariant between handlers: no interface is left half done.
InterfacesWired == Wired(Now, {})

\* An enabled interface whose link is up and whose instance has a router id has
\* its connected route and its HELLO timer, whichever of zebra, the configuration
\* and a reset brought it up and down before, unless another interface may have
\* its very prefix: eigrp_intf_free then deletes that under it.
THEOREM EnabledAlwaysConnected == Spec => []EnabledIsConnected
<1>1. Init => InterfacesWired
  <2> SUFFICES ASSUME Init PROVE Wired(Now, {})
    BY DEF InterfacesWired
  <2>1. Now = Fresh
    BY DEF Init, Now, Fresh
  <2> QED BY <2>1, GoneWired
<1>2. InstancesSound /\ InterfacesWired /\ [Next]_vars => InterfacesWired'
  <2> SUFFICES ASSUME Sound(Now), Wired(Now, {}), [Next]_vars PROVE Wired(Now, {})'
    BY DEF InstancesSound, InterfacesWired
  <2>1. Wired(Now', {})
    BY NextWired
  <2> QED BY <2>1 DEF Now, Wired, ConnectedOK, Routes, Owner, Info, Alone
<1>3. InstancesSound /\ InterfacesWired => EnabledIsConnected
  <2> SUFFICES ASSUME Sound(Now), Wired(Now, {}), NEW a \in As, NEW i \in eigrp[a].eiflist,
                      eigrp[a].rid # Unset, ifp[i].up,
                      \A j \in Ifp \ {i} : ifp[i].info.address \notin Home[j]
               PROVE  /\ eigrp[a].table[ifp[i].info.address][i] > 0
                      /\ ifp[i].info.hello
    BY DEF InstancesSound, InterfacesWired, EnabledIsConnected
  <2>1. Now.ifp = ifp /\ Now.eigrp = eigrp
    BY NowSound
  <2>2. ConnectedOK(Now, a, i)
    BY <2>1 DEF Wired
  <2> QED BY <2>1, <2>2 DEF ConnectedOK, Alone, Info, Routes
<1> QED BY <1>1, <1>2, <1>3, InstancesAlwaysSound, PTL DEF Spec
==============================================================================
