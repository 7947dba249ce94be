-------------------------- MODULE EigrpDualProofs --------------------------
(***************************************************************************)
(* Every handler keeps the instance well formed.  The inductive invariant  *)
(* Sound says, beside the types, that a descriptor exists exactly while    *)
(* its list of routes is not empty (the handlers read the head of that     *)
(* list without a test), and that a request is only set while the prefix   *)
(* is listed.  There is one lemma per operator of EigrpDual: applied to a  *)
(* sound instance it returns a sound one.                                  *)
(***************************************************************************)
EXTENDS EigrpDual, SequenceTheorems, FiniteSetTheorems, TLAPS

\* The values Now may take.
Instance ==
    [nbr : [Nbr -> NbrState], state : State, entries : Seq(Nbr),
     route : [Nbr -> Route], succ : SUBSET Nbr, fdistance : Distance,
     rdistance : Distance, distance : Distance, reported_metric : Metric,
     rij : [Nbr -> Nat], req_action : SUBSET {"update", "query"},
     topology_changes : Nat, dangling : BOOLEAN, rib : SUBSET Nbr,
     work : Seq(Work), queried : SUBSET Nbr, fault : Fault]

\* The inductive invariant, of an instance a handler is working on.
Sound(s) ==
    /\ s \in Instance
    /\ s.state # "none" <=> s.entries # <<>>
    /\ s.req_action # {} => s.topology_changes > 0

\* A composite metric, cut to 32 bits, is a distance.
LEMMA CompositeType == ASSUME NEW m \in Metric PROVE Composite(m) \in Distance
BY MetricAssumption DEF Composite, Metric, Distance

\* The metric seen through the link to a neighbour is a metric.
LEMMA TotalMetricType ==
    ASSUME NEW n \in Nbr, NEW m \in Metric PROVE TotalMetric(n, m) \in Metric
BY ConfigAssumption DEF TotalMetric, Metric

\* A route descriptor that was just created is well typed.
LEMMA FreshRouteType == FreshRoute \in Route
BY MetricAssumption DEF FreshRoute, Route, Distance, Metric, NoMetric

\* So is one that took an advertised metric.
LEMMA HeardRouteType ==
    ASSUME NEW n \in Nbr, NEW m \in Metric PROVE HeardRoute(n, m) \in Route
BY CompositeType, TotalMetricType DEF HeardRoute, Route

\* listnode_delete returns a list of neighbours.
LEMMA WithoutType ==
    ASSUME NEW l \in Seq(Nbr), NEW n \in Nbr PROVE Without(l, n) \in Seq(Nbr)
<1>1. CASE n \notin ToSet(l)
  BY <1>1 DEF Without
<1>2. CASE n \in ToSet(l)
  <2> DEFINE i == CHOOSE i \in DOMAIN l : l[i] = n
  <2>1. i \in 1 .. Len(l)
    BY <1>2 DEF ToSet
  <2>2. Without(l, n) = SubSeq(l, 1, i - 1) \o SubSeq(l, i + 1, Len(l))
    BY <1>2 DEF Without, RemoveAt
  <2> HIDE DEF i
  <2>3. SubSeq(l, 1, i - 1) \in Seq(Nbr) /\ SubSeq(l, i + 1, Len(l)) \in Seq(Nbr)
    BY <2>1
  <2> QED BY <2>2, <2>3
<1> QED BY <1>1, <1>2

\* A set of positions of a list has at most as many members as the list.
LEMMA CountInRange ==
    ASSUME NEW l \in Seq(Nbr), NEW S, S \subseteq DOMAIN l
    PROVE  Cardinality(S) \in 0 .. Len(l)
<1>1. IsFiniteSet(1 .. Len(l)) /\ Cardinality(1 .. Len(l)) = Len(l)
  <2>1. 1 \in Int /\ Len(l) \in Nat
    OBVIOUS
  <2> QED BY <2>1, FS_Interval
<1>2. IsFiniteSet(S) /\ Cardinality(S) <= Len(l)
  BY <1>1, FS_Subset
<1> QED BY <1>2, FS_CardinalityType

\* listnode_add_sort returns a list of neighbours that is not empty.
LEMMA InsertSortedType ==
    ASSUME NEW l \in Seq(Nbr), NEW n \in Nbr, NEW rt
    PROVE  InsertSorted(l, n, rt) \in Seq(Nbr) /\ InsertSorted(l, n, rt) # <<>>
<1> DEFINE S == {i \in DOMAIN l : rt[l[i]].dist <= rt[n].dist}
           k == Cardinality(S)
<1>1. k \in 0 .. Len(l)
  BY CountInRange
<1>2. InsertSorted(l, n, rt) = SubSeq(l, 1, k) \o <<n>> \o SubSeq(l, k + 1, Len(l))
  BY DEF InsertSorted, CountIn
<1> HIDE DEF k
<1>3. /\ SubSeq(l, 1, k) \in Seq(Nbr) /\ SubSeq(l, k + 1, Len(l)) \in Seq(Nbr)
      /\ <<n>> \in Seq(Nbr) /\ Len(<<n>>) = 1
  BY <1>1
<1>4. SubSeq(l, 1, k) \o <<n>> \in Seq(Nbr) /\ Len(SubSeq(l, 1, k) \o <<n>>) > 0
  BY <1>3
<1>5. /\ (SubSeq(l, 1, k) \o <<n>>) \o SubSeq(l, k + 1, Len(l)) \in Seq(Nbr)
      /\ Len((SubSeq(l, 1, k) \o <<n>>) \o SubSeq(l, k + 1, Len(l))) > 0
  BY <1>3, <1>4
<1> QED BY <1>2, <1>5

\* eigrp_topology_update_distance keeps an existing descriptor sound.
LEMMA UpdateDistanceSound ==
    ASSUME NEW s, Sound(s), s.state # "none", NEW n \in Nbr, NEW m \in Metric
    PROVE  Sound(UpdateDistance(s, n, m))
<1> DEFINE rt == [s.route EXCEPT ![n] = HeardRoute(n, m)]
           e  == InsertSorted(Without(s.entries, n), n, rt)
<1>1. rt \in [Nbr -> Route]
  BY HeardRouteType DEF Sound, Instance
<1>2. e \in Seq(Nbr) /\ e # <<>>
  BY WithoutType, InsertSortedType DEF Sound, Instance
<1>3. [s EXCEPT !.route = rt, !.entries = e] \in Instance
  <2> HIDE DEF rt, e
  <2> QED BY <1>1, <1>2 DEF Sound, Instance
<1> QED BY <1>2, <1>3 DEF UpdateDistance, Sound, Instance

\* The head of a list that is not empty has a route.
LEMMA BestType ==
    ASSUME NEW s, s \in Instance, s.entries # <<>>
    PROVE  Best(s) \in Route
BY HeadTailProperties DEF Best, Instance

\* Taking over the distance of the best route keeps the instance sound.
LEMMA AdoptBestSound ==
    ASSUME NEW s, Sound(s), s.entries # <<>>
    PROVE  /\ Sound(AdoptBest(s))
           /\ Sound([AdoptBest(s) EXCEPT !.fdistance = Best(s).dist])
<1>1. Best(s).dist \in Distance /\ Best(s).total \in Metric
  BY BestType DEF Sound, Route
<1> QED BY <1>1 DEF AdoptBest, Sound, Instance

\* eigrp_topology_update_node_flags keeps it sound.
LEMMA UpdateNodeFlagsSound ==
    ASSUME NEW s, Sound(s) PROVE Sound(UpdateNodeFlags(s))
<1> DEFINE F == {n \in ToSet(s.entries) :
                   /\ s.route[n].rd < s.fdistance
                   /\ s.route[n].dist <= s.distance * Variance
                   /\ s.route[n].dist # MaxMetric}
<1>1. F \in SUBSET Nbr
  BY DEF Sound, Instance, ToSet
<1>2. UpdateNodeFlags(s) = [s EXCEPT !.succ = F]
  BY DEF UpdateNodeFlags
<1> HIDE DEF F
<1> QED BY <1>1, <1>2 DEF Sound, Instance

\* eigrp_topology_get_successor_max returns neighbours.
LEMMA FirstSuccessorsType ==
    ASSUME NEW s, s \in Instance, NEW k
    PROVE  FirstSuccessors(s, k) \in SUBSET Nbr
<1> SUFFICES ASSUME NEW x \in FirstSuccessors(s, k) PROVE x \in Nbr
  OBVIOUS
<1>1. x \in s.succ
  BY Zenon DEF FirstSuccessors
<1> QED BY <1>1 DEF Instance

\* eigrp_update_routing_table keeps the instance sound.
LEMMA UpdateRoutingTableSound ==
    ASSUME NEW s, Sound(s) PROVE Sound(UpdateRoutingTable(s))
<1>1. FirstSuccessors(s, MaxPaths) \in SUBSET Nbr
  BY FirstSuccessorsType DEF Sound
<1> QED BY <1>1 DEF UpdateRoutingTable, Sound, Instance, Fault

\* eigrp_prefix_descriptor_delete keeps it sound.
LEMMA PrefixDeleteSound ==
    ASSUME NEW s, Sound(s) PROVE Sound(PrefixDelete(s))
<1> DEFINE w == [i \in DOMAIN s.work |-> IF s.work[i].prefix = "live"
                        THEN [s.work[i] EXCEPT !.prefix = "freed"]
                        ELSE s.work[i]]
<1>1. w \in Seq(Work)
  <2>1. s.work \in Seq(Work) /\ Len(s.work) \in Nat
    BY DEF Sound, Instance
  <2>2. ASSUME NEW i \in 1 .. Len(s.work) PROVE w[i] \in Work
    <3>1. s.work[i] \in Work /\ i \in DOMAIN s.work
      BY <2>1
    <3>2. [s.work[i] EXCEPT !.prefix = "freed"] \in Work
      BY <3>1 DEF Work
    <3> QED BY <3>1, <3>2
  <2>3. w \in [1 .. Len(s.work) -> Work]
    <3>1. DOMAIN s.work = 1 .. Len(s.work)
      BY <2>1
    <3> QED BY <2>2, <3>1
  <2> HIDE DEF w
  <2> QED BY <2>1, <2>3, SeqDef
<1>2. [n \in Nbr |-> FreshRoute] \in [Nbr -> Route]
  BY FreshRouteType
<1>3. MaxMetric \in Distance /\ NoMetric \in Metric
  BY MetricAssumption DEF Distance, NoMetric, Metric
<1>4. /\ <<>> \in Seq(Nbr) /\ [n \in Nbr |-> 0] \in [Nbr -> Nat]
      /\ (s.dangling \/ s.topology_changes > 1) \in BOOLEAN
      /\ "none" \in State
  BY DEF State
<1> HIDE DEF w
<1> DEFINE d == (s.dangling \/ s.topology_changes > 1)
           r == [n \in Nbr |-> 0]
           f == [n \in Nbr |-> FreshRoute]
           t == [s EXCEPT !.state = "none", !.entries = <<>>, !.route = f,
                          !.succ = {}, !.fdistance = MaxMetric,
                          !.rdistance = MaxMetric, !.distance = MaxMetric]
           u == [t EXCEPT !.reported_metric = NoMetric, !.rij = r,
                          !.req_action = {}, !.dangling = d,
                          !.topology_changes = 0, !.rib = {}, !.work = w]
<1>5. PrefixDelete(s) = u
  BY DEF PrefixDelete, w, Sound, Instance
<1> HIDE DEF d, r, f
<1>6. t \in Instance /\ t.state = "none" /\ t.entries = <<>>
  BY <1>2, <1>3, <1>4 DEF Sound, Instance, f
<1> HIDE DEF t
<1>7. u \in Instance /\ u.state = "none" /\ u.req_action = {} /\ u.entries = <<>>
  BY <1>1, <1>3, <1>4, <1>6 DEF Instance, d, r
<1> QED BY <1>5, <1>7 DEF Sound

\* Deleting the routes at an infinite distance leaves the best one in the list.
LEMMA RoutesDeleteSound ==
    ASSUME NEW s, Sound(s), s.entries # <<>>, Best(s).dist # MaxMetric
    PROVE  Sound(RoutesDelete(s))
<1> DEFINE dead == {n \in ToSet(s.entries) : s.route[n].dist = MaxMetric}
           S    == {i \in DOMAIN s.entries : s.entries[i] \notin dead}
           live == Cardinality(S)
           rt   == [n \in Nbr |-> IF n \in dead THEN FreshRoute ELSE s.route[n]]
<1>1. s.entries \in Seq(Nbr) /\ Len(s.entries) \in Nat /\ Len(s.entries) > 0
  BY DEF Sound, Instance
<1>2. 1 \in S
  BY <1>1 DEF Best
<1>3. live \in 1 .. Len(s.entries)
  <2>1. live \in 0 .. Len(s.entries)
    BY <1>1, CountInRange
  <2>2. IsFiniteSet(S)
    <3>1. IsFiniteSet(1 .. Len(s.entries))
      <4>1. 1 \in Int /\ Len(s.entries) \in Int
        BY <1>1
      <4> QED BY <4>1, FS_Interval
    <3> QED BY <3>1, <1>1, FS_Subset
  <2>3. live # 0
    BY <1>2, <2>2, FS_EmptySet
  <2> HIDE DEF live
  <2> QED BY <1>1, <2>1, <2>3
<1>4. rt \in [Nbr -> Route]
  BY FreshRouteType DEF Sound, Instance
<1>5. RoutesDelete(s) =
        [s EXCEPT !.entries = SubSeq(s.entries, 1, live), !.route = rt,
                  !.succ = s.succ \ dead,
                  !.rib = IF dead = {} THEN s.rib ELSE {}]
  BY DEF RoutesDelete, CountIn, Sound, Instance
<1> HIDE DEF live, rt, dead
<1>6. SubSeq(s.entries, 1, live) \in Seq(Nbr) /\ SubSeq(s.entries, 1, live) # <<>>
  BY <1>1, <1>3
<1> DEFINE e == SubSeq(s.entries, 1, live)
<1>7. /\ s.succ \ dead \in SUBSET Nbr
      /\ (IF dead = {} THEN s.rib ELSE {}) \in SUBSET Nbr
  BY DEF Sound, Instance
<1> HIDE DEF e
<1> QED BY <1>4, <1>5, <1>6, <1>7 DEF Sound, Instance, e

\* eigrp_update_topology_table_prefix keeps the instance sound.
LEMMA UpdateTopologyTablePrefixSound ==
    ASSUME NEW s, Sound(s), s.entries # <<>>, s.distance = Best(s).dist
    PROVE  Sound(UpdateTopologyTablePrefix(s))
BY PrefixDeleteSound, RoutesDeleteSound DEF UpdateTopologyTablePrefix

\* Setting a request lists the prefix.
LEMMA AddChangeSound ==
    ASSUME NEW s, Sound(s), NEW what \in {"update", "query"}
    PROVE  Sound(AddChange(s, what))
<1>1. /\ s.req_action \cup {what} \in SUBSET {"update", "query"}
      /\ s.topology_changes + 1 \in Nat /\ s.topology_changes + 1 > 0
  BY DEF Sound, Instance
<1> DEFINE q == s.req_action \cup {what}
           c == s.topology_changes + 1
<1>2. AddChange(s, what) = [s EXCEPT !.req_action = q, !.topology_changes = c]
  BY DEF AddChange, Sound, Instance
<1> HIDE DEF q, c
<1> QED BY <1>1, <1>2 DEF Sound, Instance, q, c

\* eigrp_reply_send adds a work item.
LEMMA ReplySendSound ==
    ASSUME NEW s, Sound(s), NEW n \in Nbr
    PROVE  Sound(ReplySend(s, n))
<1>1. [op |-> "reply", to |-> n, prefix |-> "live"] \in Work
  BY DEF Work
<1>2. Append(s.work, [op |-> "reply", to |-> n, prefix |-> "live"]) \in Seq(Work)
  BY <1>1 DEF Sound, Instance
<1> QED BY <1>2 DEF ReplySend, Sound, Instance

\* The end of a computation keeps the instance sound.
LEMMA GoPassiveSound ==
    ASSUME NEW s, Sound(s), s.entries # <<>>, s.distance = Best(s).dist
    PROVE  Sound(GoPassive(s))
<1> DEFINE p == [s EXCEPT !.state = "passive"]
           c == AddChange(p, "update")
           f == UpdateNodeFlags(c)
           r == UpdateRoutingTable(f)
<1>1. Sound(p)
  BY DEF Sound, Instance, State
<1>2. Sound(c)
  BY <1>1, AddChangeSound
<1>3. Sound(f)
  BY <1>2, UpdateNodeFlagsSound
<1>4. Sound(r)
  BY <1>3, UpdateRoutingTableSound
<1>5. r.entries = s.entries /\ r.distance = s.distance /\ r.route = s.route
  BY DEF UpdateRoutingTable, UpdateNodeFlags, AddChange, Sound, Instance
<1>6. Sound(UpdateTopologyTablePrefix(r))
  BY <1>4, <1>5, UpdateTopologyTablePrefixSound DEF Best
<1> QED BY <1>6 DEF GoPassive

\* What AdoptBest leaves alone, with the feasible distance set to d.
LEMMA AdoptBestFields ==
    ASSUME NEW s, Sound(s), NEW d
    PROVE  LET t == [AdoptBest(s) EXCEPT !.fdistance = d]
           IN  /\ t.entries = s.entries /\ t.route = s.route
               /\ t.state = s.state /\ t.distance = Best(s).dist
               /\ Best(t) = Best(s)
BY DEF AdoptBest, Sound, Instance, Best

\* eigrp_fsm_event_lr keeps the instance sound.
LEMMA LrSound ==
    ASSUME NEW s, Sound(s), s.entries # <<>> PROVE Sound(Lr(s))
<1> DEFINE a == [AdoptBest(s) EXCEPT !.fdistance = Best(s).dist]
           r == FirstSuccessors(a, 1)
           n == CHOOSE k \in r : TRUE
<1>1. Sound(a) /\ a.entries # <<>> /\ a.distance = Best(a).dist
  <2>1. a.entries = s.entries /\ a.distance = Best(s).dist /\ Best(a) = Best(s)
    BY AdoptBestFields
  <2> QED BY <2>1, AdoptBestSound
<1>2. Lr(s) = CASE a.state # "active3" -> GoPassive(a)
                [] a.state = "active3" /\ r = {} ->
                       [s EXCEPT !.fault = "assert_successors"]
                [] OTHER -> GoPassive(ReplySend(a, n))
  BY DEF Lr
<1> HIDE DEF a
<1>3. Sound(GoPassive(a))
  BY <1>1, GoPassiveSound
<1>4. Sound([s EXCEPT !.fault = "assert_successors"])
  BY DEF Sound, Instance, Fault
<1>5. ASSUME r # {} PROVE Sound(GoPassive(ReplySend(a, n)))
  <2>1. n \in Nbr
    BY <1>1, <1>5, FirstSuccessorsType DEF Sound
  <2>2. Sound(ReplySend(a, n))
    BY <1>1, <2>1, ReplySendSound
  <2>3. /\ ReplySend(a, n).entries = a.entries
        /\ ReplySend(a, n).distance = a.distance
        /\ Best(ReplySend(a, n)) = Best(a)
    BY <1>1 DEF ReplySend, Sound, Instance, Best
  <2> QED BY <1>1, <2>2, <2>3, GoPassiveSound
<1> HIDE DEF r, n
<1>6. CASE a.state # "active3"
  BY <1>2, <1>3, <1>6
<1>7. CASE a.state = "active3" /\ r = {}
  BY <1>2, <1>4, <1>7
<1>8. CASE a.state = "active3" /\ r # {}
  BY <1>2, <1>5, <1>8
<1> QED BY <1>6, <1>7, <1>8

\* eigrp_fsm_event_lr_fcs keeps the instance sound.
LEMMA LrFcsSound ==
    ASSUME NEW s, Sound(s), s.entries # <<>> PROVE Sound(LrFcs(s))
<1> DEFINE a == AdoptBest(s)
           d == IF a.fdistance > a.distance THEN a.distance ELSE a.fdistance
           t == [a EXCEPT !.fdistance = d]
<1>1. Sound(a)
  BY AdoptBestSound
<1>2. d \in Distance
  BY <1>1 DEF Sound, Instance
<1>3. LrFcs(s) = GoPassive(t)
  BY DEF LrFcs
<1> HIDE DEF d
<1>4. t.entries = s.entries /\ t.distance = Best(s).dist /\ Best(t) = Best(s)
  BY AdoptBestFields
<1> HIDE DEF a
<1>5. Sound(t)
  BY <1>1, <1>2 DEF Sound, Instance
<1> HIDE DEF t
<1> QED BY <1>3, <1>4, <1>5, GoPassiveSound

\* Starting a diffusing computation keeps the instance sound.
LEMMA StartQuerySound ==
    ASSUME NEW s, Sound(s), s.entries # <<>>, NEW active \in Active
    PROVE  Sound(StartQuery(s, active))
<1> DEFINE a == [s EXCEPT !.state = active]
<1>1. Sound(a) /\ a.entries # <<>>
  BY DEF Sound, Instance, State, Active
<1> HIDE DEF a
<1>2. Sound(AddChange(a, "query")) /\ Sound(Lr(a))
  BY <1>1, AddChangeSound, LrSound
<1> QED BY <1>2 DEF StartQuery, a

\* eigrp_fsm_event_lr_fcn keeps the instance sound.
LEMMA LrFcnSound ==
    ASSUME NEW s, Sound(s), s.entries # <<>> PROVE Sound(LrFcn(s))
BY StartQuerySound DEF LrFcn, Active

\* eigrp_fsm_event_keep_state keeps the instance sound.
LEMMA KeepStateSound ==
    ASSUME NEW s, Sound(s), s.entries # <<>>, NEW n \in Nbr, NEW op
    PROVE  Sound(KeepState(s, n, op))
<1> DEFINE changed == s.reported_metric # Best(s).total
           u == [AdoptBest(s) EXCEPT !.fdistance = Best(s).dist]
           a == IF changed THEN AddChange(u, "update") ELSE s
           b == IF changed /\ op = "query" THEN ReplySend(a, n) ELSE a
           c == IF s.state = "passive" THEN UpdateRoutingTable(UpdateNodeFlags(b))
                                       ELSE s
<1>1. Sound(a)
  BY AdoptBestSound, AddChangeSound
<1> HIDE DEF a
<1>2. Sound(b)
  BY <1>1, ReplySendSound
<1> HIDE DEF b
<1>3. Sound(c)
  BY <1>2, UpdateNodeFlagsSound, UpdateRoutingTableSound
<1> HIDE DEF c
<1>4. Sound(IF op = "query" THEN ReplySend(c, n) ELSE c)
  BY <1>3, ReplySendSound
<1> QED BY <1>4 DEF KeepState, a, b, c

\* Taking a neighbour out of rij keeps the instance sound.
LEMMA TakeReplySound ==
    ASSUME NEW s, Sound(s), NEW n \in Nbr, NEW op
    PROVE  Sound(TakeReply(s, n, op)) /\ TakeReply(s, n, op).entries = s.entries
<1>1. ASSUME s.rij[n] > 0
      PROVE  [s.rij EXCEPT ![n] = s.rij[n] - 1] \in [Nbr -> Nat]
  BY <1>1 DEF Sound, Instance
<1> QED BY <1>1 DEF TakeReply, Sound, Instance

\* eigrp_fsm_event_dinc keeps the instance sound.
LEMMA DincSound ==
    ASSUME NEW s, Sound(s), s.entries # <<>>, NEW n \in Nbr, NEW op
    PROVE  Sound(Dinc(s, n, op))
<1> DEFINE a == [s EXCEPT !.state = IF s.state = "active1" THEN "active0"
                                                           ELSE "active2"]
<1>1. Sound(a) /\ a.entries # <<>>
  BY DEF Sound, Instance, State, Active
<1>2. Dinc(s, n, op) =
        IF \E k \in Nbr : a.rij[k] > 0 THEN a
        ELSE CASE FsmEvent(a, n, op, "same") = "lr_fcs" -> LrFcs(a)
               [] FsmEvent(a, n, op, "same") = "lr_fcn" -> LrFcn(a)
               [] OTHER -> KeepState(a, n, op)
  BY DEF Dinc
<1> HIDE DEF a
<1>3. Sound(LrFcs(a)) /\ Sound(LrFcn(a)) /\ Sound(KeepState(a, n, op))
  BY <1>1, LrFcsSound, LrFcnSound, KeepStateSound
<1> QED BY <1>1, <1>2, <1>3

\* A descriptor that exists has a best route, and an event leaves it so.
LEMMA FsmSound ==
    ASSUME NEW s, Sound(s), s.state # "none",
           NEW n \in Nbr, NEW op, NEW m \in Metric
    PROVE  Sound(Fsm(s, n, op, m))
<1> DEFINE u  == UpdateDistance(s, n, m)
           a  == TakeReply(u, n, op)
           ev == FsmEvent(a, n, op, MetricChange(s, n, m))
<1>1. Sound(u) /\ u.entries # <<>>
  <2>1. Sound(u)
    BY UpdateDistanceSound
  <2>2. u.state = s.state
    BY DEF UpdateDistance, Sound, Instance
  <2> QED BY <2>1, <2>2 DEF Sound
<1> HIDE DEF u
<1>2. Sound(a) /\ a.entries # <<>>
  BY <1>1, TakeReplySound
<1>3. Fsm(s, n, op, m) =
        CASE ev = "nq_fcn" -> StartQuery(a, "active1")
          [] ev = "q_fcn"  -> StartQuery(a, "active3")
          [] ev = "lr"     -> Lr(a)
          [] ev = "dinc"   -> Dinc(a, n, op)
          [] ev = "qact"   -> Qact(a)
          [] ev = "lr_fcs" -> LrFcs(a)
          [] ev = "lr_fcn" -> LrFcn(a)
          [] OTHER         -> KeepState(a, n, op)
  BY DEF Fsm, u
<1> HIDE DEF a, ev
<1>4. Sound(Qact(a))
  BY <1>2 DEF Qact, Sound, Instance, State, Active
<1>5. /\ Sound(StartQuery(a, "active1")) /\ Sound(StartQuery(a, "active3"))
      /\ Sound(Lr(a)) /\ Sound(LrFcs(a)) /\ Sound(LrFcn(a))
      /\ Sound(Dinc(a, n, op)) /\ Sound(KeepState(a, n, op))
  BY <1>2, StartQuerySound, LrSound, LrFcsSound, LrFcnSound, DincSound,
     KeepStateSound DEF Active
<1> QED BY <1>3, <1>4, <1>5

\* Clearing a request takes the prefix off the list only when none is left.
LEMMA DoneSound ==
    ASSUME NEW s, Sound(s), NEW what \in s.req_action PROVE Sound(Done(s, what))
<1> DEFINE left == s.req_action \ {what}
           c    == IF left = {} THEN s.topology_changes - 1
                                ELSE s.topology_changes
<1>1. left \in SUBSET {"update", "query"} /\ c \in Nat /\ (left # {} => c > 0)
  BY DEF Sound, Instance
<1>2. Done(s, what) = [s EXCEPT !.req_action = left, !.topology_changes = c]
  BY DEF Done
<1> HIDE DEF left, c
<1> QED BY <1>1, <1>2 DEF Sound, Instance

\* A work item may be added.
LEMMA AppendWorkSound ==
    ASSUME NEW s, Sound(s), NEW w \in Work
    PROVE  Sound([s EXCEPT !.work = Append(s.work, w)])
<1>1. Append(s.work, w) \in Seq(Work)
  BY DEF Sound, Instance
<1> QED BY <1>1 DEF Sound, Instance

\* A fault may be noted.
LEMMA FaultSound ==
    ASSUME NEW s, Sound(s), NEW f \in Fault
    PROVE  Sound([s EXCEPT !.fault = f])
BY DEF Sound, Instance

\* query_send_all and update_send_all keep the instance sound.
LEMMA SendAllSound ==
    ASSUME NEW s, Sound(s) PROVE Sound(SendAll(s))
<1> DEFINE d == Done(s, "query")
           w == [op |-> "query", to |-> NoNbr, prefix |-> "live"]
<1>1. Sound(QuerySendAll(s))
  <2>1. Sound([s EXCEPT !.fault = "freed_prefix"])
    BY FaultSound DEF Fault
  <2>2. ASSUME "query" \in s.req_action
        PROVE  Sound([d EXCEPT !.work = Append(s.work, w)])
    <3>1. Sound(d) /\ d.work = s.work
      BY <2>2, DoneSound DEF Done, Sound, Instance
    <3>2. w \in Work
      BY DEF Work
    <3> HIDE DEF d, w
    <3> QED BY <3>1, <3>2, AppendWorkSound
  <2>3. [Done(s, "query") EXCEPT !.work =
            Append(@, [op |-> "query", to |-> NoNbr, prefix |-> "live"])]
        = [d EXCEPT !.work = Append(s.work, w)]
    BY DEF Done, Sound, Instance
  <2> HIDE DEF d, w
  <2> QED BY <2>1, <2>2, <2>3 DEF QuerySendAll
<1>2. [op |-> "update", to |-> NoNbr, prefix |-> "no"] \in Work
  BY DEF Work
<1> QED BY <1>1, <1>2, AppendWorkSound DEF SendAll, UpdateSendAll

\* One item of the work queue keeps the instance sound.
LEMMA WorkProcessSound ==
    ASSUME NEW s, Sound(s), NEW w PROVE Sound(WorkProcess(s, w))
<1>1. Sound([s EXCEPT !.fault = "freed_prefix"])
      /\ Sound([s EXCEPT !.fault = "freed_neighbor"])
  BY FaultSound DEF Fault
<1>2. Sound(PacketizeAll(s))
  BY <1>1, DoneSound DEF PacketizeAll
<1>3. Sound(QuerySend(s, w))
  <2> DEFINE r == [n \in Nbr |-> IF s.nbr[n] = "up" THEN s.rij[n] + 1
                                                     ELSE s.rij[n]]
             q == s.queried \cup {n \in Nbr : s.nbr[n] = "up"}
  <2>1. r \in [Nbr -> Nat] /\ q \in SUBSET Nbr
    BY DEF Sound, Instance
  <2>2. Sound([s EXCEPT !.rij = r, !.queried = q])
    <3> HIDE DEF r, q
    <3> QED BY <2>1 DEF Sound, Instance
  <2>3. [s EXCEPT !.rij = [n \in Nbr |-> IF s.nbr[n] = "up" THEN @[n] + 1
                                                             ELSE @[n]],
                  !.queried = @ \cup {n \in Nbr : s.nbr[n] = "up"}]
        = [s EXCEPT !.rij = r, !.queried = q]
    BY DEF Sound, Instance
  <2> HIDE DEF r, q
  <2> QED BY <1>1, <2>2, <2>3 DEF QuerySend
<1>4. Sound(NeighborRouteSend(s, w))
  BY <1>1 DEF NeighborRouteSend
<1> QED BY <1>2, <1>3, <1>4 DEF WorkProcess

\* The first UPDATE of a destination creates a sound descriptor.
LEMMA NewPrefixSound ==
    ASSUME NEW s, Sound(s), NEW n \in Nbr, NEW m \in Metric
    PROVE  Sound(NewPrefix(s, n, m))
<1> DEFINE seen == IF n \in FilteredIn THEN [m EXCEPT !.delay = MaxMetric] ELSE m
           h    == HeardRoute(n, seen)
           r    == [h EXCEPT !.rd = Composite(m)]
           rt   == [s.route EXCEPT ![n] = r]
           a    == [s EXCEPT !.state = "passive", !.entries = <<n>>,
                             !.route = rt, !.fdistance = r.dist,
                             !.rdistance = r.dist, !.distance = r.dist,
                             !.reported_metric = r.total, !.rib = {n}]
<1>1. seen \in Metric
  BY MetricAssumption DEF Metric
<1>2. h \in Route
  BY <1>1, HeardRouteType
<1>3. NewPrefix(s, n, m) = AddChange(UpdateNodeFlags(a), "update")
  BY DEF NewPrefix, Sound, Instance
<1> HIDE DEF h
<1>4. r \in Route
  BY <1>2, CompositeType DEF Route
<1> HIDE DEF r
<1>5. rt \in [Nbr -> Route] /\ <<n>> \in Seq(Nbr) /\ <<n>> # <<>>
  BY <1>4 DEF Sound, Instance
<1>6. r.dist \in Distance /\ r.total \in Metric
  BY <1>4 DEF Route
<1> DEFINE e == <<n>>
<1> HIDE DEF rt, e
<1>7. Sound(a)
  BY <1>5, <1>6 DEF Sound, Instance, State, e
<1> HIDE DEF a
<1> QED BY <1>3, <1>7, UpdateNodeFlagsSound, AddChangeSound

\* eigrp_topology_neighbor_down keeps the instance sound.
LEMMA NeighborDownSound ==
    ASSUME NEW s, Sound(s), NEW n \in Nbr, NEW bw \in StackBw
    PROVE  Sound(NeighborDown(s, n, bw))
<1> DEFINE m    == [bw |-> bw, delay |-> MaxMetric]
           once == Fsm(s, n, "update", m)
           pos(t) == CHOOSE i \in DOMAIN t.entries : t.entries[i] = n
           next == {k \in ToSet(s.entries) :
                      pos(s) < Len(s.entries) /\ k = s.entries[pos(s) + 1]}
           back == /\ n \in ToSet(once.entries)
                   /\ \E k \in next : \E i \in DOMAIN once.entries :
                          once.entries[i] = k /\ i < pos(once)
           lost == ~(next \subseteq ToSet(once.entries))
           walked == CASE once.fault # "none" -> once
                       [] once.fault = "none" /\ lost ->
                              [once EXCEPT !.fault = "freed_entry"]
                       [] once.fault = "none" /\ ~lost /\ back ->
                              Fsm(once, n, "update", m)
                       [] OTHER -> once
<1>1. NeighborDown(s, n, bw) = SendAll(IF n \in ToSet(s.entries) THEN walked ELSE s)
  BY DEF NeighborDown
<1>2. m \in Metric
  BY MetricAssumption DEF Metric
<1> HIDE DEF m
<1>3. ASSUME n \in ToSet(s.entries) PROVE Sound(walked)
  <2>1. s.entries # <<>>
    BY <1>3 DEF ToSet
  <2>2. Sound(once)
    BY <1>2, <2>1, FsmSound DEF Sound
  <2>3. back => once.entries # <<>>
    BY DEF ToSet
  <2> HIDE DEF once
  <2>4. back => Sound(Fsm(once, n, "update", m))
    BY <1>2, <2>2, <2>3, FsmSound DEF Sound
  <2>5. Sound([once EXCEPT !.fault = "freed_entry"])
    BY <2>2, FaultSound DEF Fault
  <2> HIDE DEF back, lost
  <2> QED BY <2>2, <2>4, <2>5
<1> HIDE DEF walked
<1> QED BY <1>1, <1>3, SendAllSound

-----------------------------------------------------------------------------
\* The inductive invariant of the specification.
IInv == Sound(Now)

\* A handler that ends in a sound instance establishes the invariant.
LEMMA BecomesSound ==
    ASSUME NEW s, Sound(s), Becomes(s) PROVE IInv'
BY DEF Becomes, IInv, Now, Sound, Instance

\* The invariant holds of a daemon that was just started.
LEMMA InitSound == Init => IInv
<1> SUFFICES ASSUME Init PROVE IInv
  OBVIOUS
<1>1. /\ FreshRoute \in Route /\ MaxMetric \in Distance /\ NoMetric \in Metric
      /\ <<>> \in Seq(Nbr) /\ <<>> \in Seq(Work)
  BY FreshRouteType, MetricAssumption DEF Distance, NoMetric, Metric
<1>2. /\ "none" \in State /\ "none" \in Fault /\ "down" \in NbrState
  BY DEF State, Fault, NbrState
<1> QED BY <1>1, <1>2 DEF Init, IInv, Now, Sound, Instance

\* Every event keeps the invariant.
LEMMA NextSound == IInv /\ [Next]_vars => IInv'
<1> SUFFICES ASSUME IInv, [Next]_vars PROVE IInv'
  OBVIOUS
<1>0. Sound(Now) /\ Heard \subseteq Metric
  BY MetricAssumption DEF IInv
<1>1. ASSUME NEW n \in Nbr, NeighborUp(n) PROVE IInv'
  <2>1. [nbr EXCEPT ![n] = "up"] \in [Nbr -> NbrState]
    BY <1>0 DEF Sound, Instance, Now, NbrState
  <2> QED BY <1>0, <1>1, <2>1 DEF NeighborUp, IInv, Now, Sound, Instance
<1>2. ASSUME NEW n \in Nbr, NEW to \in NbrState
      PROVE  /\ [Now EXCEPT !.nbr[n] = to] = [Now EXCEPT !.nbr = [nbr EXCEPT ![n] = to]]
             /\ Sound([Now EXCEPT !.nbr[n] = to])
  <2>1. [nbr EXCEPT ![n] = to] \in [Nbr -> NbrState]
    BY <1>0 DEF Sound, Instance, Now
  <2>2. [Now EXCEPT !.nbr[n] = to] = [Now EXCEPT !.nbr = [nbr EXCEPT ![n] = to]]
    BY DEF Now
  <2> QED BY <1>0, <2>1, <2>2 DEF Sound, Instance
<1>3. ASSUME NEW s, Sound(s), NEW n \in Nbr, NEW to \in NbrState
      PROVE  Sound([s EXCEPT !.nbr[n] = to, !.queried = @ \ {n}])
  <2>1. /\ [s.nbr EXCEPT ![n] = to] \in [Nbr -> NbrState]
        /\ s.queried \ {n} \in SUBSET Nbr
    BY <1>3 DEF Sound, Instance
  <2>2. [s EXCEPT !.nbr[n] = to, !.queried = @ \ {n}]
        = [s EXCEPT !.nbr = [s.nbr EXCEPT ![n] = to], !.queried = s.queried \ {n}]
    BY <1>3 DEF Sound, Instance
  <2> QED BY <1>3, <2>1, <2>2 DEF Sound, Instance
<1>4. ASSUME NEW n \in Nbr, NEW bw \in StackBw, NeighborLost(n, bw) PROVE IInv'
  <2> DEFINE s == NeighborDown([Now EXCEPT !.nbr[n] = "down"], n, bw)
  <2>1. Sound(s)
    BY <1>2, NeighborDownSound DEF NbrState
  <2>2. Becomes([s EXCEPT !.nbr[n] = "gone", !.queried = @ \ {n}])
    BY <1>4 DEF NeighborLost
  <2> HIDE DEF s
  <2>3. Sound([s EXCEPT !.nbr[n] = "gone", !.queried = @ \ {n}])
    BY <1>3, <2>1 DEF NbrState
  <2> QED BY <2>2, <2>3, BecomesSound
<1>5. ASSUME NEW n \in Nbr, NEW bw \in StackBw, PeerRestarted(n, bw) PROVE IInv'
  <2> DEFINE s == NeighborDown([Now EXCEPT !.nbr[n] = "down"], n, bw)
  <2>1. Sound(s)
    BY <1>2, NeighborDownSound DEF NbrState
  <2>2. Becomes(SendAll([s EXCEPT !.nbr[n] = "down", !.queried = @ \ {n}]))
    BY <1>5 DEF PeerRestarted
  <2> HIDE DEF s
  <2>3. Sound([s EXCEPT !.nbr[n] = "down", !.queried = @ \ {n}])
    BY <1>3, <2>1 DEF NbrState
  <2> QED BY <2>2, <2>3, SendAllSound, BecomesSound
<1>6. ASSUME NEW n \in Nbr, NEW m \in Heard, ReceiveUpdate(n, m) PROVE IInv'
  <2>1. CASE state = "none"
    BY <1>0, <1>6, <2>1, NewPrefixSound, SendAllSound, BecomesSound DEF ReceiveUpdate
  <2>2. CASE state # "none"
    <3>1. Now.state # "none"
      BY <2>2 DEF Now
    <3> QED BY <1>0, <1>6, <2>2, <3>1, FsmSound, SendAllSound, BecomesSound
            DEF ReceiveUpdate
  <2> QED BY <2>1, <2>2
<1>7. ASSUME NEW n \in Nbr, NEW m \in Heard, ReceiveQuery(n, m) PROVE IInv'
  <2>1. CASE state = "none"
    <3> DEFINE w == [op |-> "reply", to |-> n, prefix |-> "own"]
    <3>1. Sound([Now EXCEPT !.work = Append(Now.work, w)])
      BY <1>0, AppendWorkSound DEF Work
    <3>2. [Now EXCEPT !.work = Append(@, w)] = [Now EXCEPT !.work = Append(Now.work, w)]
      BY DEF Now
    <3> QED BY <1>7, <2>1, <3>1, <3>2, SendAllSound, BecomesSound DEF ReceiveQuery
  <2>2. CASE state # "none"
    <3>1. Now.state # "none"
      BY <2>2 DEF Now
    <3> QED BY <1>0, <1>7, <2>2, <3>1, FsmSound, SendAllSound, BecomesSound
            DEF ReceiveQuery
  <2> QED BY <2>1, <2>2
<1>8. ASSUME NEW n \in Nbr, NEW m \in Heard, ReceiveReply(n, m) PROVE IInv'
  <2>1. Now.state # "none"
    BY <1>8 DEF ReceiveReply, Now
  <2> QED BY <1>0, <1>8, <2>1, FsmSound, BecomesSound DEF ReceiveReply
<1>9. ASSUME NEW n \in Nbr, KValueMismatch(n) PROVE IInv'
  <2>1. [nbr EXCEPT ![n] = "down"] \in [Nbr -> NbrState]
    BY <1>0 DEF Sound, Instance, Now, NbrState
  <2> QED BY <1>0, <1>9, <2>1 DEF KValueMismatch, IInv, Now, Sound, Instance
<1>10. CASE Packetize
  <2> DEFINE s == [Now EXCEPT !.work = Tail(@)]
  <2>1. Tail(work) \in Seq(Work)
    BY <1>0, <1>10 DEF Packetize, Sound, Instance, Now
  <2>2. Sound(s)
    <3>1. s = [Now EXCEPT !.work = Tail(work)]
      BY DEF Now
    <3> QED BY <1>0, <2>1, <3>1 DEF Sound, Instance
  <2>3. Becomes(WorkProcess(s, Head(work)))
    BY <1>10 DEF Packetize
  <2> HIDE DEF s
  <2> QED BY <2>2, <2>3, WorkProcessSound, BecomesSound
<1>11. CASE UNCHANGED vars
  BY <1>0, <1>11 DEF vars, IInv, Now, Sound, Instance
<1> QED BY <1>1, <1>4, <1>5, <1>6, <1>7, <1>8, <1>9, <1>10,
            <1>11 DEF Next

\* The instance stays sound: at every moment the descriptor, the lists and the
\* queue are well formed, the list of routes is empty only when there is no
\* descriptor, and a requested QUERY or UPDATE has its prefix listed.
THEOREM InstanceSound == Spec => []IInv
<1>1. Init => IInv
  BY InitSound
<1>2. IInv /\ [Next]_vars => IInv'
  BY NextSound
<1> QED BY <1>1, <1>2, PTL DEF Spec

\* The type invariant, for any number of neighbours, any metrics and any bounds:
\* no handler leaves a distance outside 32 bits or a list of other objects.
THEOREM TypeCorrect == Spec => []TypeOK
<1>1. IInv => TypeOK
  BY DEF IInv, Sound, Instance, Now, TypeOK
<1> QED BY <1>1, InstanceSound, PTL

\* No requested QUERY or UPDATE is lost from topology_changes, although
\* query_send_all and eigrp_update_packetize_all take the prefix off the list
\* independently and the descriptor may be freed and created again.
THEOREM RequestsStayListed == Spec => []RequestsListed
<1>1. IInv => RequestsListed
  BY DEF IInv, Sound, Now, RequestsListed
<1> QED BY <1>1, InstanceSound, PTL
=============================================================================
