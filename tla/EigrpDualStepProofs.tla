------------------------ MODULE EigrpDualStepProofs ------------------------
(***************************************************************************)
(* What a step may never do.  The outcome of the state machine is stated   *)
(* once, for the whole of eigrp_fsm_event (FsmOutcome): an event that ends *)
(* in ACTIVE changed nothing but the route that was heard and rij; one     *)
(* that leaves ACTIVE was a REPLY with no other outstanding; an UPDATE     *)
(* never ends a computation.  The loss of a neighbour may be two such      *)
(* UPDATEs (NeighborDownOutcome).                                          *)
(***************************************************************************)
EXTENDS EigrpDualProofs

\* What section 11.2 of design-spec.md freezes is the same in s and in t.
Frozen(s, t) ==
    /\ t.fdistance = s.fdistance /\ t.rdistance = s.rdistance
    /\ t.distance = s.distance   /\ t.reported_metric = s.reported_metric
    /\ t.succ = s.succ           /\ t.rib = s.rib

\* So are the routes.
Kept(s, t) == Frozen(s, t) /\ t.route = s.route /\ t.entries = s.entries

\* No reply is outstanding.
NoneOwed(s) == \A k \in Nbr : s.rij[k] = 0

\* t is not ACTIVE, and owes no reply unless s did.
Rests(s, t) == t.state \in {"passive", "none"} /\ (NoneOwed(s) => NoneOwed(t))

\* A deleted descriptor is at rest.
LEMMA PrefixDeleteRests ==
    ASSUME NEW s, Sound(s) PROVE Rests(s, PrefixDelete(s))
<1>1. PrefixDelete(s).state = "none"
  BY DEF PrefixDelete, Sound, Instance
<1>2. PrefixDelete(s).rij = [n \in Nbr |-> 0]
  BY DEF PrefixDelete, Sound, Instance
<1> QED BY <1>1, <1>2 DEF Rests, NoneOwed

\* Deleting routes leaves the state and rij alone.
LEMMA RoutesDeleteRests ==
    ASSUME NEW s, Sound(s), s.state = "passive" PROVE Rests(s, RoutesDelete(s))
<1>1. RoutesDelete(s).state = "passive" /\ RoutesDelete(s).rij = s.rij
  BY DEF RoutesDelete, Sound, Instance
<1> QED BY <1>1 DEF Rests, NoneOwed

\* The end of a computation leaves the destination at rest.
LEMMA GoPassiveRests ==
    ASSUME NEW s, Sound(s), s.entries # <<>> PROVE Rests(s, GoPassive(s))
<1> DEFINE p == [s EXCEPT !.state = "passive"]
           c == AddChange(p, "update")
           f == UpdateNodeFlags(c)
           r == UpdateRoutingTable(f)
<1>1. Sound(p) /\ p.state = "passive" /\ p.rij = s.rij
  BY DEF Sound, Instance, State
<1> HIDE DEF p
<1>2. Sound(c) /\ c.state = "passive" /\ c.rij = s.rij
  BY <1>1, AddChangeSound DEF AddChange, Sound, Instance
<1> HIDE DEF c
<1>3. Sound(f) /\ f.state = "passive" /\ f.rij = s.rij
  BY <1>2, UpdateNodeFlagsSound DEF UpdateNodeFlags, Sound, Instance
<1> HIDE DEF f
<1>4. Sound(r) /\ r.state = "passive" /\ r.rij = s.rij
  BY <1>3, UpdateRoutingTableSound DEF UpdateRoutingTable, Sound, Instance
<1> HIDE DEF r
<1>5. Rests(r, UpdateTopologyTablePrefix(r))
  BY <1>4, PrefixDeleteRests, RoutesDeleteRests DEF UpdateTopologyTablePrefix
<1>6. GoPassive(s) = UpdateTopologyTablePrefix(r)
  BY DEF GoPassive, p, c, f, r
<1> QED BY <1>4, <1>5, <1>6 DEF Rests, NoneOwed

\* eigrp_fsm_event_lr ends the computation, or the assertion ends the process.
LEMMA LrRests ==
    ASSUME NEW s, Sound(s), s.entries # <<>>
    PROVE  \/ Rests(s, Lr(s))
           \/ s.state = "active3" /\ Lr(s).state = "active3" /\ Kept(s, Lr(s))
<1> DEFINE a == [AdoptBest(s) EXCEPT !.fdistance = Best(s).dist]
           r == FirstSuccessors(a, 1)
           n == CHOOSE k \in r : TRUE
           f == [s EXCEPT !.fault = "assert_successors"]
<1>1. Sound(a)
  BY AdoptBestSound
<1>2. a.entries # <<>> /\ a.state = s.state /\ a.rij = s.rij
  BY DEF AdoptBest, Sound, Instance
<1>3. Lr(s) = CASE a.state # "active3" -> GoPassive(a)
                [] a.state = "active3" /\ r = {} -> f
                [] OTHER -> GoPassive(ReplySend(a, n))
  BY DEF Lr
<1> HIDE DEF a
<1>4. Rests(s, GoPassive(a))
  BY <1>1, <1>2, GoPassiveRests DEF Rests, NoneOwed
<1>5. f.state = s.state /\ Kept(s, f)
  BY DEF Kept, Frozen, Sound, Instance
<1>6. ASSUME r # {} PROVE Rests(s, GoPassive(ReplySend(a, n)))
  <2>1. n \in Nbr
    BY <1>1, <1>6, FirstSuccessorsType DEF Sound
  <2>2. /\ Sound(ReplySend(a, n)) /\ ReplySend(a, n).entries # <<>>
        /\ ReplySend(a, n).rij = s.rij
    BY <1>1, <1>2, <2>1, ReplySendSound DEF ReplySend, Sound, Instance
  <2> QED BY <2>2, GoPassiveRests DEF Rests, NoneOwed
<1> HIDE DEF r, n, f
<1>7. CASE a.state # "active3"
  BY <1>3, <1>4, <1>7
<1>8. CASE a.state = "active3" /\ r = {}
  BY <1>2, <1>3, <1>5, <1>8
<1>9. CASE a.state = "active3" /\ r # {}
  BY <1>3, <1>6, <1>9
<1> QED BY <1>7, <1>8, <1>9

\* eigrp_fsm_event_lr_fcs ends the computation.
LEMMA LrFcsRests ==
    ASSUME NEW s, Sound(s), s.entries # <<>> PROVE Rests(s, LrFcs(s))
<1> DEFINE a == AdoptBest(s)
           d == IF a.fdistance > a.distance THEN a.distance ELSE a.fdistance
           t == [a EXCEPT !.fdistance = d]
<1>1. Sound(a) /\ a.entries # <<>> /\ a.rij = s.rij
  BY AdoptBestSound DEF AdoptBest, Sound, Instance
<1>2. d \in Distance
  BY <1>1 DEF Sound, Instance
<1>3. LrFcs(s) = GoPassive(t)
  BY DEF LrFcs
<1> HIDE DEF d, a
<1>4. Sound(t) /\ t.entries # <<>> /\ t.rij = s.rij
  BY <1>1, <1>2 DEF Sound, Instance
<1> HIDE DEF t
<1> QED BY <1>3, <1>4, GoPassiveRests DEF Rests, NoneOwed

\* A diffusing computation starts with everything frozen, or ends at once.
LEMMA StartQueryRests ==
    ASSUME NEW s, Sound(s), s.entries # <<>>, NEW active \in Active
    PROVE  LET t == StartQuery(s, active)
           IN  Rests(s, t) \/ (t.state = active /\ Kept(s, t))
<1> DEFINE a == [s EXCEPT !.state = active]
<1>1. /\ Sound(a) /\ a.entries # <<>> /\ a.state = active /\ a.rij = s.rij
      /\ Kept(s, a)
  BY DEF Sound, Instance, State, Active, Kept, Frozen
<1> HIDE DEF a
<1>2. AddChange(a, "query").state = active /\ Kept(a, AddChange(a, "query"))
  BY <1>1 DEF AddChange, Sound, Instance, Kept, Frozen
<1>3. Rests(a, Lr(a)) \/ (Lr(a).state = active /\ Kept(a, Lr(a)))
  BY <1>1, LrRests
<1>4. StartQuery(s, active) = IF AnyUp(s) THEN AddChange(a, "query") ELSE Lr(a)
  BY DEF StartQuery, a
<1> QED BY <1>1, <1>2, <1>3, <1>4 DEF Rests, NoneOwed, Kept, Frozen

\* eigrp_fsm_event_keep_state changes data only in PASSIVE.
LEMMA KeepStateKept ==
    ASSUME NEW s, Sound(s), s.entries # <<>>, NEW n \in Nbr, NEW op
    PROVE  LET t == KeepState(s, n, op)
           IN  t.state = s.state /\ (s.state # "passive" => Kept(s, t))
<1> DEFINE changed == s.reported_metric # Best(s).total
           u == [AdoptBest(s) EXCEPT !.fdistance = Best(s).dist]
           a == IF changed THEN AddChange(u, "update") ELSE s
           b == IF changed /\ op = "query" THEN ReplySend(a, n) ELSE a
           f == UpdateNodeFlags(b)
           c == IF s.state = "passive" THEN UpdateRoutingTable(f) ELSE s
<1>1. Sound(u) /\ u.state = s.state
  BY AdoptBestSound DEF AdoptBest, Sound, Instance
<1> HIDE DEF u
<1>2. Sound(a) /\ a.state = s.state
  BY <1>1, AddChangeSound DEF AddChange, Sound, Instance
<1> HIDE DEF a
<1>3. Sound(b) /\ b.state = s.state
  BY <1>2, ReplySendSound DEF ReplySend, Sound, Instance
<1> HIDE DEF b
<1>4. Sound(f) /\ f.state = s.state
  BY <1>3, UpdateNodeFlagsSound DEF UpdateNodeFlags, Sound, Instance
<1> HIDE DEF f
<1>5. Sound(UpdateRoutingTable(f)) /\ UpdateRoutingTable(f).state = s.state
  BY <1>4, UpdateRoutingTableSound DEF UpdateRoutingTable, Sound, Instance
<1>6. Sound(c) /\ c.state = s.state /\ (s.state # "passive" => c = s)
  BY <1>5
<1> HIDE DEF c
<1>7. ReplySend(c, n).state = s.state /\ (s.state # "passive" => Kept(s, ReplySend(c, n)))
  BY <1>6 DEF ReplySend, Sound, Instance, Kept, Frozen
<1>8. KeepState(s, n, op) = IF op = "query" THEN ReplySend(c, n) ELSE c
  BY DEF KeepState, a, b, c, f, u
<1> QED BY <1>6, <1>7, <1>8 DEF Kept, Frozen

-----------------------------------------------------------------------------
\* The arrows of the diagram in eigrp_fsm.c, closed under the events of one message.
Arrow(p, q) ==
    /\ q \in State
    /\ p = "active2" => q \in {"active2", "active3", "passive", "none"}
    /\ p = "active3" => q \in {"active3", "active2", "passive", "none"}
    /\ p = "active0" => q \in {"active0", "active1", "active2", "passive", "none"}
    /\ p \in {"passive", "none"} => q \notin {"active0", "active2"}

\* The arrows an UPDATE may follow in ACTIVE.
Waits(p, q) ==
    /\ q \in Active
    /\ p = "active0" => q = "active0"
    /\ p = "active2" => q = "active2"
    /\ p = "active1" => q \in {"active1", "active0"}
    /\ p = "active3" => q \in {"active3", "active2"}

\* eigrp_fsm_event_dinc, with the event it may look at again.
LEMMA DincOutcome ==
    ASSUME NEW s, Sound(s), s.entries # <<>>, NEW n \in Nbr, NEW op,
           s.state \in {"active1", "active3"}
    PROVE  LET t == Dinc(s, n, op)
           IN  /\ Arrow(s.state, t.state)
               /\ t.state \in Active => Kept(s, t)
               /\ t.state \notin Active => op = "reply" /\ NoneOwed(t)
               /\ op = "update" => Waits(s.state, t.state)
<1> DEFINE to == IF s.state = "active1" THEN "active0" ELSE "active2"
           a  == [s EXCEPT !.state = to]
           t  == Dinc(s, n, op)
           ev == FsmEvent(a, n, op, "same")
<1>1. /\ Sound(a) /\ a.entries # <<>> /\ a.state = to /\ a.rij = s.rij
      /\ Kept(s, a)
  BY DEF Sound, Instance, State, Active, Kept, Frozen
<1>2. t = IF \E k \in Nbr : a.rij[k] > 0 THEN a
          ELSE CASE ev = "lr_fcs" -> LrFcs(a)
                 [] ev = "lr_fcn" -> LrFcn(a)
                 [] OTHER -> KeepState(a, n, op)
  BY DEF Dinc
<1>3. to \in {"active0", "active2"}
  OBVIOUS
<1>4. ev \in {"lr_fcs", "lr_fcn"} => op = "reply"
  BY <1>1, <1>3 DEF FsmEvent, LastReply, SuccessorQuery, SuccessorIncrease, Active
<1> SUFFICES /\ Arrow(s.state, t.state)
             /\ t.state \in Active => Kept(s, t)
             /\ t.state \notin Active => op = "reply" /\ NoneOwed(t)
             /\ op = "update" => Waits(s.state, t.state)
  OBVIOUS
<1> HIDE DEF a, ev, t
<1>5. CASE \E k \in Nbr : a.rij[k] > 0
  BY <1>1, <1>2, <1>5 DEF Arrow, Waits, State, Active
<1>6. CASE ~(\E k \in Nbr : a.rij[k] > 0)
  <2>1. NoneOwed(a)
    BY <1>1, <1>6 DEF NoneOwed, Sound, Instance
  <2>2. CASE ev = "lr_fcs"
    <3>1. Rests(a, t)
      BY <1>1, <1>2, <1>6, <2>2, LrFcsRests
    <3> QED BY <1>4, <2>1, <2>2, <3>1 DEF Rests, Arrow, State, Active
  <2>3. CASE ev = "lr_fcn"
    <3> DEFINE back == IF a.state = "active0" THEN "active1" ELSE "active3"
    <3>1. t = StartQuery(a, back)
      BY <1>2, <1>6, <2>3 DEF LrFcn
    <3>2. back \in Active /\ back = s.state
      BY <1>1 DEF Active
    <3>3. Rests(a, t) \/ (t.state = s.state /\ Kept(a, t))
      BY <1>1, <3>1, <3>2, StartQueryRests
    <3> QED BY <1>1, <1>4, <2>1, <2>3, <3>3
            DEF Rests, Arrow, State, Active, Kept, Frozen
  <2>4. CASE ev \notin {"lr_fcs", "lr_fcn"}
    <3>1. t = KeepState(a, n, op)
      BY <1>2, <1>6, <2>4
    <3>2. t.state = to /\ Kept(a, t)
      BY <1>1, <1>3, <3>1, KeepStateKept
    <3> QED BY <1>1, <3>2 DEF Arrow, Waits, State, Active, Kept, Frozen
  <2> QED BY <2>2, <2>3, <2>4
<1> QED BY <1>5, <1>6

\* eigrp_fsm_event.
LEMMA FsmOutcome ==
    ASSUME NEW s, Sound(s), s.state # "none",
           NEW n \in Nbr, NEW op, NEW m \in Metric
    PROVE  LET a == TakeReply(UpdateDistance(s, n, m), n, op)
               t == Fsm(s, n, op, m)
           IN  /\ Frozen(s, a) /\ a.route = UpdateDistance(s, n, m).route
               /\ Arrow(s.state, t.state)
               /\ t.state \in Active => Kept(a, t)
               /\ s.state \in Active /\ t.state \notin Active =>
                      op = "reply" /\ NoneOwed(t)
               /\ s.state \in Active /\ op = "update" => Waits(s.state, t.state)
<1> DEFINE u  == UpdateDistance(s, n, m)
           a  == TakeReply(u, n, op)
           ev == FsmEvent(a, n, op, MetricChange(s, n, m))
           t  == Fsm(s, n, op, m)
<1>1. /\ Sound(u) /\ u.entries # <<>> /\ u.state = s.state /\ Frozen(s, u)
  <2>1. Sound(u)
    BY UpdateDistanceSound
  <2>2. u.state = s.state /\ Frozen(s, u)
    BY DEF UpdateDistance, Sound, Instance, Frozen
  <2> QED BY <2>1, <2>2 DEF Sound
<1>2. t = CASE ev = "nq_fcn" -> StartQuery(a, "active1")
            [] ev = "q_fcn"  -> StartQuery(a, "active3")
            [] ev = "lr"     -> Lr(a)
            [] ev = "dinc"   -> Dinc(a, n, op)
            [] ev = "qact"   -> Qact(a)
            [] ev = "lr_fcs" -> LrFcs(a)
            [] ev = "lr_fcn" -> LrFcn(a)
            [] OTHER         -> KeepState(a, n, op)
  BY DEF Fsm
<1> HIDE DEF u
<1>3. /\ Sound(a) /\ a.entries # <<>> /\ a.state = s.state
      /\ Frozen(s, a) /\ a.route = u.route
  BY <1>1, TakeReplySound DEF TakeReply, Sound, Instance, Frozen
<1>4. a.state \in State /\ a.state # "none"
  BY <1>3 DEF Sound, Instance
<1>5. /\ ev \in {"nq_fcn", "q_fcn"} => a.state = "passive"
      /\ ev = "qact" => a.state \in {"active0", "active1"} /\ op = "query"
      /\ ev = "dinc" => a.state \in {"active1", "active3"}
      /\ ev = "lr" => /\ a.state \in {"active1", "active3"}
                      /\ op = "reply" /\ NoneOwed(a)
      /\ ev \in {"lr_fcs", "lr_fcn"} => /\ a.state \in {"active0", "active2"}
                                        /\ op = "reply" /\ NoneOwed(a)
  BY <1>4 DEF FsmEvent, SuccessorQuery, SuccessorIncrease, LastReply, NoneOwed,
              State, Active
<1> SUFFICES
      /\ Arrow(a.state, t.state)
      /\ t.state \in Active => Kept(a, t)
      /\ a.state \in Active /\ t.state \notin Active =>
             op = "reply" /\ NoneOwed(t)
      /\ a.state \in Active /\ op = "update" => Waits(a.state, t.state)
  BY <1>3 DEF u
<1> HIDE DEF a, ev, t
<1>6. CASE ev \in {"nq_fcn", "q_fcn"}
  <2>1. PICK active \in {"active1", "active3"} : t = StartQuery(a, active)
    BY <1>2, <1>6
  <2>2. Rests(a, t) \/ (t.state = active /\ Kept(a, t))
    BY <1>3, <2>1, StartQueryRests DEF Active
  <2> QED BY <1>5, <1>6, <2>2 DEF Rests, Arrow, State, Active
<1>7. CASE ev = "lr"
  <2>1. \/ Rests(a, t)
        \/ a.state = "active3" /\ t.state = "active3" /\ Kept(a, t)
    BY <1>2, <1>3, <1>7, LrRests
  <2> QED BY <1>5, <1>7, <2>1 DEF Rests, Arrow, State, Active
<1>8. CASE ev = "dinc"
  <2>1. t = Dinc(a, n, op)
    BY <1>2, <1>8
  <2> QED BY <1>3, <1>5, <1>8, <2>1, DincOutcome
<1>9. CASE ev = "qact"
  <2>1. t = [a EXCEPT !.state = "active2"]
    BY <1>2, <1>9 DEF Qact
  <2>2. t.state = "active2" /\ Kept(a, t)
    BY <1>3, <2>1 DEF Sound, Instance, Kept, Frozen
  <2> QED BY <1>5, <1>9, <2>2 DEF Arrow, State, Active
<1>10. CASE ev = "lr_fcs"
  <2>1. Rests(a, t)
    BY <1>2, <1>3, <1>10, LrFcsRests
  <2> QED BY <1>5, <1>10, <2>1 DEF Rests, Arrow, State, Active
<1>11. CASE ev = "lr_fcn"
  <2> DEFINE next == IF a.state = "active0" THEN "active1" ELSE "active3"
  <2>1. t = StartQuery(a, next)
    BY <1>2, <1>11 DEF LrFcn
  <2>2. next \in Active
    BY DEF Active
  <2>3. Rests(a, t) \/ (t.state = next /\ Kept(a, t))
    BY <1>3, <2>1, <2>2, StartQueryRests
  <2> QED BY <1>5, <1>11, <2>3 DEF Rests, Arrow, State, Active
<1>12. CASE ev \notin {"nq_fcn", "q_fcn", "lr", "dinc", "qact", "lr_fcs", "lr_fcn"}
  <2>1. t = KeepState(a, n, op)
    BY <1>2, <1>12
  <2>2. t.state = a.state /\ (a.state # "passive" => Kept(a, t))
    BY <1>3, <2>1, KeepStateKept
  <2> QED BY <1>4, <2>2 DEF Arrow, Waits, State, Active
<1> QED BY <1>6, <1>7, <1>8, <1>9, <1>10, <1>11, <1>12

\* After eigrp_topology_update_distance the route holds the metric of the message.
LEMMA HeardOnce ==
    ASSUME NEW s, Sound(s), s.state # "none", NEW n \in Nbr, NEW m \in Metric
    PROVE  UpdateDistance(s, n, m).route[n].reported = m
<1> DEFINE rt == [s.route EXCEPT ![n] = HeardRoute(n, m)]
<1>1. CASE m = s.route[n].reported
  BY <1>1 DEF UpdateDistance
<1>2. CASE m # s.route[n].reported
  <2>1. UpdateDistance(s, n, m) =
          [s EXCEPT !.route = rt,
                    !.entries = InsertSorted(Without(s.entries, n), n, rt)]
    BY <1>2 DEF UpdateDistance
  <2>2. UpdateDistance(s, n, m).route = rt
    BY <2>1 DEF Sound, Instance
  <2>3. rt[n] = HeardRoute(n, m)
    BY DEF Sound, Instance
  <2> QED BY <2>2, <2>3 DEF HeardRoute
<1> QED BY <1>1, <1>2

\* An UPDATE that repeats the metric of the route does not change the state.
LEMMA RepeatedUpdateKeeps ==
    ASSUME NEW s, Sound(s), s.state \in {"active1", "active3"},
           NEW n \in Nbr, NEW m, s.route[n].reported = m
    PROVE  Fsm(s, n, "update", m).state = s.state
<1>1. UpdateDistance(s, n, m) = s /\ MetricChange(s, n, m) = "same"
  BY DEF UpdateDistance, MetricChange
<1>2. TakeReply(s, n, "update") = s
  BY DEF TakeReply
<1>3. FsmEvent(s, n, "update", "same") = "keep"
  BY DEF FsmEvent, SuccessorQuery, SuccessorIncrease, LastReply
<1>4. Fsm(s, n, "update", m) = KeepState(s, n, "update")
  BY <1>1, <1>2, <1>3 DEF Fsm
<1> QED BY <1>4, KeepStateKept DEF Sound

\* query_send_all and update_send_all change requests and the queue only.
LEMMA SendAllKeeps ==
    ASSUME NEW s, Sound(s)
    PROVE  LET t == SendAll(s)
           IN  Kept(s, t) /\ t.state = s.state /\ t.rij = s.rij /\ t.nbr = s.nbr
<1> DEFINE q == QuerySendAll(s)
<1>1. Kept(s, q) /\ q.state = s.state /\ q.rij = s.rij /\ q.nbr = s.nbr /\ q \in Instance
  <2>1. q \in Instance
    <3>1. Sound([s EXCEPT !.fault = "freed_prefix"])
      BY FaultSound DEF Fault
    <3>2. ASSUME "query" \in s.req_action PROVE Sound(Done(s, "query"))
      BY <3>2, DoneSound
    <3>3. ASSUME "query" \in s.req_action
          PROVE  [Done(s, "query") EXCEPT !.work =
                     Append(@, [op |-> "query", to |-> NoNbr, prefix |-> "live"])]
                 \in Instance
      <4> DEFINE d == Done(s, "query")
                 w == [op |-> "query", to |-> NoNbr, prefix |-> "live"]
      <4>1. Sound(d) /\ w \in Work
        BY <3>2, <3>3 DEF Work
      <4>2. [d EXCEPT !.work = Append(@, w)] = [d EXCEPT !.work = Append(d.work, w)]
        BY <4>1 DEF Sound, Instance
      <4> HIDE DEF d, w
      <4> QED BY <4>1, <4>2, AppendWorkSound DEF Sound, d, w
    <3> QED BY <3>1, <3>3 DEF QuerySendAll, Sound
  <2> QED BY <2>1 DEF QuerySendAll, Done, Sound, Instance, Kept, Frozen
<1> HIDE DEF q
<1>2. SendAll(s) = [q EXCEPT !.work =
                      Append(@, [op |-> "update", to |-> NoNbr, prefix |-> "no"])]
  BY DEF SendAll, UpdateSendAll, q
<1> QED BY <1>1, <1>2 DEF Instance, Kept, Frozen

\* An item of the work queue changes neither the state nor what is frozen.
LEMMA WorkProcessKeeps ==
    ASSUME NEW s, Sound(s), NEW w
    PROVE  LET t == WorkProcess(s, w) IN Frozen(s, t) /\ t.state = s.state
<1>1. Frozen(s, PacketizeAll(s)) /\ PacketizeAll(s).state = s.state
  BY DEF PacketizeAll, Done, Sound, Instance, Frozen
<1>2. Frozen(s, QuerySend(s, w)) /\ QuerySend(s, w).state = s.state
  BY DEF QuerySend, Sound, Instance, Frozen
<1>3. Frozen(s, NeighborRouteSend(s, w)) /\ NeighborRouteSend(s, w).state = s.state
  BY DEF NeighborRouteSend, Sound, Instance, Frozen
<1> QED BY <1>1, <1>2, <1>3 DEF WorkProcess

\* eigrp_topology_neighbor_down, whose walk may meet the route twice.
LEMMA NeighborDownOutcome ==
    ASSUME NEW s, Sound(s), NEW n \in Nbr, NEW bw \in StackBw
    PROVE  LET t == NeighborDown(s, n, bw)
           IN  /\ Arrow(s.state, t.state)
               /\ s.state \in Active => t.state \in Active /\ Frozen(s, t)
               /\ s.state = "none" => t.state = "none"
<1> DEFINE m    == [bw |-> bw, delay |-> MaxMetric]
           once == Fsm(s, n, "update", m)
           twice == Fsm(once, n, "update", m)
           pos(t) == CHOOSE i \in DOMAIN t.entries : t.entries[i] = n
           next == {k \in ToSet(s.entries) :
                      pos(s) < Len(s.entries) /\ k = s.entries[pos(s) + 1]}
           back == /\ n \in ToSet(once.entries)
                   /\ \E k \in next : \E i \in DOMAIN once.entries :
                          once.entries[i] = k /\ i < pos(once)
           lost == ~(next \subseteq ToSet(once.entries))
           freed == [once EXCEPT !.fault = "freed_entry"]
           walked == CASE once.fault # "none" -> once
                       [] once.fault = "none" /\ lost -> freed
                       [] once.fault = "none" /\ ~lost /\ back -> twice
                       [] OTHER -> once
           w == IF n \in ToSet(s.entries) THEN walked ELSE s
<1>1. NeighborDown(s, n, bw) = SendAll(w)
  BY DEF NeighborDown
<1>2. m \in Metric /\ s.state \in State
  BY MetricAssumption DEF Metric, Sound, Instance
<1>3. back => once.entries # <<>>
  BY DEF ToSet
<1> HIDE DEF back, lost, m
<1>4. ASSUME n \in ToSet(s.entries)
      PROVE  /\ Sound(walked) /\ Arrow(s.state, walked.state)
             /\ s.state \in Active => walked.state \in Active /\ Frozen(s, walked)
  <2>1. s.state # "none"
    BY <1>4 DEF ToSet, Sound
  <2> DEFINE a == TakeReply(UpdateDistance(s, n, m), n, "update")
  <2>2. /\ Sound(once) /\ Arrow(s.state, once.state)
        /\ once.state \in Active => Frozen(s, once) /\ once.route[n].reported = m
        /\ s.state \in Active => Waits(s.state, once.state)
    <3>1. /\ Frozen(s, a) /\ a.route = UpdateDistance(s, n, m).route
          /\ Arrow(s.state, once.state)
          /\ once.state \in Active => Kept(a, once)
          /\ s.state \in Active => Waits(s.state, once.state)
      BY <1>2, <2>1, FsmOutcome
    <3>2. Sound(once)
      BY <1>2, <2>1, FsmSound
    <3>3. a.route[n].reported = m
      BY <1>2, <2>1, <3>1, HeardOnce
    <3> HIDE DEF a, once
    <3> QED BY <3>1, <3>2, <3>3 DEF Kept, Frozen
  <2>3. ASSUME back
        PROVE  /\ Sound(twice) /\ Arrow(s.state, twice.state)
               /\ s.state \in Active => twice.state \in Active /\ Frozen(s, twice)
    <3>1. once.state # "none"
      BY <1>3, <2>2, <2>3 DEF Sound
    <3> DEFINE c == TakeReply(UpdateDistance(once, n, m), n, "update")
    <3> HIDE DEF once
    <3>2. /\ Frozen(once, c) /\ Arrow(once.state, twice.state)
          /\ twice.state \in Active => Kept(c, twice)
          /\ once.state \in Active => Waits(once.state, twice.state)
      BY <1>2, <2>2, <3>1, FsmOutcome
    <3>3. Sound(twice)
      BY <1>2, <2>2, <3>1, FsmSound
    <3>4. once.state \in {"active1", "active3"} => twice.state = once.state
      BY <2>2, RepeatedUpdateKeeps DEF Active
    <3> HIDE DEF twice, c
    <3>5. CASE s.state \in Active
      BY <2>2, <3>2, <3>3, <3>5 DEF Arrow, Waits, Active, State, Kept, Frozen
    <3>6. CASE s.state = "passive"
      BY <2>2, <3>1, <3>2, <3>3, <3>4, <3>6 DEF Arrow, Active, State
    <3> QED BY <1>2, <2>1, <3>5, <3>6 DEF State
  <2>4. Sound(freed) /\ freed.state = once.state /\ Frozen(once, freed)
    <3> HIDE DEF once
    <3>1. Sound(freed)
      BY <2>2, FaultSound DEF Fault
    <3> QED BY <2>2, <3>1 DEF Sound, Instance, Frozen
  <2> HIDE DEF once, twice, freed
  <2>5. walked \in {once, freed} \/ (back /\ walked = twice)
    OBVIOUS
  <2> HIDE DEF walked
  <2> QED BY <2>2, <2>3, <2>4, <2>5 DEF Waits, Frozen
<1> HIDE DEF walked
<1>5. /\ Sound(w) /\ Arrow(s.state, w.state)
      /\ s.state \in Active => w.state \in Active /\ Frozen(s, w)
      /\ s.state = "none" => w.state = "none"
  <2>1. n \in ToSet(s.entries) => s.state # "none"
    BY DEF ToSet, Sound
  <2> QED BY <1>2, <1>4, <2>1 DEF Arrow, Frozen
<1> HIDE DEF w
<1> QED BY <1>1, <1>5, SendAllKeeps DEF Kept, Frozen

-----------------------------------------------------------------------------
\* The three action properties, as formulas of one step.
StaysFrozen ==
    (state' \in Active /\ (state \in Active \/ nbr' = nbr)) =>
        UNCHANGED <<fdistance, rdistance, distance, reported_metric, succ, rib>>

EndsAnswered ==
    (state \in Active /\ state' \notin Active) => \A n \in Nbr : rij'[n] = 0

FollowsArrow == Arrow(state, state') /\ (state = "none" => state' \in {"none", "passive"})

\* A handler that ends in a frozen copy changes none of the frozen variables.
LEMMA BecomesFrozen ==
    ASSUME NEW s, Becomes(s), Frozen(Now, s)
    PROVE  UNCHANGED <<fdistance, rdistance, distance, reported_metric, succ, rib>>
BY DEF Becomes, Frozen, Now

\* A message that goes to the state machine, followed by query_send_all and
\* update_send_all or not.
LEMMA MessageStep ==
    ASSUME IInv, state # "none", NEW n \in Nbr, NEW op, NEW m \in Metric,
           NEW t, t \in {Fsm(Now, n, op, m), SendAll(Fsm(Now, n, op, m))},
           Becomes(t)
    PROVE  StaysFrozen /\ EndsAnswered /\ FollowsArrow
<1> DEFINE a == TakeReply(UpdateDistance(Now, n, m), n, op)
           f == Fsm(Now, n, op, m)
<1>1. Sound(Now) /\ Now.state = state /\ Now.state # "none"
  BY DEF IInv, Now
<1>2. /\ Frozen(Now, a) /\ Arrow(Now.state, f.state)
      /\ f.state \in Active => Kept(a, f)
      /\ Now.state \in Active /\ f.state \notin Active => NoneOwed(f)
  BY <1>1, FsmOutcome
<1>3. Sound(f)
  BY <1>1, FsmSound
<1> HIDE DEF a, f
<1>4. t \in {f, SendAll(f)}
  BY DEF f
<1>5. Kept(f, t) /\ t.state = f.state /\ t.rij = f.rij
  BY <1>3, <1>4, SendAllKeeps DEF Kept, Frozen
<1>6. t.state \in Active => Frozen(Now, t)
  BY <1>2, <1>5 DEF Kept, Frozen
<1>7. state' = t.state /\ rij' = t.rij
  BY DEF Becomes
<1>8. StaysFrozen
  BY <1>6, <1>7, BecomesFrozen DEF StaysFrozen
<1> QED BY <1>1, <1>2, <1>5, <1>7, <1>8 DEF EndsAnswered, FollowsArrow, NoneOwed

\* Every event satisfies the three formulas.
LEMMA NextFrozen ==
    IInv /\ [Next]_vars => StaysFrozen /\ EndsAnswered /\ FollowsArrow
<1> SUFFICES ASSUME IInv, [Next]_vars
             PROVE  StaysFrozen /\ EndsAnswered /\ FollowsArrow
  OBVIOUS
<1>0. Sound(Now) /\ Heard \subseteq Metric /\ Now.state = state /\ state \in State
  BY MetricAssumption DEF IInv, Now, Sound, Instance
<1>1. CASE UNCHANGED <<state, fdistance, rdistance, distance, reported_metric,
                       succ, rib>>
  BY <1>0, <1>1 DEF StaysFrozen, EndsAnswered, FollowsArrow, Arrow
<1>2. ASSUME NEW n \in Nbr, NEW to \in NbrState
      PROVE  LET s == [Now EXCEPT !.nbr[n] = to]
             IN  Sound(s) /\ s.state = state /\ Frozen(Now, s)
  <2>1. [nbr EXCEPT ![n] = to] \in [Nbr -> NbrState]
    BY <1>0 DEF Sound, Instance, Now
  <2>2. [Now EXCEPT !.nbr[n] = to] = [Now EXCEPT !.nbr = [nbr EXCEPT ![n] = to]]
    BY DEF Now
  <2> QED BY <1>0, <2>1, <2>2 DEF Sound, Instance, Frozen
<1>3. ASSUME NEW n \in Nbr, NEW bw \in StackBw, NEW s, NEW to \in NbrState,
             s = NeighborDown([Now EXCEPT !.nbr[n] = "down"], n, bw),
             NEW t, t \in {[s EXCEPT !.nbr[n] = to, !.queried = @ \ {n}],
                           SendAll([s EXCEPT !.nbr[n] = to, !.queried = @ \ {n}])},
             Becomes(t), nbr[n] # to
      PROVE  StaysFrozen /\ EndsAnswered /\ FollowsArrow
  <2> DEFINE d == [Now EXCEPT !.nbr[n] = "down"]
             r == [s EXCEPT !.nbr[n] = to, !.queried = @ \ {n}]
  <2>1. Sound(d) /\ d.state = state /\ Frozen(Now, d)
    BY <1>2 DEF NbrState
  <2>2. /\ Sound(s) /\ Arrow(state, s.state)
        /\ state \in Active => s.state \in Active /\ Frozen(Now, s)
        /\ state = "none" => s.state = "none"
    <3> HIDE DEF d
    <3>1. s = NeighborDown(d, n, bw)
      BY <1>3 DEF d
    <3>2. Sound(s)
      BY <2>1, <3>1, NeighborDownSound
    <3>3. /\ Arrow(d.state, s.state)
          /\ d.state \in Active => s.state \in Active /\ Frozen(d, s)
          /\ d.state = "none" => s.state = "none"
      BY <2>1, <3>1, NeighborDownOutcome
    <3> QED BY <2>1, <3>2, <3>3 DEF Frozen
  <2>3. /\ Sound(r) /\ r.state = s.state /\ Frozen(s, r) /\ r.nbr[n] = to
    <3>1. /\ [s.nbr EXCEPT ![n] = to] \in [Nbr -> NbrState]
          /\ s.queried \ {n} \in SUBSET Nbr
      BY <2>2 DEF Sound, Instance
    <3>2. r = [s EXCEPT !.nbr = [s.nbr EXCEPT ![n] = to],
                        !.queried = s.queried \ {n}]
      BY <2>2 DEF Sound, Instance
    <3> HIDE DEF r
    <3>3. Sound(r)
      BY <2>2, <3>1, <3>2 DEF Sound, Instance
    <3> QED BY <2>2, <3>2, <3>3 DEF Sound, Instance, Frozen
  <2>4. t \in {r, SendAll(r)}
    BY <1>3
  <2> HIDE DEF r, d
  <2>5. t.state = s.state /\ Frozen(s, t) /\ t.nbr[n] = to
    BY <2>3, <2>4, SendAllKeeps DEF Kept, Frozen
  <2>6. state' = t.state /\ nbr' = t.nbr
    BY <1>3 DEF Becomes
  <2>7. state \in Active => Frozen(Now, t)
    BY <2>2, <2>5 DEF Frozen
  <2>8. StaysFrozen
    BY <1>3, <2>5, <2>6, <2>7, BecomesFrozen DEF StaysFrozen
  <2> QED BY <2>2, <2>5, <2>6, <2>8 DEF EndsAnswered, FollowsArrow
<1>4. ASSUME NEW n \in Nbr, NeighborUp(n)
      PROVE  StaysFrozen /\ EndsAnswered /\ FollowsArrow
  BY <1>1, <1>4 DEF NeighborUp
<1>5. ASSUME NEW n \in Nbr, NEW bw \in StackBw, NeighborLost(n, bw)
      PROVE  StaysFrozen /\ EndsAnswered /\ FollowsArrow
  <2> DEFINE s == NeighborDown([Now EXCEPT !.nbr[n] = "down"], n, bw)
  <2>1. /\ Becomes([s EXCEPT !.nbr[n] = "gone", !.queried = @ \ {n}])
        /\ nbr[n] # "gone"
    BY <1>5 DEF NeighborLost
  <2> QED BY <1>3, <2>1 DEF NbrState
<1>6. ASSUME NEW n \in Nbr, NEW bw \in StackBw, PeerRestarted(n, bw)
      PROVE  StaysFrozen /\ EndsAnswered /\ FollowsArrow
  <2> DEFINE s == NeighborDown([Now EXCEPT !.nbr[n] = "down"], n, bw)
  <2>1. /\ Becomes(SendAll([s EXCEPT !.nbr[n] = "down", !.queried = @ \ {n}]))
        /\ nbr[n] # "down"
    BY <1>6 DEF PeerRestarted
  <2> QED BY <1>3, <2>1 DEF NbrState
<1>7. ASSUME NEW s, Sound(s), s.state \in {"none", "passive"}, state = "none",
             Becomes(SendAll(s))
      PROVE  StaysFrozen /\ EndsAnswered /\ FollowsArrow
  <2>1. state' = s.state
    BY <1>7, SendAllKeeps DEF Becomes
  <2> QED BY <1>7, <2>1 DEF StaysFrozen, EndsAnswered, FollowsArrow, Arrow, Active, State
<1>8. ASSUME NEW n \in Nbr, NEW m \in Heard, ReceiveUpdate(n, m)
      PROVE  StaysFrozen /\ EndsAnswered /\ FollowsArrow
  <2>1. CASE state = "none"
    <3>1. Sound(NewPrefix(Now, n, m))
      BY <1>0, NewPrefixSound
    <3>2. NewPrefix(Now, n, m).state = "passive"
      BY DEF NewPrefix, UpdateNodeFlags, AddChange, Now
    <3> QED BY <1>7, <1>8, <2>1, <3>1, <3>2 DEF ReceiveUpdate
  <2>2. CASE state # "none"
    BY <1>0, <1>8, <2>2, MessageStep DEF ReceiveUpdate
  <2> QED BY <2>1, <2>2
<1>9. ASSUME NEW n \in Nbr, NEW m \in Heard, ReceiveQuery(n, m)
      PROVE  StaysFrozen /\ EndsAnswered /\ FollowsArrow
  <2>1. CASE state = "none"
    <3> DEFINE w == [op |-> "reply", to |-> n, prefix |-> "own"]
               s == [Now EXCEPT !.work = Append(Now.work, w)]
    <3>1. Sound(s)
      BY <1>0, AppendWorkSound DEF Work
    <3>2. s.state = "none" /\ Becomes(SendAll(s))
      BY <1>9, <2>1 DEF ReceiveQuery, Now
    <3> QED BY <1>7, <2>1, <3>1, <3>2
  <2>2. CASE state # "none"
    BY <1>0, <1>9, <2>2, MessageStep DEF ReceiveQuery
  <2> QED BY <2>1, <2>2
<1>10. ASSUME NEW n \in Nbr, NEW m \in Heard, ReceiveReply(n, m)
       PROVE  StaysFrozen /\ EndsAnswered /\ FollowsArrow
  BY <1>0, <1>10, MessageStep DEF ReceiveReply
<1>11. ASSUME NEW n \in Nbr, KValueMismatch(n)
       PROVE  StaysFrozen /\ EndsAnswered /\ FollowsArrow
  BY <1>1, <1>11 DEF KValueMismatch
<1>12. CASE Packetize
  <2> DEFINE s == [Now EXCEPT !.work = Tail(@)]
             t == WorkProcess(s, Head(work))
  <2>1. s = [Now EXCEPT !.work = Tail(work)] /\ Tail(work) \in Seq(Work)
    BY <1>0, <1>12 DEF Packetize, Sound, Instance, Now
  <2>2. Sound(s) /\ s.state = state /\ Frozen(Now, s)
    BY <1>0, <2>1 DEF Sound, Instance, Frozen
  <2>3. Becomes(t)
    BY <1>12 DEF Packetize
  <2> HIDE DEF s
  <2>4. t.state = state /\ Frozen(Now, t)
    BY <2>2, WorkProcessKeeps DEF Frozen
  <2> HIDE DEF t
  <2>5. state' = state
    BY <2>3, <2>4 DEF Becomes
  <2> QED BY <1>1, <2>3, <2>4, <2>5, BecomesFrozen
<1>13. CASE UNCHANGED vars
  BY <1>1, <1>13 DEF vars
<1> QED BY <1>4, <1>5, <1>6, <1>8, <1>9, <1>10, <1>11, <1>12,
            <1>13 DEF Next

\* Section 11.2 of design-spec.md, for any number of neighbours and any metrics:
\* FD, RD, distance, reported metric, successors and routing table do not
\* change while the destination stays ACTIVE.
THEOREM ActiveStaysFrozen == Spec => ActiveFrozen
<1>1. IInv /\ [Next]_vars => [(state' \in Active /\ (state \in Active \/ nbr' = nbr)) =>
          UNCHANGED <<fdistance, rdistance, distance, reported_metric, succ, rib>>]_vars
  BY NextFrozen DEF StaysFrozen
<1> QED BY <1>1, InstanceSound, PTL DEF Spec, ActiveFrozen

\* A diffusing computation never ends while a reply is outstanding, whatever
\* order the updates, queries, replies and lost neighbours come in.
THEOREM EndsAnsweredAlways == Spec => EndsOnLastReply
<1>1. IInv /\ [Next]_vars => [(state \in Active /\ state' \notin Active) =>
                                 \A n \in Nbr : rij'[n] = 0]_vars
  BY NextFrozen DEF EndsAnswered
<1> QED BY <1>1, InstanceSound, PTL DEF Spec, EndsOnLastReply

\* The state of a destination only moves along the arrows of the diagram at the
\* head of eigrp_fsm.c; a query of the successor is remembered to the end.
THEOREM DiagramFollowed == Spec => FollowsDiagram
<1> DEFINE D ==
       /\ state = "active2" => state' \in {"active2", "active3", "passive", "none"}
       /\ state = "active3" => state' \in {"active3", "active2", "passive", "none"}
       /\ state = "active0" =>
             state' \in {"active0", "active1", "active2", "passive", "none"}
       /\ state \in {"passive", "none"} => state' \notin {"active0", "active2"}
       /\ state = "none" => state' \in {"none", "passive"}
<1>1. IInv /\ [Next]_vars => [D]_vars
  BY NextFrozen DEF FollowsArrow, Arrow
<1>2. FollowsDiagram <=> [][D]_vars
  BY DEF FollowsDiagram
<1> HIDE DEF D
<1> QED BY <1>1, <1>2, InstanceSound, PTL DEF Spec

\* The engine implements a diffusing computation, for any number of neighbours
\* and any metrics: what the router settled on is the same from the first step
\* of the computation to its last, which no neighbour is waited for in.
THEOREM DiffusionImplemented == Spec => ImplementsDiffusion
<1>1. Init => Diffusion!Init
  BY DEF Init, Diffusion!Init, Active
<1>2. IInv /\ [Next]_vars => [Diffusion!Next]_(Diffusion!vars)
  <2> SUFFICES ASSUME IInv, [Next]_vars
               PROVE  Diffusion!Next \/ UNCHANGED Diffusion!vars
    OBVIOUS
  <2>1. StaysFrozen /\ EndsAnswered
    BY NextFrozen
  <2>2. CASE state \in Active /\ state' \in Active
    BY <2>1, <2>2 DEF StaysFrozen, Diffusion!Next, Diffusion!Wait
  <2>3. CASE state \in Active /\ state' \notin Active
    <3>1. {n \in Nbr : rij'[n] > 0} = {}
      BY <2>1, <2>3 DEF EndsAnswered
    <3> QED BY <2>3, <3>1 DEF Diffusion!Next, Diffusion!End
  <2>4. CASE state \notin Active
    BY <2>4 DEF Diffusion!Next, Diffusion!Local, Diffusion!Start
  <2> QED BY <2>2, <2>3, <2>4
<1> QED BY <1>1, <1>2, InstanceSound, PTL DEF Spec, ImplementsDiffusion, Diffusion!Spec
=============================================================================
