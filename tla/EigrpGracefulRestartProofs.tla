---------------------- MODULE EigrpGracefulRestartProofs ----------------------
(* What holds of a resynchronisation for any number of interfaces,            *)
(* destinations, filter changes and packets.  ChangeAnnounced and             *)
(* ResyncGoesOn need the types, and that the shared pointer stands for a timer *)
(* that runs, or cancelling it would cancel nothing.  FilterEnforced needs to *)
(* know in each state what is still on its way to a neighbour that has routes *)
(* the filter denies (Enforced).                                              *)
EXTENDS EigrpGracefulRestart, SequenceTheorems, TLAPS

ScheduledRuns == scheduled # None => timers[scheduled] > 0

\* The inductive invariant.
IInv == TypeOK /\ ScheduledRuns /\ ChangeAnnounced /\ ResyncGoesOn

\* What a filter leaves is in the table.
LEMMA AllowedType == ASSUME TypeOK, NEW i PROVE Allowed(i) \subseteq Prefix
BY DEF Allowed, TypeOK

\* One packet more in a queue of packets.
LEMMA QueueAppend ==
    ASSUME NEW q \in Seq(Packet), NEW p \in Packet
    PROVE  /\ Append(q, p) \in Seq(Packet)
           /\ Append(q, p) # <<>> /\ Append(q, p) # q
           /\ Last(Append(q, p)) = p
           /\ DOMAIN Append(q, p) = 1..(Len(q) + 1)
           /\ \A k \in 1..(Len(q) + 1) :
                Append(q, p)[k] = IF k = Len(q) + 1 THEN p ELSE q[k]
BY AppendProperties DEF Last

\* What SendPart returns: the packet type is decided, and a packet that is the
\* last one of its resynchronisation does not promise more.
LEMMA SendPartOutcome ==
    ASSUME TypeOK, NEW i \in Ifp, NEW n \in NbrType, n.queue = <<>>,
           NEW same \in BOOLEAN
    PROVE  LET m == SendPart(n, i, same)
           IN  /\ m \in NbrType
               /\ m.known = n.known /\ m.timer = n.timer
               /\ n.type = "last" => m = n
               /\ n.type # "last" => /\ m.type # "first" /\ Len(m.queue) = 1
                                     /\ m.type = "last" => m.queue[1].flags # "init+rs"
                                     /\ m.queue[1].tlvs \cap out[i] = {}
                                     /\ m.queue[1].same = same
               /\ n.type = "first" => /\ m.queue # n.queue
                                      /\ m.queue[1] = Last(m.queue)
                                      /\ Last(m.queue).flags \in FirstFlags
<1> DEFINE one  == Cardinality(n.toSend) <= MaxIPv4
           tlvs == FirstOf(MaxIPv4, Allowed(i))
           seen == IF Cardinality(Allowed(i)) >= MaxIPv4
                   THEN {p \in table : p <= Max(tlvs)} ELSE table
           flags == IF n.type = "first" THEN IF one THEN "init+rs+eot" ELSE "init+rs"
                    ELSE IF one THEN "eot" ELSE "plain"
           packet == [flags |-> flags, tlvs |-> tlvs, same |-> same]
           m == [n EXCEPT !.type = IF one THEN "last" ELSE "na",
                          !.toSend = n.toSend \ seen,
                          !.queue = Append(n.queue, packet)]
<1>1. CASE n.type = "last"
  BY <1>1 DEF SendPart
<1>2. CASE n.type # "last"
  <2>1. SendPart(n, i, same) = m
    BY <1>2 DEF SendPart
  <2>2. packet \in Packet
    BY AllowedType DEF Packet, FirstOf
  <2>3. /\ one => flags # "init+rs"
        /\ n.type = "first" => flags \in FirstFlags
    BY DEF FirstFlags
  <2>4. n.toSend \ seen \subseteq Prefix
    BY DEF NbrType
  <2>10. tlvs \cap out[i] = {}
    BY DEF FirstOf, Allowed
  <2> HIDE DEF one, tlvs, seen, flags
  <2>5. n.queue \in Seq(Packet)
    BY DEF NbrType
  <2>6. /\ m.queue = <<packet>> /\ m.queue \in Seq(Packet)
    BY <2>2, <2>5, QueueAppend DEF NbrType
  <2>7. m \in NbrType
    BY <2>4, <2>6 DEF NbrType
  <2>8. /\ Len(m.queue) = 1 /\ m.queue[1] = packet /\ Last(m.queue) = packet
        /\ m.queue # n.queue
    BY <2>6, <2>2 DEF Last
  <2>9. m.type = "last" <=> one
    BY DEF NbrType
  <2> QED BY <2>1, <2>3, <2>7, <2>8, <2>9, <2>10, <1>2 DEF NbrType
<1> QED BY <1>1, <1>2

\* What SendEvent returns: a neighbour whose resynchronisation goes on; one that
\* stays at its first packet waits for its queue.
LEMMA SendEventOutcome ==
    ASSUME TypeOK, NEW i \in Ifp, NEW n \in NbrType, NEW same \in BOOLEAN
    PROVE  LET m == SendEvent(n, i, same)
           IN  /\ m \in NbrType /\ m.known = n.known
               /\ Unfinished(m) => m.timer
               /\ n.type = "first" =>
                    \/ m.type = "first" /\ m.timer
                    \/ /\ m.queue # n.queue
                       /\ Last(m.queue).flags \in FirstFlags
<1>1. CASE n.queue # <<>>
  <2>1. SendEvent(n, i, same) = [n EXCEPT !.timer = TRUE]
    BY <1>1 DEF SendEvent
  <2> QED BY <2>1 DEF NbrType
<1>2. CASE n.queue = <<>>
  <2> DEFINE s == SendPart(n, i, same)
             m == IF s.type = "last" THEN s ELSE [s EXCEPT !.timer = TRUE]
  <2>1. SendEvent(n, i, same) = m
    BY <1>2 DEF SendEvent
  <2>2. /\ s \in NbrType /\ s.known = n.known
        /\ n.type = "last" => s = n
        /\ n.type # "last" => /\ s.type # "first" /\ Len(s.queue) = 1
                              /\ s.type = "last" => s.queue[1].flags # "init+rs"
        /\ n.type = "first" => /\ s.queue # n.queue
                               /\ Last(s.queue).flags \in FirstFlags
    BY <1>2, SendPartOutcome
  <2> HIDE DEF s
  <2>3. m \in NbrType /\ m.known = n.known /\ m.queue = s.queue /\ m.type = s.type
    BY <2>2 DEF NbrType
  <2>4. s.type # "last" => m.timer
    BY <2>2 DEF NbrType
  <2>5. s.type = "last" => ~ Unfinished(m)
    <3> SUFFICES ASSUME s.type = "last" PROVE ~ Unfinished(s)
      OBVIOUS
    <3>1. CASE n.type = "last"
      BY <3>1, <1>2, <2>2 DEF Unfinished
    <3>2. CASE n.type # "last"
      <4>1. DOMAIN s.queue = {1}
        BY <2>2, <3>2 DEF NbrType
      <4> QED BY <4>1, <2>2, <3>2 DEF Unfinished
    <3> QED BY <3>1, <3>2
  <2> HIDE DEF m
  <2> QED BY <2>1, <2>2, <2>3, <2>4, <2>5
<1> QED BY <1>1, <1>2

\* So for a neighbour that is told to begin one.
LEMMA ResyncOutcome ==
    ASSUME TypeOK, NEW i \in Ifp, Unfinished(nbr[i]) => nbr[i].timer,
           NEW same \in BOOLEAN
    PROVE  LET m == Resync(nbr[i], i, same)
           IN  /\ m \in NbrType /\ m.known = nbr[i].known
               /\ Unfinished(m) => m.timer
               /\ nbr[i].known =>
                    \/ m.type = "first" /\ m.timer
                    \/ /\ m.queue # nbr[i].queue
                       /\ Last(m.queue).flags \in FirstFlags
<1> DEFINE n == [nbr[i] EXCEPT !.toSend = table, !.type = "first"]
<1>1. nbr[i] \in NbrType /\ table \subseteq Prefix
  BY DEF TypeOK
<1>2. n \in NbrType /\ n.type = "first" /\ n.known = nbr[i].known /\ n.queue = nbr[i].queue
  BY <1>1 DEF NbrType
<1>3. CASE ~ nbr[i].known
  BY <1>1, <1>3 DEF Resync
<1>4. CASE nbr[i].known
  <2>1. Resync(nbr[i], i, same) = SendEvent(n, i, same)
    BY <1>4 DEF Resync
  <2> HIDE DEF n
  <2>2. LET m == SendEvent(n, i, same)
        IN  /\ m \in NbrType /\ m.known = n.known
            /\ Unfinished(m) => m.timer
            /\ n.type = "first" =>
                 \/ m.type = "first" /\ m.timer
                 \/ /\ m.queue # n.queue
                    /\ Last(m.queue).flags \in FirstFlags
    BY <1>2, SendEventOutcome
  <2> QED BY <2>1, <2>2, <1>2
<1> QED BY <1>3, <1>4

\* What the step of one interface has to show when the timers stay.
LEMMA OneNeighborSteps ==
    ASSUME IInv, NEW i \in Ifp, NEW n \in NbrType,
           nbr' = [nbr EXCEPT ![i] = n],
           UNCHANGED <<table, out, timers, scheduled>>,
           peer' \in [Ifp -> PeerType], changes' \in 0..MaxChanges,
           sameSeq' \subseteq Ifp,
           Unfinished(n) => n.timer,
           untold' \subseteq untold,
           i \in untold' => /\ n.known
                            /\ nbr[i].type = "first" /\ nbr[i].timer =>
                                  n.type = "first" /\ n.timer
    PROVE  IInv'
<1>1. nbr' \in [Ifp -> NbrType] /\ nbr'[i] = n /\ \A j \in Ifp \ {i} : nbr'[j] = nbr[j]
  BY DEF IInv, TypeOK
<1>2. TypeOK'
  <2>1. untold' \subseteq {j \in Ifp : nbr'[j].known}
    BY <1>1 DEF IInv, TypeOK
  <2> QED BY <1>1, <2>1 DEF IInv, TypeOK
<1>3. ScheduledRuns'
  BY DEF IInv, ScheduledRuns
<1>4. ChangeAnnounced'
  <2> SUFFICES ASSUME NEW j \in untold'
               PROVE  \/ timers[j] > 0 \/ timers[Process] > 0
                      \/ (nbr'[j].type = "first" /\ nbr'[j].timer)
    BY DEF ChangeAnnounced
  <2>1. j \in untold /\ j \in Ifp
    BY DEF IInv, TypeOK
  <2> QED BY <2>1, <1>1 DEF IInv, ChangeAnnounced
<1>5. ResyncGoesOn'
  BY <1>1 DEF IInv, ResyncGoesOn
<1> QED BY <1>2, <1>3, <1>4, <1>5 DEF IInv

\* What a step has to show that leaves the neighbours and has more to tell.
LEMMA FilterSteps ==
    ASSUME IInv, UNCHANGED <<table, nbr, peer, sameSeq>>,
           out' \in [Scope -> List], changes' \in 0..MaxChanges,
           timers' \in [Scope -> Nat], scheduled' \in Scope \cup {None},
           ScheduledRuns',
           untold' \subseteq {i \in Ifp : nbr[i].known},
           \A i \in untold' :
              \/ timers'[i] > 0 \/ timers'[Process] > 0
              \/ (i \in untold /\ timers'[i] = timers[i] /\ timers'[Process] = timers[Process])
    PROVE  IInv'
<1>1. TypeOK'
  BY DEF IInv, TypeOK
<1>2. ChangeAnnounced'
  BY DEF IInv, ChangeAnnounced
<1>3. ResyncGoesOn'
  BY DEF IInv, ResyncGoesOn
<1> QED BY <1>1, <1>2, <1>3 DEF IInv

\* The resynchronisation of every neighbour of a scope, after which the timers
\* of other scopes run as before.
LEMMA ResyncSteps ==
    ASSUME IInv, NEW scope \in Scope, ResyncAll(scope), untold' = untold \ Told,
           UNCHANGED <<table, out, peer>>, changes' \in 0..MaxChanges,
           timers' \in [Scope -> Nat], scheduled' \in Scope \cup {None},
           ScheduledRuns',
           \A s \in Scope \ {scope} : timers'[s] = timers[s]
    PROVE  IInv'
<1>1. \A i \in Ifp :
         LET m == nbr'[i]
         IN  /\ m \in NbrType /\ m.known = nbr[i].known
             /\ Unfinished(m) => m.timer
             /\ scope \in {i, Process} /\ nbr[i].known =>
                  \/ m.type = "first" /\ m.timer
                  \/ /\ m.queue # nbr[i].queue
                     /\ Last(m.queue).flags \in FirstFlags
             /\ scope \notin {i, Process} => m = nbr[i]
  <2> TAKE i \in Ifp
  <2>1. Unfinished(nbr[i]) => nbr[i].timer
    BY DEF IInv, ResyncGoesOn
  <2>2. TypeOK /\ nbr[i] \in NbrType
    BY DEF IInv, TypeOK
  <2>3. PICK same \in BOOLEAN :
           nbr'[i] = IF scope \in {i, Process} THEN Resync(nbr[i], i, same) ELSE nbr[i]
    BY DEF ResyncAll
  <2>4. CASE scope \in {i, Process}
    BY <2>1, <2>2, <2>3, <2>4, ResyncOutcome
  <2>5. CASE scope \notin {i, Process}
    BY <2>1, <2>2, <2>3, <2>5
  <2> QED BY <2>4, <2>5
<1>2. nbr' \in [Ifp -> NbrType] /\ sameSeq' \subseteq Ifp
  BY <1>1 DEF ResyncAll, IInv, TypeOK
<1>3. TypeOK'
  <2>1. untold' \subseteq {i \in Ifp : nbr'[i].known}
    BY <1>1 DEF IInv, TypeOK
  <2> QED BY <1>2, <2>1 DEF IInv, TypeOK
<1>4. ChangeAnnounced'
  <2> SUFFICES ASSUME NEW i \in untold \ Told
               PROVE  \/ timers'[i] > 0 \/ timers'[Process] > 0
                      \/ (nbr'[i].type = "first" /\ nbr'[i].timer)
    BY DEF ChangeAnnounced
  <2>1. i \in Ifp /\ nbr[i].known
    BY DEF IInv, TypeOK
  <2>2. CASE scope \in {i, Process}
    BY <1>1, <2>1, <2>2 DEF Told
  <2>3. CASE scope \notin {i, Process}
    <3>1. timers'[i] = timers[i] /\ timers'[Process] = timers[Process]
      BY <2>1, <2>3 DEF Scope
    <3> QED BY <3>1, <1>1, <2>1, <2>3 DEF IInv, ChangeAnnounced
  <2> QED BY <2>2, <2>3
<1>5. ResyncGoesOn'
  BY <1>1 DEF ResyncGoesOn
<1> QED BY <1>3, <1>4, <1>5 DEF IInv

\* The other router keeps its type whatever it is sent.
LEMMA ReceiveType ==
    ASSUME NEW r \in PeerType, NEW p \in Packet
    PROVE  Receive(r, p) \in PeerType
<1> DEFINE offered == r.offered \cup FirstOf(1, p.tlvs)
           heard == [r EXCEPT !.offered = offered]
           final == Final(r.offered, r.offered, p.tlvs)
           ignored == r.ignored \/ p.flags \in FirstFlags
<1>1. offered \subseteq Prefix /\ final \subseteq Prefix
  BY DEF FirstOf, Packet, PeerType, Final
<1>2. p.same \in BOOLEAN /\ r.saved \in BOOLEAN /\ ignored \in BOOLEAN
  BY DEF Packet, PeerType
<1> HIDE DEF offered, final, ignored
<1>3. /\ heard \in PeerType /\ [heard EXCEPT !.ignored = ignored] \in PeerType
      /\ [heard EXCEPT !.saved = TRUE, !.ignored = FALSE] \in PeerType
      /\ [r EXCEPT !.offered = final, !.ignored = FALSE] \in PeerType
      /\ [Fresh EXCEPT !.crashed = TRUE] \in PeerType
  BY <1>1, <1>2 DEF PeerType, Fresh
<1>4. CASE p.same
  <2>1. Receive(r, p) = [heard EXCEPT !.ignored = ignored]
    BY <1>4 DEF Receive, offered, ignored, PeerType
  <2> QED BY <1>3, <2>1
<1>5. CASE ~ p.same /\ p.flags = "init+rs+eot"
  <2>1. Receive(r, p) = [r EXCEPT !.offered = final, !.ignored = FALSE]
    BY <1>5 DEF Receive, final
  <2> QED BY <1>3, <2>1
<1>6. CASE ~ p.same /\ p.flags = "init+rs"
  <2>1. Receive(r, p) = [heard EXCEPT !.saved = TRUE, !.ignored = FALSE]
    BY <1>6 DEF Receive, offered
  <2> QED BY <1>3, <2>1
<1>7. CASE ~ p.same /\ p.flags \in {"eot", "plain"} /\ r.saved
  <2>1. Receive(r, p) = [Fresh EXCEPT !.crashed = TRUE]
    BY <1>7 DEF Receive
  <2> QED BY <1>3, <2>1
<1>8. CASE ~ p.same /\ p.flags \in {"eot", "plain"} /\ ~ r.saved
  <2>1. Receive(r, p) = heard
    BY <1>8 DEF Receive, offered
  <2> QED BY <1>3, <2>1
<1>9. p.flags \in {"init+rs+eot", "init+rs", "eot", "plain"}
  BY DEF Packet
<1> QED BY <1>2, <1>4, <1>5, <1>6, <1>7, <1>8, <1>9

-------------------------------------------------------------------------------
LEMMA InitSteps == Init => IInv
<1> SUFFICES ASSUME Init PROVE IInv
  OBVIOUS
<1>1. NoNbr \in NbrType /\ Fresh \in PeerType
  BY EmptySeq DEF NoNbr, NbrType, Fresh, PeerType
<1>2. TypeOK
  BY <1>1, ResyncAssumption DEF Init, TypeOK
<1>3. ~ Unfinished(NoNbr)
  BY DEF Unfinished, NoNbr
<1> QED BY <1>2, <1>3 DEF Init, IInv, ScheduledRuns, ChangeAnnounced, ResyncGoesOn

LEMMA AdjacencySteps == ASSUME IInv, NEW i \in Ifp, Adjacency(i) PROVE IInv'
<1>0. PICK same \in {FALSE, peer'[i].saved} :
         nbr' = [nbr EXCEPT ![i] =
                   [@ EXCEPT !.known = TRUE,
                             !.queue = <<[flags |-> "eot", tlvs |-> Allowed(i),
                                          same |-> same]>>]]
  BY DEF Adjacency
<1> DEFINE p == [flags |-> "eot", tlvs |-> Allowed(i), same |-> same]
           n == [nbr[i] EXCEPT !.known = TRUE, !.queue = <<p>>]
<1>1. nbr[i] \in NbrType /\ peer[i] \in PeerType /\ TypeOK
  BY DEF IInv, TypeOK
<1>6. peer' \in [Ifp -> PeerType]
  <2>1. /\ Fresh \in PeerType
        /\ [peer[i] EXCEPT !.offered = {}, !.ignored = FALSE] \in PeerType
    BY <1>1 DEF PeerType, Fresh
  <2> QED BY <2>1 DEF Adjacency, IInv, TypeOK
<1>2. p \in Packet
  <2>1. same \in BOOLEAN
    BY <1>6 DEF PeerType
  <2> QED BY <1>1, <2>1, AllowedType DEF Packet
<1>3. n \in NbrType /\ n.type = nbr[i].type /\ n.toSend = nbr[i].toSend
      /\ n.timer = nbr[i].timer /\ n.queue = <<p>> /\ n.known
  <2> HIDE DEF p
  <2>1. <<p>> \in Seq(Packet)
    BY <1>2
  <2> QED BY <1>1, <2>1 DEF NbrType
<1>4. Unfinished(n) => Unfinished(nbr[i])
  <2>1. \A k \in DOMAIN n.queue : n.queue[k].flags = "eot"
    BY <1>3
  <2> QED BY <2>1, <1>3 DEF Unfinished
<1>5. nbr' = [nbr EXCEPT ![i] = n]
  BY <1>0
<1>7. i \notin untold' /\ untold' \subseteq untold
      /\ UNCHANGED <<table, out, timers, scheduled>> /\ changes' \in 0..MaxChanges
      /\ sameSeq' \subseteq Ifp
  BY DEF Adjacency, IInv, TypeOK
<1>8. Unfinished(n) => n.timer
  BY <1>3, <1>4 DEF IInv, ResyncGoesOn
<1> HIDE DEF n
<1> QED BY <1>3, <1>5, <1>6, <1>7, <1>8, OneNeighborSteps

LEMMA NeighborLostSteps == ASSUME IInv, NEW i \in Ifp, NeighborLost(i) PROVE IInv'
<1>1. NoNbr \in NbrType /\ ~ Unfinished(NoNbr)
  BY EmptySeq DEF NoNbr, NbrType, Unfinished
<1>2. /\ nbr' = [nbr EXCEPT ![i] = NoNbr]
      /\ i \notin untold' /\ untold' \subseteq untold
      /\ UNCHANGED <<table, out, timers, scheduled>>
      /\ peer' \in [Ifp -> PeerType] /\ changes' \in 0..MaxChanges
      /\ sameSeq' \subseteq Ifp
  BY DEF NeighborLost, IInv, TypeOK
<1> QED BY <1>1, <1>2, OneNeighborSteps

LEMMA SendChangeSteps ==
    ASSUME IInv, NEW i \in Ifp, NEW p \in Prefix, SendChange(i, p) PROVE IInv'
<1> DEFINE k == [flags |-> "plain", tlvs |-> {p}, same |-> i \in sameSeq]
           n == [nbr[i] EXCEPT !.queue = Append(nbr[i].queue, k)]
<1>1. nbr[i] \in NbrType /\ nbr[i].queue \in Seq(Packet) /\ k \in Packet
  <2>1. (i \in sameSeq) \in BOOLEAN
    OBVIOUS
  <2>2. k \in Packet
    BY <2>1, Zenon DEF Packet
  <2> QED BY <2>2 DEF IInv, TypeOK, NbrType
<1>2. /\ n \in NbrType /\ n.queue = Append(nbr[i].queue, k)
      /\ n.known = nbr[i].known /\ n.type = nbr[i].type
      /\ n.toSend = nbr[i].toSend /\ n.timer = nbr[i].timer
  <2>1. Append(nbr[i].queue, k) \in Seq(Packet)
    BY <1>1, QueueAppend
  <2> HIDE DEF k
  <2> QED BY <1>1, <2>1 DEF NbrType
<1>3. Unfinished(n) => Unfinished(nbr[i])
  <2>1. (\E j \in DOMAIN n.queue : n.queue[j].flags = "init+rs") =>
           \E j \in DOMAIN nbr[i].queue : nbr[i].queue[j].flags = "init+rs"
    <3> SUFFICES ASSUME NEW j \in DOMAIN n.queue, n.queue[j].flags = "init+rs"
                 PROVE  j \in DOMAIN nbr[i].queue /\ nbr[i].queue[j].flags = "init+rs"
      OBVIOUS
    <3> HIDE DEF n
    <3>1. n.queue[j] # k
      OBVIOUS
    <3> HIDE DEF k
    <3>2. /\ DOMAIN n.queue = 1..(Len(nbr[i].queue) + 1)
          /\ \A l \in 1..(Len(nbr[i].queue) + 1) : n.queue[l] =
                IF l = Len(nbr[i].queue) + 1 THEN k ELSE nbr[i].queue[l]
      BY <1>1, <1>2, QueueAppend
    <3>3. DOMAIN nbr[i].queue = 1..Len(nbr[i].queue) /\ Len(nbr[i].queue) \in Nat
      BY <1>1, LenProperties
    <3> QED BY <3>1, <3>2, <3>3
  <2> QED BY <2>1, <1>2 DEF Unfinished
<1>4. /\ nbr' = [nbr EXCEPT ![i] = n]
      /\ UNCHANGED <<table, out, timers, scheduled, peer, untold>>
      /\ changes' \in 0..MaxChanges
  <2>1. nbr' = [nbr EXCEPT ![i] = n]
    BY DEF SendChange
  <2>2. changes' \in 0..MaxChanges
    BY ResyncAssumption DEF SendChange, IInv, TypeOK
  <2> QED BY <2>1, <2>2 DEF SendChange
<1>5. peer' \in [Ifp -> PeerType] /\ (i \in untold => nbr[i].known)
      /\ sameSeq' \subseteq Ifp
  BY <1>4 DEF IInv, TypeOK, SendChange
<1>6. Unfinished(n) => n.timer
  BY <1>2, <1>3 DEF IInv, ResyncGoesOn
<1> HIDE DEF n
<1> QED BY <1>2, <1>4, <1>5, <1>6, OneNeighborSteps

LEMMA DeliverSteps == ASSUME IInv, NEW i \in Ifp, Deliver(i) PROVE IInv'
<1> DEFINE q == nbr[i].queue
           n == [nbr[i] EXCEPT !.queue = Tail(q)]
<1>1. nbr[i] \in NbrType /\ q \in Seq(Packet) /\ q # <<>> /\ peer[i] \in PeerType
  BY DEF IInv, TypeOK, NbrType, Deliver
<1>2. /\ Tail(q) \in Seq(Packet) /\ DOMAIN Tail(q) = 1..(Len(q) - 1)
      /\ \A k \in 1..(Len(q) - 1) : Tail(q)[k] = q[k + 1] /\ k + 1 \in DOMAIN q
      /\ Head(q) \in Packet
  BY <1>1, HeadTailProperties
<1>3. /\ n \in NbrType /\ n.queue = Tail(q)
      /\ n.known = nbr[i].known /\ n.type = nbr[i].type
      /\ n.toSend = nbr[i].toSend /\ n.timer = nbr[i].timer
  BY <1>1, <1>2 DEF NbrType
<1>4. Unfinished(n) => Unfinished(nbr[i])
  <2> HIDE DEF n
  <2> QED BY <1>2, <1>3 DEF Unfinished
<1>5. /\ nbr' = [nbr EXCEPT ![i] = n]
      /\ UNCHANGED <<table, out, timers, scheduled, untold, changes>>
      /\ peer' = [peer EXCEPT ![i] = Receive(peer[i], Head(q))]
  BY DEF Deliver
<1>6. peer' \in [Ifp -> PeerType] /\ (i \in untold => nbr[i].known)
      /\ changes' \in 0..MaxChanges /\ sameSeq' \subseteq Ifp
  BY <1>1, <1>2, <1>5, ReceiveType DEF IInv, TypeOK, Deliver
<1>7. Unfinished(n) => n.timer
  BY <1>3, <1>4 DEF IInv, ResyncGoesOn
<1> HIDE DEF n
<1> QED BY <1>3, <1>5, <1>6, <1>7, OneNeighborSteps

LEMMA SendTimerSteps == ASSUME IInv, NEW i \in Ifp, SendTimer(i) PROVE IInv'
<1> DEFINE m == [nbr[i] EXCEPT !.timer = FALSE]
           same == i \in sameSeq
           n == SendEvent(m, i, same)
<1>1. nbr[i] \in NbrType /\ TypeOK
  BY DEF IInv, TypeOK
<1>2. m \in NbrType /\ m.type = nbr[i].type /\ m.queue = nbr[i].queue
      /\ m.known = nbr[i].known
  BY <1>1 DEF NbrType
<1>3. nbr' = [nbr EXCEPT ![i] = n] /\ untold' = untold \ Told
      /\ UNCHANGED <<table, out, timers, scheduled, peer, changes>>
  BY DEF SendTimer
<1>8. same \in BOOLEAN
  OBVIOUS
<1> HIDE DEF m, same
<1>4. /\ n \in NbrType /\ n.known = m.known
      /\ Unfinished(n) => n.timer
      /\ m.type = "first" =>
           \/ n.type = "first" /\ n.timer
           \/ /\ n.queue # m.queue
              /\ Last(n.queue).flags \in FirstFlags
  BY <1>1, <1>2, <1>8, SendEventOutcome
<1> HIDE DEF n
<1>5. nbr'[i] = n
  BY <1>1, <1>3 DEF TypeOK
<1>6. i \in untold' =>
        n.known /\ (nbr[i].type = "first" /\ nbr[i].timer => n.type = "first" /\ n.timer)
  BY <1>2, <1>3, <1>4, <1>5 DEF Told, IInv, TypeOK
<1>7. /\ peer' \in [Ifp -> PeerType] /\ changes' \in 0..MaxChanges
      /\ untold' \subseteq untold /\ sameSeq' \subseteq Ifp
  BY <1>1, <1>3 DEF TypeOK, SendTimer
<1> QED BY <1>3, <1>4, <1>6, <1>7, OneNeighborSteps

\* The pointer, unless it is None, stands for the timer of a scope.
LEMMA ScheduledTimer ==
    ASSUME IInv
    PROVE  /\ timers \in [Scope -> Nat] /\ Process \in Scope /\ None \notin Scope
           /\ scheduled \in Scope => timers[scheduled] > 0
<1>1. None \notin Scope
  BY ResyncAssumption DEF Scope, None, Process
<1> QED BY <1>1 DEF IInv, TypeOK, ScheduledRuns, Scope

LEMMA DistributeUpdateSteps ==
    ASSUME IInv, NEW scope \in Scope, NEW list \in List, DistributeUpdate(scope, list)
    PROVE  IInv'
<1>1. /\ UNCHANGED <<table, nbr, peer, sameSeq>>
      /\ out' \in [Scope -> List] /\ changes' \in 0..MaxChanges
      /\ scheduled' = scope
      /\ untold' = untold \cup Affected(scope)
  BY ResyncAssumption DEF DistributeUpdate, Schedule, IInv, TypeOK
<1>2. timers' = [s \in Scope |->
                   timers[s] + (IF s = scope THEN 1 ELSE 0)
                   - (IF scope = Process /\ s = scheduled THEN 1 ELSE 0)]
  BY DEF DistributeUpdate, Schedule
<1>3. /\ timers' \in [Scope -> Nat] /\ timers'[scope] > 0
      /\ scope # Process => \A s \in Scope : timers'[s] >= timers[s]
  BY <1>2, ScheduledTimer
<1>4. ScheduledRuns'
  BY <1>1, <1>3 DEF ScheduledRuns
<1>5. untold' \subseteq {i \in Ifp : nbr[i].known}
  BY <1>1 DEF Affected, IInv, TypeOK
<1>6. ASSUME NEW i \in untold'
      PROVE  \/ timers'[i] > 0 \/ timers'[Process] > 0
             \/ (i \in untold /\ timers'[i] = timers[i] /\ timers'[Process] = timers[Process])
  <2>1. i \in Ifp /\ i \in Scope
    BY <1>5 DEF Scope
  <2>2. CASE scope \in {i, Process}
    BY <1>3, <2>2
  <2>3. CASE scope \notin {i, Process}
    <3>1. i \in untold
      BY <1>1, <2>3 DEF Affected
    <3> QED BY <3>1, <2>1, <2>3, <1>2, ScheduledTimer
  <2> QED BY <2>2, <2>3
<1> QED BY <1>1, <1>3, <1>4, <1>5, <1>6, FilterSteps

LEMMA ListEditedSteps ==
    ASSUME IInv, NEW scope \in Scope, NEW list \in List, ListEdited(scope, list)
    PROVE  IInv'
<1> DEFINE updated == {i \in Ifp : out[i] # {}} \cup ({scope} \ {Process})
<1>1. /\ UNCHANGED <<table, nbr, peer, sameSeq>>
      /\ out' \in [Scope -> List] /\ changes' \in 0..MaxChanges
      /\ IF updated = {} THEN UNCHANGED scheduled ELSE scheduled' \in updated
      /\ untold' = untold \cup {i \in updated : nbr[i].known}
      /\ timers' = [s \in Scope |-> timers[s] + (IF s \in updated THEN 1 ELSE 0)]
  BY ResyncAssumption DEF ListEdited, IInv, TypeOK
<1>2. updated \subseteq Ifp /\ updated \subseteq Scope
  BY DEF Scope
<1> HIDE DEF updated
<1>3. /\ timers' \in [Scope -> Nat]
      /\ \A s \in updated : timers'[s] > 0
      /\ \A s \in Scope \ updated : timers'[s] = timers[s]
      /\ \A s \in Scope : timers'[s] >= timers[s]
  BY <1>1, <1>2, ScheduledTimer
<1>4. scheduled' \in Scope \cup {None}
  BY <1>1, <1>2 DEF IInv, TypeOK
<1>5. ScheduledRuns'
  <2>1. CASE updated = {}
    BY <2>1, <1>1, <1>2, <1>3 DEF IInv, TypeOK, ScheduledRuns
  <2>2. CASE updated # {}
    BY <2>2, <1>1, <1>3 DEF ScheduledRuns
  <2> QED BY <2>1, <2>2
<1>6. untold' \subseteq {i \in Ifp : nbr[i].known}
  BY <1>1, <1>2 DEF IInv, TypeOK
<1>7. ASSUME NEW i \in untold'
      PROVE  \/ timers'[i] > 0 \/ timers'[Process] > 0
             \/ (i \in untold /\ timers'[i] = timers[i] /\ timers'[Process] = timers[Process])
  <2>1. i \in Scope
    BY <1>6 DEF Scope
  <2>2. CASE i \in updated
    BY <2>2, <1>3
  <2>3. CASE i \notin updated
    <3>1. i \in untold
      BY <1>1, <2>3
    <3>2. Process \notin updated
      BY <1>2, ResyncAssumption DEF Process
    <3> QED BY <3>1, <3>2, <2>1, <2>3, <1>3, ScheduledTimer
  <2> QED BY <2>2, <2>3
<1> QED BY <1>1, <1>3, <1>4, <1>5, <1>6, <1>7, FilterSteps

LEMMA DistributeTimerSteps ==
    ASSUME IInv, NEW scope \in Scope, DistributeTimer(scope) PROVE IInv'
<1>1. /\ ResyncAll(scope) /\ untold' = untold \ Told
      /\ UNCHANGED <<table, out, peer>> /\ changes' \in 0..MaxChanges
      /\ scheduled' \in Scope \cup {None} /\ ScheduledRuns'
  BY DEF DistributeTimer, IInv, TypeOK, ScheduledRuns
<1>2. /\ timers' \in [Scope -> Nat]
      /\ \A s \in Scope \ {scope} : timers'[s] = timers[s]
  BY ScheduledTimer DEF DistributeTimer
<1> QED BY <1>1, <1>2, ResyncSteps

LEMMA SoftClearSteps ==
    ASSUME IInv, NEW scope \in Scope, SoftClear(scope) PROVE IInv'
<1>1. /\ ResyncAll(scope) /\ untold' = untold \ Told
      /\ UNCHANGED <<table, out, peer>> /\ changes' \in 0..MaxChanges
      /\ scheduled' \in Scope \cup {None} /\ ScheduledRuns'
      /\ timers' \in [Scope -> Nat]
      /\ \A s \in Scope \ {scope} : timers'[s] = timers[s]
  BY ResyncAssumption DEF SoftClear, IInv, TypeOK, ScheduledRuns
<1> QED BY <1>1, ResyncSteps

\* DUAL's step and a step that changes nothing.
LEMMA TableSteps ==
    ASSUME IInv, UNCHANGED <<out, timers, scheduled, nbr, peer, untold, sameSeq, changes>>,
           table' \subseteq Prefix
    PROVE  IInv'
BY DEF IInv, TypeOK, ScheduledRuns, ChangeAnnounced, ResyncGoesOn

LEMMA NextSteps == IInv /\ [Next]_vars => IInv'
<1> SUFFICES ASSUME IInv, [Next]_vars PROVE IInv'
  OBVIOUS
<1>1. CASE UNCHANGED vars
  BY <1>1, TableSteps DEF vars, IInv, TypeOK
<1>2. ASSUME NEW i \in Ifp, Adjacency(i) \/ NeighborLost(i) \/ Deliver(i) \/ SendTimer(i)
      PROVE  IInv'
  BY <1>2, AdjacencySteps, NeighborLostSteps, DeliverSteps, SendTimerSteps
<1>3. ASSUME NEW i \in Ifp, NEW p \in Prefix, SendChange(i, p) PROVE IInv'
  BY <1>3, SendChangeSteps
<1>4. ASSUME NEW p \in Prefix, TableChange(p) PROVE IInv'
  BY <1>4, TableSteps DEF TableChange, IInv, TypeOK
<1>5. ASSUME NEW s \in Scope, DistributeTimer(s) \/ SoftClear(s) PROVE IInv'
  BY <1>5, DistributeTimerSteps, SoftClearSteps
<1>6. ASSUME NEW s \in Scope, NEW list \in List,
             DistributeUpdate(s, list) \/ ListEdited(s, list)
      PROVE  IInv'
  BY <1>6, DistributeUpdateSteps, ListEditedSteps
<1> QED BY <1>1, <1>2, <1>3, <1>4, <1>5, <1>6 DEF Next

LEMMA Always == Spec => []IInv
BY InitSteps, NextSteps, PTL DEF Spec

-------------------------------------------------------------------------------
(* What is on its way to a neighbour when the filter on it was changed.        *)

\* From the k-th packet on, a queue has no destination of the set o.
CleanFrom(q, k, o) == \A j \in DOMAIN q : j >= k => q[j].tlvs \cap o = {}

\* The first packet of a resynchronisation waits, and all after it is clean.
FirstQueued(q, o) ==
    \E k \in DOMAIN q : /\ q[k].flags \in FirstFlags
                        /\ CleanFrom(q, k, o)

\* The neighbour n, whose router is in state r, is offered nothing of o in the
\* end, or took the first packet for a duplicate: it will be sent the first
\* packet of a resynchronisation, or is offered nothing, or took one so, or it
\* handled the first packet and ends its process at the next, which is no
\* duplicate (Receive) and is queued or will be.  s: the next packet would have
\* the number of the last.
Enforced(n, r, o, s) ==
    \/ FirstQueued(n.queue, o)
    \/ CleanFrom(n.queue, 1, o) /\ (r.offered \cap o = {} \/ r.ignored)
    \/ /\ CleanFrom(n.queue, 1, o) /\ r.saved
       /\ IF n.queue # <<>> THEN ~ n.queue[1].same
          ELSE ~ s /\ n.timer /\ n.type # "last"

\* A first packet that promised more is followed by another, with a number of
\* its own.
PartPromised(n, s) ==
    \A k \in DOMAIN n.queue : n.queue[k].flags = "init+rs" =>
        /\ n.timer /\ n.type # "last"
        /\ IF k = Len(n.queue) THEN ~ s ELSE ~ n.queue[k + 1].same

FilterInv ==
    \A i \in Ifp : /\ PartPromised(nbr[i], i \in sameSeq)
                   /\ nbr[i].known /\ i \notin untold
                         => Enforced(nbr[i], peer[i], out[i], i \in sameSeq)

LEMMA QueueParts ==
    ASSUME NEW n \in NbrType
    PROVE  /\ n.queue \in Seq(Packet) /\ Len(n.queue) \in Nat
           /\ DOMAIN n.queue = 1..Len(n.queue)
           /\ \A k \in 1..Len(n.queue) : n.queue[k] \in Packet
           /\ n.queue # <<>> => 1 \in 1..Len(n.queue)
<1>1. n.queue \in Seq(Packet)
  BY DEF NbrType
<1>2. n.queue # <<>> => Len(n.queue) \in Nat \ {0}
  BY <1>1, EmptySeq
<1> QED BY <1>1, <1>2, LenProperties, ElementOfSeq

\* A clean packet is added, with the number that the next one was to have.
LEMMA AppendEnforced ==
    ASSUME NEW n \in NbrType, NEW r, NEW o, NEW s, Enforced(n, r, o, s),
           NEW p \in Packet, p.tlvs \cap o = {}, p.same = s,
           NEW m, m.queue = Append(n.queue, p), NEW t
    PROVE  Enforced(m, r, o, t)
<1> DEFINE q == n.queue
           x == Append(q, p)
<1>1. /\ q \in Seq(Packet) /\ Len(q) \in Nat /\ DOMAIN q = 1..Len(q)
      /\ x # <<>> /\ DOMAIN x = 1..(Len(q) + 1)
      /\ \A k \in 1..(Len(q) + 1) : x[k] = IF k = Len(q) + 1 THEN p ELSE q[k]
      /\ q # <<>> => 1 \in 1..Len(q)
  BY QueueParts, QueueAppend
<1>0. q = <<>> => Len(q) = 0
  BY <1>1
<1> HIDE DEF x
<1>2. \A k : CleanFrom(q, k, o) => CleanFrom(x, k, o)
  BY <1>1 DEF CleanFrom
<1>3. FirstQueued(q, o) => FirstQueued(x, o)
  <2> SUFFICES ASSUME NEW k \in DOMAIN q, CleanFrom(q, k, o),
                      q[k].flags \in FirstFlags
               PROVE  FirstQueued(x, o)
    BY DEF FirstQueued
  <2>1. k \in DOMAIN x /\ x[k] = q[k]
    BY <1>1
  <2> QED BY <1>2, <2>1 DEF FirstQueued
<1>4. m.queue = x
  BY DEF x
<1>5. IF q # <<>> THEN x[1] = q[1] ELSE x[1].same = s
  BY <1>0, <1>1
<1>6. CASE FirstQueued(q, o)
  BY <1>3, <1>4, <1>6 DEF Enforced
<1>7. CASE CleanFrom(q, 1, o) /\ (r.offered \cap o = {} \/ r.ignored)
  BY <1>2, <1>4, <1>7 DEF Enforced
<1>8. CASE /\ CleanFrom(q, 1, o) /\ r.saved
           /\ IF q # <<>> THEN ~ q[1].same ELSE ~ s
  BY <1>1, <1>2, <1>4, <1>5, <1>8 DEF Enforced
<1> QED BY <1>6, <1>7, <1>8 DEF Enforced

\* What SendEvent does to a neighbour whose timer it may find expired.  s: the
\* next packet would have the number of the last; t: so after the step.
LEMMA SendEventEnforced ==
    ASSUME TypeOK, NEW i \in Ifp, NEW n \in NbrType, NEW same \in BOOLEAN,
           NEW s \in BOOLEAN, same => s,
           \A k \in DOMAIN n.queue : n.queue[k].flags = "init+rs" =>
               /\ n.type # "last"
               /\ IF k = Len(n.queue) THEN ~ s ELSE ~ n.queue[k + 1].same,
           NEW t \in BOOLEAN, t => s,
           SendEvent(n, i, same).queue # n.queue => ~ t
    PROVE  LET m == SendEvent(n, i, same)
           IN  /\ PartPromised(m, t)
               /\ m.queue # n.queue /\ n.type = "first" => FirstQueued(m.queue, out[i])
               /\ m.queue # n.queue => /\ n.queue = <<>> /\ m.queue # <<>>
                                       /\ CleanFrom(m.queue, 1, out[i])
                                       /\ m.queue[1].same = same
               /\ m.queue # n.queue /\ n.type # "first" =>
                     Last(m.queue).flags \notin FirstFlags
               /\ m.queue = n.queue => n.queue # <<>> \/ n.type = "last"
<1>1. CASE n.queue # <<>>
  <2> DEFINE m == [n EXCEPT !.timer = TRUE]
  <2>1. SendEvent(n, i, same) = m
    BY <1>1 DEF SendEvent
  <2>2. m.queue = n.queue /\ m.timer /\ m.type = n.type
    BY DEF NbrType
  <2> HIDE DEF m
  <2>3. PartPromised(m, t)
    BY <2>2 DEF PartPromised
  <2> QED BY <1>1, <2>1, <2>2, <2>3 DEF m
<1>2. CASE n.queue = <<>>
  <2> DEFINE a == SendPart(n, i, same)
             m == IF a.type = "last" THEN a ELSE [a EXCEPT !.timer = TRUE]
  <2>1. SendEvent(n, i, same) = m
    BY <1>2 DEF SendEvent
  <2>2. /\ a \in NbrType
        /\ n.type = "last" => a = n
        /\ n.type # "last" => /\ Len(a.queue) = 1
                              /\ a.type = "last" => a.queue[1].flags # "init+rs"
                              /\ a.queue[1].tlvs \cap out[i] = {}
                              /\ a.queue[1].same = same
        /\ n.type = "first" => /\ a.queue[1] = Last(a.queue)
                               /\ Last(a.queue).flags \in FirstFlags
    BY <1>2, SendPartOutcome
  <2>3. n.type \notin {"first", "last"} => Last(a.queue).flags \notin FirstFlags
    <3> DEFINE one == Cardinality(n.toSend) <= MaxIPv4
               f == IF n.type = "first" THEN IF one THEN "init+rs+eot" ELSE "init+rs"
                    ELSE IF one THEN "eot" ELSE "plain"
               p == [flags |-> f, tlvs |-> FirstOf(MaxIPv4, Allowed(i)), same |-> same]
    <3> SUFFICES ASSUME n.type \notin {"first", "last"}
                 PROVE  Last(a.queue).flags \notin FirstFlags
      OBVIOUS
    <3>1. f \in {"eot", "plain"} /\ p.flags = f
      OBVIOUS
    <3>2. a.queue = Append(n.queue, p)
      BY DEF SendPart, NbrType
    <3>3. p \in Packet
      BY AllowedType DEF Packet, FirstOf
    <3> HIDE DEF f, p, a
    <3>4. Last(a.queue) = p
      BY <3>2, <3>3, QueueAppend DEF NbrType
    <3> QED BY <3>1, <3>4 DEF FirstFlags
  <2> HIDE DEF a
  <2>4. /\ m.queue = a.queue /\ m.type = a.type
        /\ m.type # "last" => m.timer
    BY <2>2 DEF NbrType
  <2> HIDE DEF m
  <2>5. CASE n.type = "last"
    <3>1. m.queue = <<>> /\ n.queue = m.queue
      BY <1>2, <2>2, <2>4, <2>5
    <3>2. PartPromised(m, t)
      BY <3>1 DEF PartPromised
    <3> QED BY <2>1, <2>5, <3>1, <3>2
  <2>6. CASE n.type # "last"
    <3>1. /\ DOMAIN m.queue = {1} /\ m.queue # <<>> /\ Len(m.queue) = 1
          /\ m.queue[1].tlvs \cap out[i] = {} /\ m.queue[1].same = same
      <4>1. a.queue \in Seq(Packet) /\ Len(a.queue) = 1
        BY <2>2, <2>6 DEF NbrType
      <4>2. DOMAIN a.queue = {1} /\ a.queue # <<>>
        BY <4>1, LenProperties, EmptySeq
      <4> QED BY <2>2, <2>4, <2>6, <4>1, <4>2
    <3>2. ~ t
      BY <1>2, <2>1, <3>1
    <3>3. PartPromised(m, t)
      BY <2>2, <2>4, <2>6, <3>1, <3>2 DEF PartPromised
    <3>4. CleanFrom(m.queue, 1, out[i])
      BY <3>1 DEF CleanFrom
    <3>5. n.type = "first" => FirstQueued(m.queue, out[i])
      BY <2>2, <2>4, <3>1, <3>4 DEF FirstQueued
    <3> QED BY <1>2, <2>1, <2>3, <2>4, <2>6, <3>1, <3>3, <3>4, <3>5
  <2> QED BY <2>5, <2>6
<1> QED BY <1>1, <1>2

\* What a packet does to the other router.
LEMMA ReceiveOutcome ==
    ASSUME NEW r \in PeerType, NEW p \in Packet
    PROVE  LET x == Receive(r, p)
               first == FirstOf(1, p.tlvs)
           IN  /\ p.same => /\ x.offered = r.offered \cup first /\ x.saved = r.saved
                            /\ x.ignored = (r.ignored \/ p.flags \in FirstFlags)
               /\ ~ p.same /\ p.flags = "init+rs+eot" => x.offered \subseteq first
               /\ ~ p.same /\ p.flags = "init+rs" => x.saved
               /\ ~ p.same /\ p.flags \in {"eot", "plain"} =>
                    IF r.saved THEN x.offered = {}
                    ELSE x.offered = r.offered \cup first /\ x.ignored = r.ignored
<1> DEFINE x == Receive(r, p)
           offered == r.offered \cup FirstOf(1, p.tlvs)
           heard == [r EXCEPT !.offered = offered]
           final == Final(r.offered, r.offered, p.tlvs)
           ignored == r.ignored \/ p.flags \in FirstFlags
<1> SUFFICES
      /\ p.same => /\ x.offered = offered /\ x.saved = r.saved
                   /\ x.ignored = ignored
      /\ ~ p.same /\ p.flags = "init+rs+eot" => x.offered \subseteq FirstOf(1, p.tlvs)
      /\ ~ p.same /\ p.flags = "init+rs" => x.saved
      /\ ~ p.same /\ p.flags \in {"eot", "plain"} =>
           IF r.saved THEN x.offered = {}
           ELSE x.offered = offered /\ x.ignored = r.ignored
  OBVIOUS
<1>1. /\ heard.offered = offered /\ heard.saved = r.saved
      /\ heard.ignored = r.ignored
      /\ \A b : /\ [heard EXCEPT !.ignored = b].ignored = b
                /\ [heard EXCEPT !.ignored = b].offered = offered
                /\ [heard EXCEPT !.ignored = b].saved = r.saved
      /\ [heard EXCEPT !.saved = TRUE, !.ignored = FALSE].saved
      /\ \A b : [r EXCEPT !.offered = b, !.ignored = FALSE].offered = b
      /\ [Fresh EXCEPT !.crashed = TRUE].offered = {}
  BY DEF PeerType, Fresh
<1>2. final \subseteq FirstOf(1, p.tlvs)
  BY DEF Final
<1> HIDE DEF offered, final, ignored
<1>3. CASE p.same
  <2>1. x = [heard EXCEPT !.ignored = ignored]
    BY <1>3 DEF Receive, offered, ignored, PeerType
  <2> HIDE DEF x, heard
  <2> QED BY <1>1, <1>3, <2>1
<1>4. CASE ~ p.same /\ p.flags = "init+rs+eot"
  <2>1. x = [r EXCEPT !.offered = final, !.ignored = FALSE]
    BY <1>4 DEF Receive, final
  <2> HIDE DEF x, heard
  <2> QED BY <1>1, <1>2, <1>4, <2>1
<1>5. CASE ~ p.same /\ p.flags = "init+rs"
  <2>1. x = [heard EXCEPT !.saved = TRUE, !.ignored = FALSE]
    BY <1>5 DEF Receive, offered
  <2> HIDE DEF x, heard
  <2> QED BY <1>1, <1>5, <2>1
<1>6. CASE ~ p.same /\ p.flags \in {"eot", "plain"} /\ r.saved
  <2>1. x = [Fresh EXCEPT !.crashed = TRUE]
    BY <1>6 DEF Receive
  <2> HIDE DEF x, heard
  <2> QED BY <1>1, <1>6, <2>1
<1>7. CASE ~ p.same /\ p.flags \in {"eot", "plain"} /\ ~ r.saved
  <2>1. x = heard
    BY <1>7 DEF Receive, offered
  <2> HIDE DEF x, heard
  <2> QED BY <1>1, <1>7, <2>1
<1>8. p.flags \in {"init+rs+eot", "init+rs", "eot", "plain"} /\ p.same \in BOOLEAN
      /\ r.saved \in BOOLEAN
  BY DEF Packet, PeerType
<1> HIDE DEF x
<1> QED BY <1>3, <1>4, <1>5, <1>6, <1>7, <1>8

\* The other router handles the head of the queue, and the next packet, if
\* there is one, takes a number.
LEMMA ReceiveEnforced ==
    ASSUME NEW n \in NbrType, NEW r \in PeerType, NEW o, NEW s \in BOOLEAN,
           n.queue # <<>>, PartPromised(n, s), Enforced(n, r, o, s),
           NEW t \in BOOLEAN, t => s
    PROVE  LET m == [n EXCEPT !.queue = Tail(n.queue)]
           IN  Enforced(m, Receive(r, Head(n.queue)), o, t)
<1> DEFINE q == n.queue
           p == Head(q)
           m == [n EXCEPT !.queue = Tail(q)]
           x == Receive(r, p)
           first == FirstOf(1, p.tlvs)
<1> SUFFICES Enforced(m, x, o, t)
  OBVIOUS
<1>1. /\ q \in Seq(Packet) /\ Len(q) \in Nat /\ DOMAIN q = 1..Len(q)
      /\ 1 \in DOMAIN q /\ q # <<>>
  BY QueueParts
<1>2. /\ p \in Packet /\ p = q[1] /\ Tail(q) \in Seq(Packet)
      /\ DOMAIN Tail(q) = 1..(Len(q) - 1)
      /\ \A k \in 1..(Len(q) - 1) : Tail(q)[k] = q[k + 1] /\ k + 1 \in DOMAIN q
  BY <1>1, HeadTailProperties
<1>3. m.queue = Tail(q) /\ m.timer = n.timer /\ m.type = n.type
  BY DEF NbrType
<1>5. /\ first \subseteq p.tlvs /\ p.same \in BOOLEAN
      /\ p.flags \in {"init+rs+eot", "init+rs", "eot", "plain"}
  BY <1>2 DEF FirstOf, Packet
<1>6. /\ p.same => /\ x.offered = r.offered \cup first /\ x.saved = r.saved
                   /\ x.ignored = (r.ignored \/ p.flags \in FirstFlags)
      /\ ~ p.same /\ p.flags = "init+rs+eot" => x.offered \subseteq first
      /\ ~ p.same /\ p.flags = "init+rs" => x.saved
      /\ ~ p.same /\ p.flags \in {"eot", "plain"} =>
           IF r.saved THEN x.offered = {}
           ELSE x.offered = r.offered \cup first /\ x.ignored = r.ignored
  BY <1>2, ReceiveOutcome
<1> HIDE DEF m, q, x, first, p
<1>7. ASSUME CleanFrom(q, 1, o)
      PROVE  CleanFrom(Tail(q), 1, o) /\ first \cap o = {}
  <2>1. CleanFrom(Tail(q), 1, o)
    BY <1>1, <1>2, <1>7 DEF CleanFrom
  <2>2. p.tlvs \cap o = {}
    BY <1>1, <1>2, <1>7 DEF CleanFrom
  <2> QED BY <1>5, <2>1, <2>2
<1>8. ASSUME CleanFrom(Tail(q), 1, o), x.offered \cap o = {} \/ x.ignored
      PROVE  Enforced(m, x, o, t)
  BY <1>3, <1>8 DEF Enforced
<1>9. CASE CleanFrom(q, 1, o) /\ p.flags \in FirstFlags
  <2>1. CASE p.same
    BY <1>6, <1>7, <1>8, <1>9, <2>1
  <2>2. CASE ~ p.same /\ p.flags = "init+rs+eot"
    BY <1>6, <1>7, <1>8, <1>9, <2>2
  <2>3. CASE ~ p.same /\ p.flags = "init+rs"
    <3>1. /\ n.timer /\ n.type # "last"
          /\ IF 1 = Len(q) THEN ~ s ELSE ~ q[2].same
      <4>1. q[1].flags = "init+rs" /\ PartPromised(n, s)
        BY <1>2, <2>3
      <4>2. IF 1 = Len(q) THEN ~ s ELSE ~ q[1 + 1].same
        BY <1>1, <4>1 DEF PartPromised, q
      <4>3. n.timer /\ n.type # "last"
        BY <1>1, <4>1 DEF PartPromised, q
      <4> QED BY <4>2, <4>3
    <3>2. CASE Len(q) = 1
      <4>1. Tail(q) = <<>>
        BY <1>1, <1>2, <3>2, EmptySeq
      <4> QED BY <1>3, <1>6, <1>7, <1>9, <2>3, <3>1, <3>2, <4>1 DEF Enforced
    <3>3. CASE Len(q) # 1
      <4>1. 1 \in 1..(Len(q) - 1) /\ Len(q) \in Nat \ {0}
        BY <1>1, <3>3
      <4>2. Tail(q)[1] = q[2] /\ Tail(q) # <<>>
        <5>1. Tail(q)[1] = q[1 + 1] /\ 1 \in DOMAIN Tail(q)
          BY <1>2, <4>1
        <5>2. 1 + 1 = 2 /\ DOMAIN <<>> = {}
          OBVIOUS
        <5>3. Tail(q) # <<>>
          BY <5>1, <5>2, Zenon
        <5> QED BY <5>1, <5>2, <5>3
      <4> QED BY <1>3, <1>6, <1>7, <1>9, <2>3, <3>1, <3>3, <4>2 DEF Enforced
    <3> QED BY <3>2, <3>3
  <2> QED BY <1>9, <2>1, <2>2, <2>3, <1>5 DEF FirstFlags
<1>10. CASE /\ CleanFrom(q, 1, o) /\ p.flags \notin FirstFlags
            /\ r.offered \cap o = {} \/ r.ignored
  BY <1>5, <1>6, <1>7, <1>8, <1>10 DEF FirstFlags
<1>11. CASE /\ CleanFrom(q, 1, o) /\ p.flags \notin FirstFlags
            /\ r.saved /\ ~ p.same
  BY <1>5, <1>6, <1>7, <1>8, <1>11 DEF FirstFlags
<1>12. CASE FirstQueued(q, o)
  <2>1. PICK k \in DOMAIN q : q[k].flags \in FirstFlags /\ CleanFrom(q, k, o)
    BY <1>12 DEF FirstQueued
  <2>2. CASE k > 1
    <3>1. k - 1 \in DOMAIN Tail(q) /\ Tail(q)[k - 1] = q[k]
      BY <1>1, <1>2, <2>2
    <3>2. CleanFrom(Tail(q), k - 1, o)
      BY <1>1, <1>2, <2>1, <2>2 DEF CleanFrom
    <3> QED BY <1>3, <2>1, <3>1, <3>2 DEF FirstQueued, Enforced
  <2>3. CASE k = 1
    BY <1>2, <1>9, <2>1, <2>3
  <2> QED BY <1>1, <2>2, <2>3
<1>13. CASE CleanFrom(q, 1, o) /\ (r.offered \cap o = {} \/ r.ignored)
  BY <1>9, <1>10, <1>13
<1>14. CASE CleanFrom(q, 1, o) /\ r.saved /\ ~ q[1].same
  BY <1>2, <1>9, <1>11, <1>14
<1>15. Enforced(n, r, o, s) /\ n.queue = q
  BY DEF q
<1> QED BY <1>1, <1>12, <1>13, <1>14, <1>15 DEF Enforced

-------------------------------------------------------------------------------
\* What the step of one interface has to show; the others have no more numbers
\* to repeat than before.
LEMMA OneEnforced ==
    ASSUME IInv, FilterInv, NEW i \in Ifp, NEW n,
           nbr' = [nbr EXCEPT ![i] = n], out' = out,
           \A j \in Ifp \ {i} : /\ peer'[j] = peer[j] /\ (j \in untold => j \in untold')
                                /\ j \in sameSeq' => j \in sameSeq,
           PartPromised(n, i \in sameSeq'),
           n.known /\ i \notin untold' => Enforced(n, peer'[i], out[i], i \in sameSeq')
    PROVE  FilterInv'
<1>1. nbr'[i] = n /\ \A j \in Ifp \ {i} : nbr'[j] = nbr[j]
  BY DEF IInv, TypeOK
<1> SUFFICES ASSUME NEW j \in Ifp
             PROVE  /\ PartPromised(nbr'[j], j \in sameSeq')
                    /\ nbr'[j].known /\ j \notin untold'
                          => Enforced(nbr'[j], peer'[j], out'[j], j \in sameSeq')
  BY DEF FilterInv
<1>2. CASE j = i
  BY <1>1, <1>2
<1>3. CASE j # i
  <2>1. PartPromised(nbr[j], j \in sameSeq) /\ (j \in sameSeq' => j \in sameSeq)
    BY <1>3 DEF FilterInv
  <2>2. PartPromised(nbr[j], j \in sameSeq')
    BY <2>1 DEF PartPromised
  <2>3. ASSUME nbr[j].known, j \notin untold'
        PROVE  Enforced(nbr[j], peer[j], out[j], j \in sameSeq')
    <3>1. Enforced(nbr[j], peer[j], out[j], j \in sameSeq)
      BY <1>3, <2>3 DEF FilterInv
    <3> QED BY <2>1, <3>1 DEF Enforced
  <2> QED BY <1>1, <1>3, <2>2, <2>3
<1> QED BY <1>2, <1>3

\* One that leaves the queues: no filter is changed of which a neighbour that
\* is known is not to be told.
LEMMA QuietEnforced ==
    ASSUME IInv, FilterInv, UNCHANGED <<nbr, peer, sameSeq>>,
           \A i \in Ifp : nbr[i].known /\ i \notin untold'
                             => i \notin untold /\ out'[i] = out[i]
    PROVE  FilterInv'
BY DEF FilterInv

LEMMA AdjacencyEnforced ==
    ASSUME IInv, FilterInv, NEW i \in Ifp, Adjacency(i) PROVE FilterInv'
<1>0. PICK same \in {FALSE, peer'[i].saved} :
         nbr' = [nbr EXCEPT ![i] =
                   [@ EXCEPT !.known = TRUE,
                             !.queue = <<[flags |-> "eot", tlvs |-> Allowed(i),
                                          same |-> same]>>]]
  BY DEF Adjacency
<1> DEFINE p == [flags |-> "eot", tlvs |-> Allowed(i), same |-> same]
           n == [nbr[i] EXCEPT !.known = TRUE, !.queue = <<p>>]
<1>1. nbr[i] \in NbrType /\ peer[i] \in PeerType
  BY DEF IInv, TypeOK
<1>2. n.queue = <<p>> /\ p.tlvs \cap out[i] = {} /\ p.flags # "init+rs"
  BY <1>1 DEF NbrType, Allowed
<1> HIDE DEF p
<1>3. PartPromised(n, i \in sameSeq') /\ CleanFrom(n.queue, 1, out[i])
  BY <1>2 DEF PartPromised, CleanFrom
<1>7. Fresh.offered = {} /\ [peer[i] EXCEPT !.offered = {}, !.ignored = FALSE].offered = {}
  BY <1>1 DEF Fresh, PeerType
<1>4. peer'[i].offered = {} /\ \A j \in Ifp \ {i} : peer'[j] = peer[j]
  BY <1>7 DEF Adjacency, IInv, TypeOK
<1>5. /\ nbr' = [nbr EXCEPT ![i] = n] /\ out' = out /\ sameSeq' = {i}
      /\ \A j \in Ifp \ {i} : j \in untold => j \in untold'
  BY <1>0 DEF Adjacency, p
<1> HIDE DEF n
<1>6. Enforced(n, peer'[i], out[i], i \in sameSeq')
  BY <1>3, <1>4 DEF Enforced
<1> QED BY <1>3, <1>4, <1>5, <1>6, OneEnforced

LEMMA NeighborLostEnforced ==
    ASSUME IInv, FilterInv, NEW i \in Ifp, NeighborLost(i) PROVE FilterInv'
<1>1. PartPromised(NoNbr, i \in sameSeq') /\ ~ NoNbr.known
  BY DEF NoNbr, PartPromised
<1>2. /\ nbr' = [nbr EXCEPT ![i] = NoNbr] /\ out' = out /\ peer' = peer
      /\ sameSeq' \subseteq sameSeq
      /\ \A j \in Ifp \ {i} : j \in untold => j \in untold'
  BY DEF NeighborLost
<1> QED BY <1>1, <1>2, OneEnforced

LEMMA SendChangeEnforced ==
    ASSUME IInv, FilterInv, NEW i \in Ifp, NEW p \in Prefix, SendChange(i, p)
    PROVE  FilterInv'
<1> DEFINE s == i \in sameSeq
           k == [flags |-> "plain", tlvs |-> {p}, same |-> s]
           n == [nbr[i] EXCEPT !.queue = Append(nbr[i].queue, k)]
<1>0. s \in BOOLEAN
  OBVIOUS
<1>4. /\ nbr' = [nbr EXCEPT ![i] = n] /\ out' = out
      /\ peer' = peer /\ untold' = untold /\ sameSeq' = sameSeq \cup {i}
  BY DEF SendChange
<1>7. nbr[i] \in NbrType /\ PartPromised(nbr[i], s)
      /\ (nbr[i].known /\ i \notin untold => Enforced(nbr[i], peer[i], out[i], s))
  BY DEF IInv, TypeOK, FilterInv
<1> HIDE DEF s
<1>1. k \in Packet /\ k.tlvs \cap out[i] = {} /\ k.same = s
  BY <1>0 DEF Packet, SendChange, Allowed
<1>2. /\ n.queue = Append(nbr[i].queue, k) /\ n.timer = nbr[i].timer
      /\ n.type = nbr[i].type /\ n.known = nbr[i].known
  BY <1>7 DEF NbrType
<1>3. k.flags # "init+rs"
  OBVIOUS
<1> HIDE DEF k, n
<1>5. PartPromised(n, i \in sameSeq')
  <2> DEFINE q == nbr[i].queue
  <2>1. /\ n.queue \in Seq(Packet) /\ Len(n.queue) = Len(q) + 1
        /\ DOMAIN n.queue = 1..(Len(q) + 1)
        /\ \A l \in 1..(Len(q) + 1) : n.queue[l] = IF l = Len(q) + 1 THEN k ELSE q[l]
        /\ DOMAIN q = 1..Len(q) /\ Len(q) \in Nat
    BY <1>1, <1>2, <1>7, QueueParts, QueueAppend, AppendProperties
  <2> SUFFICES ASSUME NEW l \in 1..(Len(q) + 1), n.queue[l].flags = "init+rs"
               PROVE  /\ n.timer /\ n.type # "last"
                      /\ l # Len(q) + 1 /\ ~ n.queue[l + 1].same
    BY <2>1 DEF PartPromised
  <2>2. l # Len(q) + 1
    BY <1>3, <2>1
  <2>3. l \in 1..Len(q) /\ q[l].flags = "init+rs"
    BY <2>1, <2>2
  <2>4. /\ nbr[i].timer /\ nbr[i].type # "last"
        /\ IF l = Len(q) THEN ~ s ELSE ~ q[l + 1].same
    BY <1>7, <2>1, <2>3 DEF PartPromised
  <2>5. ~ n.queue[l + 1].same
    <3>1. CASE l = Len(q)
      BY <1>1, <2>1, <2>4, <3>1
    <3>2. CASE l # Len(q)
      <4>1. l + 1 \in 1..(Len(q) + 1) /\ l + 1 # Len(q) + 1
        BY <2>1, <2>3, <3>2
      <4> QED BY <2>1, <2>4, <3>2, <4>1
    <3> QED BY <3>1, <3>2
  <2> QED BY <1>2, <2>2, <2>4, <2>5
<1>6. ASSUME nbr[i].known, i \notin untold
      PROVE  Enforced(n, peer[i], out[i], i \in sameSeq')
  BY <1>1, <1>2, <1>6, <1>7, AppendEnforced
<1>8. \A j \in Ifp \ {i} : j \in sameSeq' => j \in sameSeq
  BY <1>4
<1> QED BY <1>2, <1>4, <1>5, <1>6, <1>8, OneEnforced

LEMMA DeliverEnforced ==
    ASSUME IInv, FilterInv, NEW i \in Ifp, Deliver(i) PROVE FilterInv'
<1> DEFINE q == nbr[i].queue
           n == [nbr[i] EXCEPT !.queue = Tail(q)]
           r == Receive(peer[i], Head(q))
           s == i \in sameSeq
           t == i \in sameSeq'
<1>1. /\ nbr[i] \in NbrType /\ peer[i] \in PeerType /\ q # <<>>
      /\ PartPromised(nbr[i], s)
      /\ nbr[i].known /\ i \notin untold => Enforced(nbr[i], peer[i], out[i], s)
  BY DEF IInv, TypeOK, Deliver, FilterInv
<1>2. n.known = nbr[i].known
  BY <1>1 DEF NbrType
<1>3. /\ nbr' = [nbr EXCEPT ![i] = n] /\ out' = out /\ untold' = untold
      /\ peer' = [peer EXCEPT ![i] = r]
  BY DEF Deliver
<1>7. /\ sameSeq' \subseteq sameSeq /\ s \in BOOLEAN /\ t \in BOOLEAN
      /\ t => s
  BY DEF Deliver
<1> HIDE DEF s, t
<1>4. PartPromised(n, t)
  <2>1. /\ Tail(q) \in Seq(Packet) /\ DOMAIN Tail(q) = 1..(Len(q) - 1)
        /\ Len(Tail(q)) = Len(q) - 1 /\ Len(q) \in Nat /\ DOMAIN q = 1..Len(q)
        /\ \A k \in 1..(Len(q) - 1) : Tail(q)[k] = q[k + 1] /\ k + 1 \in DOMAIN q
    BY <1>1, QueueParts, HeadTailProperties
  <2>2. n.queue = Tail(q) /\ n.timer = nbr[i].timer /\ n.type = nbr[i].type
    BY <1>1 DEF NbrType
  <2> HIDE DEF n
  <2> SUFFICES ASSUME NEW k \in 1..(Len(q) - 1), q[k + 1].flags = "init+rs"
               PROVE  /\ n.timer /\ n.type # "last"
                      /\ IF k = Len(q) - 1 THEN ~ t ELSE ~ Tail(q)[k + 1].same
    BY <2>1, <2>2 DEF PartPromised
  <2>3. /\ nbr[i].timer /\ nbr[i].type # "last"
        /\ IF k + 1 = Len(q) THEN ~ s ELSE ~ q[k + 1 + 1].same
    BY <1>1, <2>1 DEF PartPromised
  <2>4. CASE k = Len(q) - 1
    BY <1>7, <2>1, <2>2, <2>3, <2>4
  <2>5. CASE k # Len(q) - 1
    <3>1. k + 1 \in 1..(Len(q) - 1) /\ k + 1 # Len(q)
      BY <2>1, <2>5
    <3>2. Tail(q)[k + 1] = q[k + 1 + 1]
      BY <2>1, <3>1
    <3> QED BY <2>2, <2>3, <2>5, <3>1, <3>2
  <2> QED BY <2>4, <2>5
<1>5. ASSUME nbr[i].known, i \notin untold
      PROVE  Enforced(n, r, out[i], t)
  BY <1>1, <1>5, <1>7, ReceiveEnforced
<1>6. peer'[i] = r /\ \A j \in Ifp \ {i} : peer'[j] = peer[j]
  BY <1>3 DEF IInv, TypeOK
<1>8. \A j \in Ifp \ {i} : j \in sameSeq' => j \in sameSeq
  BY <1>7
<1> HIDE DEF n, r, q
<1> QED BY <1>2, <1>3, <1>4, <1>5, <1>6, <1>8, OneEnforced DEF t

\* What SendEvent does, seen from what its neighbour was told.
LEMMA TellingEnforced ==
    ASSUME IInv, FilterInv, NEW i \in Ifp, NEW n \in NbrType, NEW same \in BOOLEAN,
           n.known = nbr[i].known, n.queue = nbr[i].queue,
           n.type = nbr[i].type \/ n.type = "first",
           nbr'[i] = SendEvent(n, i, same),
           same => i \in sameSeq, i \in sameSeq' => i \in sameSeq,
           nbr'[i].queue # nbr[i].queue => i \notin sameSeq'
    PROVE  /\ PartPromised(nbr'[i], i \in sameSeq')
           /\ nbr[i].known /\ i \notin untold \ Told
                 => Enforced(nbr'[i], peer[i], out[i], i \in sameSeq')
<1> DEFINE m == nbr'[i]
           s == i \in sameSeq
           t == i \in sameSeq'
<1>0. s \in BOOLEAN /\ t \in BOOLEAN
  OBVIOUS
<1>1. /\ TypeOK /\ nbr[i] \in NbrType /\ PartPromised(nbr[i], s)
      /\ nbr[i].known /\ i \notin untold => Enforced(nbr[i], peer[i], out[i], s)
  BY DEF IInv, TypeOK, FilterInv
<1>6. /\ same => s
      /\ t => s
      /\ SendEvent(n, i, same).queue # n.queue => ~ t
  OBVIOUS
<1> HIDE DEF s, t
<1>2. \A k \in DOMAIN n.queue : n.queue[k].flags = "init+rs" =>
         /\ n.type # "last"
         /\ IF k = Len(n.queue) THEN ~ s ELSE ~ n.queue[k + 1].same
  BY <1>1 DEF PartPromised
<1>3. /\ PartPromised(m, t)
      /\ m.queue # n.queue /\ n.type = "first" => FirstQueued(m.queue, out[i])
      /\ m.queue # n.queue => /\ n.queue = <<>> /\ m.queue # <<>>
                              /\ CleanFrom(m.queue, 1, out[i])
                              /\ m.queue[1].same = same
      /\ m.queue # n.queue /\ n.type # "first" => Last(m.queue).flags \notin FirstFlags
      /\ m.queue = n.queue => n.queue # <<>> \/ n.type = "last"
  <2> DEFINE z == SendEvent(n, i, same)
  <2>1. PartPromised(z, t)
    BY <1>0, <1>1, <1>2, <1>6, SendEventEnforced
  <2>2. z.queue # n.queue /\ n.type = "first" => FirstQueued(z.queue, out[i])
    BY <1>0, <1>1, <1>2, <1>6, SendEventEnforced
  <2>3. z.queue # n.queue /\ n.type # "first" => Last(z.queue).flags \notin FirstFlags
    BY <1>0, <1>1, <1>2, <1>6, SendEventEnforced
  <2>4. z.queue # n.queue => /\ n.queue = <<>> /\ z.queue # <<>>
                             /\ CleanFrom(z.queue, 1, out[i])
                             /\ z.queue[1].same = same
    BY <1>0, <1>1, <1>2, <1>6, SendEventEnforced
  <2>6. z.queue = n.queue => n.queue # <<>> \/ n.type = "last"
    BY <1>0, <1>1, <1>2, <1>6, SendEventEnforced
  <2>5. m = z
    OBVIOUS
  <2> HIDE DEF m, z
  <2> QED BY <2>1, <2>2, <2>3, <2>4, <2>5, <2>6, Zenon
<1> HIDE DEF m
<1>4. ASSUME i \in Told PROVE Enforced(m, peer[i], out[i], t)
  <2>1. m.queue # n.queue /\ n.type = "first"
    BY <1>3, <1>4 DEF Told, m
  <2> QED BY <1>3, <2>1 DEF Enforced
<1>5. ASSUME nbr[i].known, i \notin untold
      PROVE  Enforced(m, peer[i], out[i], t)
  <2>1. Enforced(nbr[i], peer[i], out[i], s)
    BY <1>1, <1>5
  <2>2. CASE m.queue = n.queue
    <3>1. m.queue = nbr[i].queue /\ (m.queue = <<>> => n.type = "last")
      BY <1>3, <2>2
    <3>2. m.queue = <<>> => nbr[i].type = "last"
      BY <3>1
    <3> QED BY <1>6, <2>1, <3>1, <3>2 DEF Enforced
  <2>3. CASE m.queue # n.queue
    <3>1. nbr[i].queue = <<>> /\ m.queue # <<>> /\ CleanFrom(m.queue, 1, out[i])
          /\ m.queue[1].same = same
      BY <1>3, <2>3
    <3>2. ~ FirstQueued(<<>>, out[i])
      BY DEF FirstQueued
    <3>3. peer[i].offered \cap out[i] = {} \/ peer[i].ignored
          \/ (peer[i].saved /\ ~ s)
      BY <2>1, <3>1, <3>2 DEF Enforced
    <3> QED BY <1>6, <3>1, <3>3 DEF Enforced
  <2> QED BY <2>2, <2>3
<1> QED BY <1>3, <1>4, <1>5 DEF m, t

LEMMA SendTimerEnforced ==
    ASSUME IInv, FilterInv, NEW i \in Ifp, SendTimer(i) PROVE FilterInv'
<1> DEFINE same == i \in sameSeq
           n == [nbr[i] EXCEPT !.timer = FALSE]
           m == SendEvent(n, i, same)
<1>0. same \in BOOLEAN
  OBVIOUS
<1>1. TypeOK /\ nbr[i] \in NbrType
  BY DEF IInv, TypeOK
<1>2. /\ n \in NbrType /\ n.known = nbr[i].known /\ n.queue = nbr[i].queue
      /\ n.type = nbr[i].type
  BY <1>1 DEF NbrType
<1>3. /\ nbr' = [nbr EXCEPT ![i] = m] /\ out' = out /\ peer' = peer
      /\ untold' = untold \ Told
      /\ sameSeq' = IF nbr'[i].queue = nbr[i].queue THEN sameSeq ELSE {}
  BY DEF SendTimer
<1>8. same => i \in sameSeq
  OBVIOUS
<1> HIDE DEF same
<1>4. m.known = nbr[i].known
  BY <1>0, <1>1, <1>2, SendEventOutcome
<1> HIDE DEF n, m
<1>5. nbr'[i] = m /\ \A j \in Ifp \ {i} : nbr'[j] = nbr[j]
  BY <1>1, <1>3 DEF TypeOK
<1>9. sameSeq' \subseteq sameSeq /\ (nbr'[i].queue # nbr[i].queue => i \notin sameSeq')
  BY <1>3
<1>6. /\ PartPromised(m, i \in sameSeq')
      /\ nbr[i].known /\ i \notin untold \ Told
            => Enforced(m, peer[i], out[i], i \in sameSeq')
  BY <1>0, <1>2, <1>5, <1>8, <1>9, TellingEnforced DEF m
<1>7. \A j \in Ifp \ {i} : /\ peer'[j] = peer[j]
                           /\ j \in untold => j \in untold'
                           /\ j \in sameSeq' => j \in sameSeq
  <2>1. \A j \in Ifp \ {i} : j \notin Told
    BY <1>5 DEF Told
  <2> QED BY <1>3, <1>9, <2>1
<1>10. ASSUME nbr[i].known, i \notin untold'
       PROVE  Enforced(m, peer'[i], out[i], i \in sameSeq')
  <2>1. peer'[i] = peer[i] /\ i \notin untold \ Told
    BY <1>3, <1>10
  <2> QED BY <1>6, <1>10, <2>1
<1>11. nbr' = [nbr EXCEPT ![i] = m] /\ out' = out
  BY <1>3
<1>12. PartPromised(m, i \in sameSeq')
  BY <1>6
<1> HIDE DEF m
<1> QED BY <1>4, <1>7, <1>10, <1>11, <1>12, OneEnforced

\* A resynchronisation that finds the queue of its neighbour empty sends the
\* first packet at once; one that does not leaves the queue.
LEMMA ResyncSends ==
    ASSUME TypeOK, NEW i \in Ifp, NEW same \in BOOLEAN, nbr[i].known
    PROVE  Resync(nbr[i], i, same).queue = nbr[i].queue <=> nbr[i].queue # <<>>
<1> DEFINE n == [nbr[i] EXCEPT !.toSend = table, !.type = "first"]
           m == SendEvent(n, i, same)
<1>1. /\ n \in NbrType /\ n.queue = nbr[i].queue /\ n.type = "first"
      /\ Resync(nbr[i], i, same) = m
  BY DEF Resync, NbrType, TypeOK
<1> HIDE DEF n
<1>2. CASE n.queue # <<>>
  BY <1>1, <1>2 DEF SendEvent, NbrType
<1>3. CASE n.queue = <<>>
  <2>1. SendPart(n, i, same).queue # n.queue /\ SendPart(n, i, same) \in NbrType
    BY <1>1, <1>3, SendPartOutcome
  <2>2. m.queue = SendPart(n, i, same).queue
    BY <1>3, <2>1 DEF SendEvent, NbrType
  <2> QED BY <1>1, <1>3, <2>1, <2>2
<1> QED BY <1>2, <1>3

LEMMA ResyncEnforced ==
    ASSUME IInv, FilterInv, NEW scope \in Scope, ResyncAll(scope),
           untold' = untold \ Told, out' = out, peer' = peer
    PROVE  FilterInv'
<1> DEFINE sending == {i \in Ifp : /\ scope \in {i, Process}
                                  /\ nbr[i].known /\ nbr[i].queue = <<>>}
<1>0. PICK f \in sending \cup {None} :
         /\ nbr' = [i \in Ifp |-> IF scope \in {i, Process}
                                  THEN Resync(nbr[i], i, i = f /\ i \in sameSeq)
                                  ELSE nbr[i]]
         /\ sameSeq' = IF sending = {} THEN sameSeq ELSE {}
  BY DEF ResyncAll
<1> SUFFICES ASSUME NEW i \in Ifp
             PROVE  /\ PartPromised(nbr'[i], i \in sameSeq')
                    /\ nbr'[i].known /\ i \notin untold'
                          => Enforced(nbr'[i], peer[i], out[i], i \in sameSeq')
  BY DEF FilterInv
<1> DEFINE same == i = f /\ i \in sameSeq
<1>1. TypeOK /\ nbr[i] \in NbrType /\ same \in BOOLEAN
  BY DEF IInv, TypeOK
<1>2. nbr'[i] = IF scope \in {i, Process} THEN Resync(nbr[i], i, same) ELSE nbr[i]
  BY <1>0
<1>5. (same => i \in sameSeq) /\ (i \in sameSeq' => i \in sameSeq)
  BY <1>0
<1> HIDE DEF same
<1>3. CASE nbr'[i] = nbr[i]
  <2>1. i \notin Told
    BY <1>3 DEF Told
  <2>2. /\ PartPromised(nbr[i], i \in sameSeq)
        /\ nbr[i].known /\ i \notin untold
              => Enforced(nbr[i], peer[i], out[i], i \in sameSeq)
    BY DEF FilterInv
  <2>3. PartPromised(nbr[i], i \in sameSeq')
    BY <1>5, <2>2 DEF PartPromised
  <2>4. Enforced(nbr[i], peer[i], out[i], i \in sameSeq)
           => Enforced(nbr[i], peer[i], out[i], i \in sameSeq')
    BY <1>5 DEF Enforced
  <2> QED BY <1>3, <2>1, <2>2, <2>3, <2>4
<1>4. CASE nbr'[i] # nbr[i]
  <2> DEFINE n == [nbr[i] EXCEPT !.toSend = table, !.type = "first"]
  <2>1. /\ nbr[i].known /\ nbr'[i] = SendEvent(n, i, same)
        /\ nbr'[i] = Resync(nbr[i], i, same) /\ scope \in {i, Process}
    BY <1>2, <1>4 DEF Resync
  <2>2. /\ n \in NbrType /\ n.known = nbr[i].known /\ n.queue = nbr[i].queue
        /\ n.type = "first"
    BY <1>1 DEF NbrType, TypeOK
  <2>4. nbr'[i].queue # nbr[i].queue => i \notin sameSeq'
    <3>1. nbr'[i].queue # nbr[i].queue => i \in sending
      BY <1>1, <2>1, ResyncSends
    <3> QED BY <1>0, <3>1
  <2> HIDE DEF n
  <2>3. /\ PartPromised(nbr'[i], i \in sameSeq')
        /\ nbr[i].known /\ i \notin untold \ Told
              => Enforced(nbr'[i], peer[i], out[i], i \in sameSeq')
    BY <1>1, <1>5, <2>1, <2>2, <2>4, TellingEnforced
  <2> QED BY <2>1, <2>3
<1> QED BY <1>3, <1>4

\* The filters: who is affected is in untold.
LEMMA DistributeUpdateEnforced ==
    ASSUME IInv, FilterInv, NEW scope \in Scope, NEW list \in List,
           DistributeUpdate(scope, list)
    PROVE  FilterInv'
<1>1. /\ UNCHANGED <<nbr, peer, sameSeq>> /\ out' = [out EXCEPT ![scope] = list]
      /\ untold' = untold \cup Affected(scope)
  BY DEF DistributeUpdate
<1>2. \A i \in Ifp : nbr[i].known /\ i \notin untold'
                        => i \notin untold /\ out'[i] = out[i]
  BY <1>1 DEF Affected, IInv, TypeOK, Scope
<1> QED BY <1>1, <1>2, QuietEnforced

LEMMA ListEditedEnforced ==
    ASSUME IInv, FilterInv, NEW scope \in Scope, NEW list \in List,
           ListEdited(scope, list)
    PROVE  FilterInv'
<1> DEFINE updated == {i \in Ifp : out[i] # {}} \cup ({scope} \ {Process})
<1>1. /\ UNCHANGED <<nbr, peer, sameSeq>> /\ out' = [out EXCEPT ![scope] = list]
      /\ untold' = untold \cup {i \in updated : nbr[i].known}
  BY DEF ListEdited
<1>2. \A i \in Ifp : i # Process
  BY ResyncAssumption DEF Process
<1>3. \A i \in Ifp : nbr[i].known /\ i \notin untold'
                        => i \notin untold /\ out'[i] = out[i]
  BY <1>1, <1>2 DEF IInv, TypeOK, Scope
<1> QED BY <1>1, <1>3, QuietEnforced

LEMMA NextEnforced == IInv /\ FilterInv /\ [Next]_vars => FilterInv'
<1> SUFFICES ASSUME IInv, FilterInv, [Next]_vars PROVE FilterInv'
  OBVIOUS
<1>1. CASE UNCHANGED vars
  BY <1>1, QuietEnforced DEF vars
<1>2. ASSUME NEW i \in Ifp, Adjacency(i) \/ NeighborLost(i) \/ Deliver(i) \/ SendTimer(i)
      PROVE  FilterInv'
  BY <1>2, AdjacencyEnforced, NeighborLostEnforced, DeliverEnforced, SendTimerEnforced
<1>3. ASSUME NEW i \in Ifp, NEW p \in Prefix, SendChange(i, p) PROVE FilterInv'
  BY <1>3, SendChangeEnforced
<1>4. ASSUME NEW p \in Prefix, TableChange(p) PROVE FilterInv'
  BY <1>4, QuietEnforced DEF TableChange
<1>5. ASSUME NEW s \in Scope, DistributeTimer(s) \/ SoftClear(s) PROVE FilterInv'
  <2>1. ResyncAll(s) /\ untold' = untold \ Told /\ out' = out /\ peer' = peer
    BY <1>5 DEF DistributeTimer, SoftClear
  <2> QED BY <2>1, ResyncEnforced
<1>6. ASSUME NEW s \in Scope, NEW list \in List,
             DistributeUpdate(s, list) \/ ListEdited(s, list)
      PROVE  FilterInv'
  BY <1>6, DistributeUpdateEnforced, ListEditedEnforced
<1> QED BY <1>1, <1>2, <1>3, <1>4, <1>5, <1>6 DEF Next

LEMMA AlwaysEnforced == Spec => [](IInv /\ FilterInv)
<1>1. Init => FilterInv
  BY DEF Init, FilterInv, NoNbr, PartPromised
<1> QED BY <1>1, InitSteps, NextSteps, NextEnforced, PTL DEF Spec

-------------------------------------------------------------------------------
\* Every variable keeps its type; no timer is cancelled that does not run.
THEOREM TypeCorrect == Spec => []TypeOK
<1>1. IInv => TypeOK
  BY DEF IInv
<1> QED BY <1>1, Always, PTL

\* No filter change is forgotten by the timers that share a pointer
\* (eigrp_distribute_update, eigrp_update_send_GR_event).
THEOREM ChangeAlwaysAnnounced == Spec => []ChangeAnnounced
<1>1. IInv => ChangeAnnounced
  BY DEF IInv
<1> QED BY <1>1, Always, PTL

\* A resynchronisation that was begun has its timer (eigrp_update_send_GR_event).
THEOREM ResyncAlwaysGoesOn == Spec => []ResyncGoesOn
<1>1. IInv => ResyncGoesOn
  BY DEF IInv
<1> QED BY <1>1, Always, PTL

\* When a resynchronisation is over, whatever was queued before the filter
\* changed, nothing that the filter of the interface denies is offered to the
\* neighbour, unless the first packet had the number of the packet before it
\* (eigrp_update_send_GR_part, eigrp_update_receive).
THEOREM FilterAlwaysEnforced == Spec => []FilterEnforced
<1>1. IInv /\ FilterInv => FilterEnforced
  <2> SUFFICES ASSUME IInv, FilterInv, NEW i \in Ifp,
                      nbr[i].known, nbr[i].queue = <<>>, ~ nbr[i].timer,
                      i \notin untold, ~ peer[i].ignored
               PROVE  peer[i].offered \cap out[i] = {}
    BY DEF FilterEnforced
  <2>1. Enforced(nbr[i], peer[i], out[i], i \in sameSeq)
    BY DEF FilterInv
  <2>2. ~ FirstQueued(nbr[i].queue, out[i])
    BY DEF FirstQueued
  <2> QED BY <2>1, <2>2 DEF Enforced
<1> QED BY <1>1, AlwaysEnforced, PTL
===============================================================================
