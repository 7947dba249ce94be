------------------------ MODULE EigrpReliableProofs ------------------------
(***************************************************************************)
(* What the queue of a neighbour looks like after every handler, for any   *)
(* number of losses, failures and retransmissions.  The inductive          *)
(* invariant is Sound of each router's state; there is one lemma per       *)
(* operator of EigrpReliable that says what it returns.                    *)
(***************************************************************************)
EXTENDS EigrpReliable, SequenceTheorems, FiniteSetTheorems, TLAPS

\* No packet but the head is timed, and a head that is not timed was given up.
Waiting(q) == \A i \in 2..Len(q) : ~q[i].timer /\ q[i].count = 0
Timed(q) ==
    /\ q # <<>> => q[1].timer \/ q[1].count = RetransMax
    /\ Waiting(q)

NoInit(q) == \A i \in 1..Len(q) : q[i].kind # "init"

\* The inductive invariant, of the state of one router.
Sound(s) ==
    /\ s \in RouterState
    /\ s.nbr # "down"
    /\ s.nbr = "pending" <=> s.init # 0
    /\ s.nbr = "pending" =>
          Len(s.queue) = 1 /\ s.queue[1].kind = "init" /\ s.queue[1].seq = s.init
    /\ s.nbr # "pending" => NoInit(s.queue)
    /\ s.nbr = "none" => s.queue = <<>> /\ s.recv = 0
    /\ Timed(s.queue)

\* t is s with more packets in the output queue.
Outputs(s, t) ==
    /\ t \in RouterState
    /\ t.nbr = s.nbr /\ t.seq = s.seq /\ t.recv = s.recv /\ t.init = s.init
    /\ t.queue = s.queue /\ t.built = s.built

\* The adjacency of t is that of s; packets may have been built and sent.
Keeps(s, t) ==
    /\ t \in RouterState
    /\ t.nbr = s.nbr /\ t.recv = s.recv /\ t.init = s.init

\* The number that follows a sequence number is not 0 and fits in 32 bits.
LEMMA BumpType == ASSUME NEW n \in 1..MaxSeq PROVE Bump(n) \in 1..MaxSeq
BY TransportAssumption DEF Bump

\* A Hello is only added to the output queue.
LEMMA OutKeeps ==
    ASSUME NEW s \in RouterState, NEW kind \in Hello, NEW ack \in Nat
    PROVE  Outputs(s, Out(s, kind, ack))
<1> DEFINE p == [kind |-> kind, id |-> 0, seq |-> 0, ack |-> ack, nbr |-> "null"]
<1>1. p \in Output
  BY DEF Output
<1>2. Append(s.obuf, p) \in Seq(Output)
  BY <1>1, AppendProperties DEF RouterState
<1>3. Out(s, kind, ack) = [s EXCEPT !.obuf = Append(s.obuf, p)]
  BY DEF Out
<1> HIDE DEF p
<1> QED BY <1>2, <1>3 DEF Outputs, RouterState

\* So is the copy of a held packet.
LEMMA OutCopyKeeps ==
    ASSUME NEW s \in RouterState, NEW h \in Held, NEW owner \in {"null", "live"}
    PROVE  Outputs(s, OutCopy(s, h, owner))
<1> DEFINE p == [kind |-> h.kind, id |-> h.id, seq |-> h.seq, ack |-> 0,
                 nbr |-> owner]
<1>1. p \in Output
  BY DEF Output, Held
<1>2. Append(s.obuf, p) \in Seq(Output)
  BY <1>1, AppendProperties DEF RouterState
<1>3. OutCopy(s, h, owner) = [s EXCEPT !.obuf = Append(s.obuf, p)]
  BY DEF OutCopy
<1> HIDE DEF p
<1> QED BY <1>2, <1>3 DEF Outputs, RouterState

\* A queue whose head is replaced is a queue.
LEMMA HeadReplaced ==
    ASSUME NEW q \in Seq(Held), q # <<>>, NEW h \in Held
    PROVE  /\ [q EXCEPT ![1] = h] \in Seq(Held)
           /\ Len([q EXCEPT ![1] = h]) = Len(q)
           /\ [q EXCEPT ![1] = h][1] = h
           /\ \A i \in 2..Len(q) : [q EXCEPT ![1] = h][i] = q[i]
BY ExceptSeq

\* Sending the head starts its timer and takes its number; the queue holds the
\* same packets.
LEMMA SendReliablyOutcome ==
    ASSUME NEW s \in RouterState, Waiting(s.queue)
    PROVE  LET t == SendReliably(s) IN
           /\ Keeps(s, t)
           /\ Timed(t.queue)
           /\ Len(t.queue) = Len(s.queue)
           /\ \A i \in 1..Len(s.queue) : /\ t.queue[i].kind = s.queue[i].kind
                                         /\ t.queue[i].seq = s.queue[i].seq
<1>1. CASE s.queue = <<>>
  BY <1>1 DEF SendReliably, Keeps, Timed, Waiting, RouterState
<1>2. CASE s.queue # <<>>
  <2> DEFINE p == Head(s.queue)
             u == OutCopy(s, p, "live")
             h == [p EXCEPT !.timer = TRUE, !.reserved = TRUE]
             q == [s.queue EXCEPT ![1] = h]
             n == IF p.reserved THEN s.seq ELSE Bump(s.seq)
  <2>1. p \in Held /\ p = s.queue[1]
    BY <1>2, HeadTailProperties DEF RouterState
  <2>2. Outputs(s, u)
    BY <2>1, OutCopyKeeps
  <2>3. h \in Held /\ h.kind = p.kind /\ h.seq = p.seq /\ h.timer
    BY <2>1 DEF Held
  <2>4. /\ q \in Seq(Held) /\ Len(q) = Len(s.queue) /\ q[1] = h
        /\ \A i \in 2..Len(s.queue) : q[i] = s.queue[i]
    <3> HIDE DEF h
    <3> QED BY <1>2, <2>3, HeadReplaced DEF RouterState
  <2>5. n \in 1..MaxSeq
    BY BumpType DEF RouterState
  <2>6. SendReliably(s) = [u EXCEPT !.queue = q, !.seq = n]
    BY <1>2, <2>1, <2>2 DEF SendReliably, Outputs, RouterState
  <2> HIDE DEF p, u, h, q, n
  <2>7. [u EXCEPT !.queue = q, !.seq = n] \in RouterState
    BY <2>2, <2>4, <2>5 DEF Outputs, RouterState
  <2>8. LET t == [u EXCEPT !.queue = q, !.seq = n] IN
          t.nbr = s.nbr /\ t.recv = s.recv /\ t.init = s.init /\ t.queue = q
    BY <2>2 DEF Outputs, RouterState
  <2>9. Timed(q)
    BY <2>3, <2>4 DEF Timed, Waiting
  <2>10. \A i \in 1..Len(s.queue) : q[i].kind = s.queue[i].kind
                                    /\ q[i].seq = s.queue[i].seq
    <3> TAKE i \in 1..Len(s.queue)
    <3>1. CASE i = 1
      BY <3>1, <2>1, <2>3, <2>4
    <3>2. CASE i # 1
      BY <3>2, <2>4 DEF RouterState
    <3> QED BY <3>1, <3>2
  <2> QED BY <2>4, <2>6, <2>7, <2>8, <2>9, <2>10 DEF Keeps
<1> QED BY <1>1, <1>2

\* Building a packet appends it, untimed, to the queue.
LEMMA EnqueueOutcome ==
    ASSUME NEW s \in RouterState, NEW kind \in Reliable, NEW number \in Nat,
           NEW reserved \in BOOLEAN
    PROVE  LET t == Enqueue(s, kind, number, reserved)
               h == [kind |-> kind, id |-> s.built + 1, seq |-> number,
                     count |-> 0, timer |-> FALSE, reserved |-> reserved] IN
           /\ Keeps(s, t) /\ t.seq = s.seq /\ t.obuf = s.obuf
           /\ h \in Held
           /\ t.queue = Append(s.queue, h)
           /\ Len(t.queue) = Len(s.queue) + 1
           /\ t.queue[Len(s.queue) + 1] = h
           /\ \A i \in 1..Len(s.queue) : t.queue[i] = s.queue[i]
<1> DEFINE h == [kind |-> kind, id |-> s.built + 1, seq |-> number,
                 count |-> 0, timer |-> FALSE, reserved |-> reserved]
           q == Append(s.queue, h)
<1>1. h \in Held /\ s.built + 1 \in Nat
  BY DEF Held, RouterState
<1>2. Enqueue(s, kind, number, reserved)
        = [s EXCEPT !.built = s.built + 1, !.queue = q]
  BY DEF Enqueue
<1> HIDE DEF h
<1>3. /\ q \in Seq(Held) /\ Len(q) = Len(s.queue) + 1
      /\ q[Len(s.queue) + 1] = h
      /\ \A i \in 1..Len(s.queue) : q[i] = s.queue[i]
  BY <1>1, AppendProperties DEF RouterState
<1> HIDE DEF q
<1>4. LET t == [s EXCEPT !.built = s.built + 1, !.queue = q]
      IN  Keeps(s, t) /\ t.queue = q /\ t.seq = s.seq /\ t.obuf = s.obuf
  BY <1>1, <1>3 DEF Keeps, RouterState
<1> QED BY <1>1, <1>2, <1>3, <1>4 DEF h, q

\* Placing a packet appends it; the queue that results is timed.
LEMMA PlaceOutcome ==
    ASSUME NEW s \in RouterState, Timed(s.queue), NEW kind \in Reliable,
           NEW number \in Nat, NEW reserved \in BOOLEAN
    PROVE  LET t == Place(s, kind, number, reserved) IN
           /\ Keeps(s, t)
           /\ Timed(t.queue)
           /\ Len(t.queue) = Len(s.queue) + 1
           /\ \A i \in 1..Len(s.queue) : /\ t.queue[i].kind = s.queue[i].kind
                                         /\ t.queue[i].seq = s.queue[i].seq
           /\ t.queue[Len(s.queue) + 1].kind = kind
           /\ t.queue[Len(s.queue) + 1].seq = number
<1> DEFINE t == Enqueue(s, kind, number, reserved)
           h == [kind |-> kind, id |-> s.built + 1, seq |-> number,
                 count |-> 0, timer |-> FALSE, reserved |-> reserved]
<1>1. /\ Keeps(s, t) /\ t \in RouterState
      /\ Len(t.queue) = Len(s.queue) + 1
      /\ t.queue[Len(s.queue) + 1] = h
      /\ \A i \in 1..Len(s.queue) : t.queue[i] = s.queue[i]
  BY EnqueueOutcome DEF Keeps
<1>2. h.kind = kind /\ h.seq = number /\ ~h.timer /\ h.count = 0
  OBVIOUS
<1>3. Place(s, kind, number, reserved)
        = IF Len(t.queue) = 1 THEN SendReliably(t) ELSE t
  BY DEF Place
<1>0. Len(s.queue) \in Nat
  BY DEF RouterState
<1> HIDE DEF t, h
<1>4. Waiting(t.queue)
  <2> SUFFICES ASSUME NEW i \in 2..Len(t.queue)
               PROVE  ~t.queue[i].timer /\ t.queue[i].count = 0
    BY DEF Waiting
  <2>1. CASE i = Len(s.queue) + 1
    BY <2>1, <1>1, <1>2
  <2>2. CASE i # Len(s.queue) + 1
    <3>1. i \in 2..Len(s.queue)
      BY <2>2, <1>0, <1>1
    <3> QED BY <3>1, <1>0, <1>1 DEF Timed, Waiting
  <2> QED BY <2>1, <2>2
<1>5. CASE Len(t.queue) = 1
  <2>1. SendReliably(t) = Place(s, kind, number, reserved)
    BY <1>3, <1>5
  <2>2. Len(s.queue) = 0
    BY <1>0, <1>1, <1>5
  <2>3. /\ Keeps(t, SendReliably(t)) /\ Timed(SendReliably(t).queue)
        /\ Len(SendReliably(t).queue) = 1
        /\ SendReliably(t).queue[1].kind = t.queue[1].kind
        /\ SendReliably(t).queue[1].seq = t.queue[1].seq
    BY <1>1, <1>4, <1>5, SendReliablyOutcome
  <2> QED BY <1>1, <1>2, <2>1, <2>2, <2>3 DEF Keeps
<1>6. CASE Len(t.queue) # 1
  <2>1. s.queue # <<>> /\ t.queue[1] = s.queue[1]
    BY <1>0, <1>1, <1>6, EmptySeq DEF RouterState
  <2>2. Timed(t.queue)
    BY <1>4, <2>1 DEF Timed
  <2> QED BY <1>1, <1>2, <1>3, <1>6, <2>2
<1> QED BY <1>5, <1>6

\* The INIT goes to the end of the queue and init_sequence_number is its
\* number.
LEMMA SendInitAppends ==
    ASSUME NEW s \in RouterState, Timed(s.queue)
    PROVE  LET t == SendInit(s) IN
           /\ t \in RouterState /\ t.nbr = s.nbr /\ t.recv = s.recv
           /\ t.init = s.seq /\ t.init # 0
           /\ Len(t.queue) = Len(s.queue) + 1
           /\ t.queue[Len(s.queue) + 1].kind = "init"
           /\ t.queue[Len(s.queue) + 1].seq = s.seq
           /\ Timed(t.queue)
<1> DEFINE u == Place(s, "init", s.seq, FALSE)
<1>1. s.seq \in Nat /\ s.seq # 0 /\ "init" \in Reliable /\ FALSE \in BOOLEAN
  BY DEF RouterState, Reliable, Update
<1>2. /\ Keeps(s, u) /\ Timed(u.queue) /\ Len(u.queue) = Len(s.queue) + 1
      /\ u.queue[Len(s.queue) + 1].kind = "init"
      /\ u.queue[Len(s.queue) + 1].seq = s.seq
  <2>1. "init" \in Reliable /\ s.seq \in Nat
    BY <1>1
  <2>2. Keeps(s, u)
    BY <2>1, PlaceOutcome
  <2>3. Timed(u.queue)
    BY <2>1, PlaceOutcome
  <2>4. Len(u.queue) = Len(s.queue) + 1
    BY <2>1, PlaceOutcome
  <2>5. u.queue[Len(s.queue) + 1].kind = "init"
    BY <2>1, PlaceOutcome
  <2>6. u.queue[Len(s.queue) + 1].seq = s.seq
    BY <2>1, PlaceOutcome
  <2> QED BY <2>2, <2>3, <2>4, <2>5, <2>6
<1>3. SendInit(s) = [u EXCEPT !.init = s.seq]
  BY DEF SendInit
<1> HIDE DEF u
<1> QED BY <1>1, <1>2, <1>3 DEF Keeps, RouterState

\* In an empty queue it is alone.
LEMMA SendInitAlone ==
    ASSUME NEW s \in RouterState, s.queue = <<>>
    PROVE  LET t == SendInit(s) IN
           /\ t \in RouterState /\ t.nbr = s.nbr /\ t.recv = s.recv
           /\ t.init # 0 /\ Len(t.queue) = 1
           /\ t.queue[1].kind = "init" /\ t.queue[1].seq = t.init
           /\ Timed(t.queue)
<1>1. Timed(s.queue) /\ Len(s.queue) + 1 = 1
  BY DEF Timed, Waiting
<1> DEFINE t == SendInit(s)
           n == Len(s.queue) + 1
<1>2. /\ t \in RouterState /\ t.nbr = s.nbr /\ t.recv = s.recv
      /\ t.init = s.seq /\ t.init # 0 /\ Len(t.queue) = n
      /\ t.queue[n].kind = "init" /\ t.queue[n].seq = s.seq /\ Timed(t.queue)
  BY <1>1, SendInitAppends
<1>3. n = 1
  BY <1>1
<1> HIDE DEF t, n
<1>4. /\ t.init # 0 /\ Len(t.queue) = 1 /\ t.queue[1].kind = "init"
      /\ t.queue[1].seq = t.init
  BY <1>2, <1>3
<1> QED BY <1>2, <1>4 DEF t

\* A packet for a neighbour that is up leaves it so.
LEMMA PlaceSound ==
    ASSUME NEW s \in RouterState, s.nbr = "up", s.init = 0, NoInit(s.queue),
           Timed(s.queue), NEW kind \in Reliable \ {"init"}, NEW number \in Nat,
           NEW reserved \in BOOLEAN
    PROVE  /\ Sound(Place(s, kind, number, reserved))
           /\ Place(s, kind, number, reserved).nbr = "up"
<1> DEFINE t == Place(s, kind, number, reserved)
<1>1. /\ Keeps(s, t) /\ Timed(t.queue)
      /\ Len(t.queue) = Len(s.queue) + 1
      /\ \A i \in 1..Len(s.queue) : t.queue[i].kind = s.queue[i].kind
      /\ t.queue[Len(s.queue) + 1].kind = kind
  BY PlaceOutcome
<1>2. Len(s.queue) \in Nat
  BY DEF RouterState
<1> HIDE DEF t
<1>3. NoInit(t.queue)
  <2> SUFFICES ASSUME NEW i \in 1..Len(t.queue) PROVE t.queue[i].kind # "init"
    BY DEF NoInit
  <2>1. CASE i = Len(s.queue) + 1
    BY <1>1, <2>1
  <2>2. CASE i # Len(s.queue) + 1
    <3>1. i \in 1..Len(s.queue)
      BY <1>1, <1>2, <2>2
    <3> QED BY <1>1, <3>1 DEF NoInit
  <2> QED BY <2>1, <2>2
<1>4. Sound(t) /\ t.nbr = "up"
  BY <1>1, <1>3 DEF Sound, Keeps
<1> QED BY <1>4 DEF t

\* Storing a sequence number disturbs nothing else.
LEMMA NumberStored ==
    ASSUME NEW s, Sound(s), NEW n \in 1..MaxSeq
    PROVE  LET t == [s EXCEPT !.seq = n] IN
           Sound(t) /\ t.nbr = s.nbr /\ t.queue = s.queue /\ t.init = s.init
BY DEF Sound, RouterState

\* The three packets of the work queue and the full table, for a neighbour
\* that is up.
LEMMA SendFullTableSound ==
    ASSUME NEW s \in RouterState, s.nbr = "up", s.init = 0, NoInit(s.queue),
           Timed(s.queue)
    PROVE  Sound(SendFullTable(s))
<1> DEFINE t == Place(s, "eot", s.seq, FALSE)
<1>1. "eot" \in Reliable \ {"init"} /\ s.seq \in Nat /\ s.seq \in 1..MaxSeq
  BY DEF RouterState, Reliable, Update
<1>2. Sound(t)
  BY <1>1, PlaceSound
<1>3. SendFullTable(s) = [t EXCEPT !.seq = s.seq]
  BY DEF SendFullTable
<1> HIDE DEF t
<1> QED BY <1>1, <1>2, <1>3, NumberStored

LEMMA SendChangesSound ==
    ASSUME NEW s, Sound(s), s.nbr = "up"
    PROVE  Sound(SendChanges(s))
<1> DEFINE t == Place(s, "update", s.seq, FALSE)
<1>1. /\ "update" \in Reliable \ {"init"} /\ s.seq \in Nat
      /\ s.seq \in 1..MaxSeq
  BY DEF Sound, RouterState, Reliable, Update
<1>2. Sound(t)
  BY <1>1, PlaceSound DEF Sound
<1>3. SendChanges(s) = [t EXCEPT !.seq = s.seq]
  BY DEF SendChanges
<1> HIDE DEF t
<1> QED BY <1>1, <1>2, <1>3, NumberStored

LEMMA SendToNeighborSound ==
    ASSUME NEW s, Sound(s), s.nbr = "up"
    PROVE  Sound(SendToNeighbor(s))
<1> DEFINE t == [s EXCEPT !.seq = Bump(s.seq)]
<1>1. "query" \in Reliable \ {"init"} /\ s.seq \in Nat
  BY DEF Sound, RouterState, Reliable, Update
<1>2. Sound(t) /\ t.nbr = "up"
  BY BumpType, NumberStored DEF Sound, RouterState
<1>3. SendToNeighbor(s) = Place(t, "query", s.seq, TRUE)
  BY DEF SendToNeighbor
<1> HIDE DEF t
<1>4. t \in RouterState /\ t.init = 0 /\ NoInit(t.queue) /\ Timed(t.queue)
  BY <1>2 DEF Sound
<1> QED BY <1>1, <1>2, <1>3, <1>4, PlaceSound

LEMMA SendToInterfaceSound ==
    ASSUME NEW s, Sound(s), s.nbr = "up"
    PROVE  Sound(SendToInterface(s))
<1> DEFINE v == [s EXCEPT !.seq = Bump(s.seq)]
           h == [kind |-> "query", id |-> v.built + 1, seq |-> s.seq,
                 count |-> 0, timer |-> FALSE, reserved |-> TRUE]
           t == Enqueue(v, "query", s.seq, TRUE)
           u == OutCopy(t, Head(t.queue), "null")
           k == [h EXCEPT !.timer = TRUE]
           q == [t.queue EXCEPT ![1] = k]
<1>1. "query" \in Reliable /\ s.seq \in Nat
  BY DEF Sound, RouterState, Reliable, Update
<1>2. Sound(v) /\ v.nbr = "up" /\ v.queue = s.queue /\ v \in RouterState
  BY BumpType, NumberStored DEF Sound, RouterState
<1> HIDE DEF v
<1>3. /\ Keeps(v, t) /\ h \in Held
      /\ Len(t.queue) = Len(v.queue) + 1
      /\ t.queue[Len(v.queue) + 1] = h
      /\ \A i \in 1..Len(v.queue) : t.queue[i] = v.queue[i]
  BY <1>1, <1>2, EnqueueOutcome
<1>4. h.kind = "query" /\ ~h.timer /\ h.count = 0
  OBVIOUS
<1>5. /\ k \in Held /\ k.kind = "query" /\ k.timer
  BY <1>3 DEF Held
<1>6. SendToInterface(s)
        = IF Len(t.queue) = 1 THEN [u EXCEPT !.queue[1].timer = TRUE] ELSE t
  BY DEF SendToInterface, v
<1> HIDE DEF h, t, k
<1>7. Len(v.queue) \in Nat /\ t \in RouterState /\ v.init = 0 /\ v.nbr = "up"
      /\ NoInit(v.queue) /\ Timed(v.queue)
  <2>1. t \in RouterState
    BY <1>3 DEF Keeps
  <2>2. v.init = 0 /\ NoInit(v.queue) /\ Timed(v.queue)
    BY <1>2 DEF Sound
  <2>3. Len(v.queue) \in Nat
    BY <1>2 DEF RouterState
  <2> QED BY <1>2, <2>1, <2>2, <2>3
<1>8. CASE Len(t.queue) = 1
  <2>1. t.queue # <<>> /\ Head(t.queue) = h /\ t.queue[1] = h
    BY <1>3, <1>7, <1>8, HeadTailProperties DEF RouterState
  <2>2. Outputs(t, u)
    BY <1>3, <1>7, <2>1, OutCopyKeeps
  <2>3. q \in Seq(Held) /\ Len(q) = 1 /\ q[1] = k
    BY <1>5, <1>7, <1>8, <2>1, HeadReplaced DEF RouterState
  <2>4. [u EXCEPT !.queue[1].timer = TRUE] = [u EXCEPT !.queue = q]
    BY <2>1, <2>2 DEF Outputs, RouterState, k
  <2> HIDE DEF q, u
  <2>5. LET w == [u EXCEPT !.queue = q] IN
          /\ w \in RouterState /\ w.nbr = "up" /\ w.init = 0 /\ w.queue = q
    BY <1>3, <1>7, <2>2, <2>3 DEF Outputs, Keeps, RouterState
  <2>6. NoInit(q) /\ Timed(q)
    BY <1>5, <2>3 DEF NoInit, Timed, Waiting
  <2> QED BY <1>6, <1>8, <2>4, <2>5, <2>6 DEF Sound
<1>9. CASE Len(t.queue) # 1
  <2>1. v.queue # <<>> /\ t.queue[1] = v.queue[1]
    BY <1>3, <1>7, <1>9, EmptySeq DEF RouterState
  <2>2. NoInit(t.queue)
    BY <1>3, <1>4, <1>7 DEF NoInit
  <2>3. Timed(t.queue)
    BY <1>3, <1>4, <1>7, <2>1 DEF Timed, Waiting
  <2>4. t.nbr = "up" /\ t.init = 0
    BY <1>3, <1>7 DEF Keeps
  <2> QED BY <1>6, <1>7, <1>9, <2>2, <2>3, <2>4 DEF Sound
<1> QED BY <1>8, <1>9

-----------------------------------------------------------------------------
(* The neighbour object.                                                   *)

\* More output disturbs no adjacency.
LEMMA OutputsSound ==
    ASSUME NEW s, Sound(s), NEW t, Outputs(s, t)
    PROVE  Sound(t)
BY DEF Sound, Outputs

LEMMA OutSound ==
    ASSUME NEW s, Sound(s), NEW kind \in Hello, NEW ack \in Nat
    PROVE  Sound(Out(s, kind, ack)) /\ Out(s, kind, ack).nbr = s.nbr
<1>1. Outputs(s, Out(s, kind, ack))
  BY OutKeeps DEF Sound
<1> QED BY <1>1, OutputsSound DEF Outputs

\* Neither does the number of the last packet heard.
LEMMA HeardSound ==
    ASSUME NEW s, Sound(s), s.nbr # "none", NEW n \in Nat
    PROVE  LET t == [s EXCEPT !.recv = n] IN Sound(t) /\ t.nbr = s.nbr
BY DEF Sound, RouterState

\* An adjacency that ends leaves nothing behind.
LEMMA StateDownOutcome ==
    ASSUME NEW s \in RouterState
    PROVE  LET t == StateDown(s) IN
           /\ t \in RouterState /\ t.queue = <<>> /\ t.recv = 0 /\ t.init = 0
           /\ t.obuf = s.obuf
<1>1. <<>> \in Seq(Held) /\ "down" \in NbrState
  BY EmptySeq DEF NbrState
<1> QED BY <1>1 DEF StateDown, RouterState

LEMMA DeleteSound ==
    ASSUME NEW s \in RouterState
    PROVE  Sound(Delete(s))
<1> DEFINE t == StateDown(s)
           o == [i \in DOMAIN s.obuf |->
                    IF s.obuf[i].nbr = "live"
                    THEN [s.obuf[i] EXCEPT !.nbr = "freed"] ELSE s.obuf[i]]
           u == [t EXCEPT !.nbr = "none", !.obuf = o]
<1>1. /\ t \in RouterState /\ t.queue = <<>> /\ t.recv = 0 /\ t.init = 0
      /\ t.obuf = s.obuf
  BY StateDownOutcome
<1>2. o \in Seq(Output)
  <2>1. Len(s.obuf) \in Nat /\ DOMAIN s.obuf = 1..Len(s.obuf)
    BY LenProperties DEF RouterState
  <2>2. \A i \in 1..Len(s.obuf) : o[i] \in Output
    <3> TAKE i \in 1..Len(s.obuf)
    <3>1. s.obuf[i] \in Output
      BY ElementOfSeq DEF RouterState
    <3>2. [s.obuf[i] EXCEPT !.nbr = "freed"] \in Output
      BY <3>1 DEF Output
    <3> QED BY <2>1, <3>1, <3>2
  <2>3. \A i \in 1..Len(s.obuf) :
            (IF s.obuf[i].nbr = "live" THEN [s.obuf[i] EXCEPT !.nbr = "freed"]
             ELSE s.obuf[i]) \in Output
    BY <2>1, <2>2
  <2>4. o = [i \in 1..Len(s.obuf) |->
                IF s.obuf[i].nbr = "live"
                THEN [s.obuf[i] EXCEPT !.nbr = "freed"] ELSE s.obuf[i]]
    BY <2>1
  <2> HIDE DEF o
  <2>5. o \in [1..Len(s.obuf) -> Output]
    BY <2>3, <2>4
  <2> QED BY <2>1, <2>5, SeqDef
<1>3. Delete(s) = u
  BY <1>1 DEF Delete
<1> HIDE DEF t, o
<1>4. /\ u \in RouterState /\ u.nbr = "none" /\ u.queue = <<>>
      /\ u.recv = 0 /\ u.init = 0
  BY <1>1, <1>2 DEF RouterState, NbrState
<1> HIDE DEF u
<1>5. Timed(u.queue) /\ NoInit(u.queue)
  BY <1>4 DEF Timed, Waiting, NoInit
<1> QED BY <1>3, <1>4, <1>5 DEF Sound

\* The state a greeted neighbour begins in, whatever number was heard.
LEMMA PendingSound ==
    ASSUME NEW s \in RouterState, s.queue = <<>>
    PROVE  LET t == [SendInit(s) EXCEPT !.nbr = "pending"] IN
           Sound(t) /\ t.nbr = "pending"
<1> DEFINE u == SendInit(s)
           t == [u EXCEPT !.nbr = "pending"]
<1>1. /\ u \in RouterState /\ u.init # 0 /\ Len(u.queue) = 1
      /\ u.queue[1].kind = "init" /\ u.queue[1].seq = u.init /\ Timed(u.queue)
  BY SendInitAlone
<1> HIDE DEF u
<1>2. /\ t \in RouterState /\ t.nbr = "pending" /\ t.init = u.init
      /\ t.queue = u.queue
  BY <1>1 DEF RouterState, NbrState
<1> HIDE DEF t
<1>3. Sound(t)
  BY <1>1, <1>2 DEF Sound
<1> QED BY <1>2, <1>3 DEF t, u

LEMMA HelloReceiveSound ==
    ASSUME NEW s, Sound(s), NEW kind \in Hello
    PROVE  Sound(HelloReceive(s, kind))
<1> DEFINE u == Out(s, "hello", 0)
           known == IF s.nbr = "none"
                    THEN [SendInit(u) EXCEPT !.nbr = "pending"] ELSE s
<1>1. Outputs(s, u) /\ u \in RouterState /\ u.queue = s.queue
  BY OutKeeps DEF Sound, Outputs, Hello
<1> HIDE DEF u
<1>2. CASE s.nbr = "none"
  <2>1. u.queue = <<>>
    BY <1>1, <1>2 DEF Sound
  <2>2. Sound([SendInit(u) EXCEPT !.nbr = "pending"])
    BY <1>1, <2>1, PendingSound
  <2> QED BY <1>2, <2>2, DeleteSound DEF HelloReceive, Sound, u
<1>3. CASE s.nbr # "none"
  <2>1. Sound(Delete(s))
    BY DeleteSound DEF Sound
  <2> QED BY <1>3, <2>1 DEF HelloReceive
<1> QED BY <1>2, <1>3

\* The queue without its head: what is left was not timed.
LEMMA TailWaits ==
    ASSUME NEW q \in Seq(Held), q # <<>>, Timed(q)
    PROVE  /\ Tail(q) \in Seq(Held) /\ Waiting(Tail(q))
           /\ Len(Tail(q)) = Len(q) - 1
           /\ \A i \in 1..Len(Tail(q)) : Tail(q)[i] = q[i + 1]
<1>1. /\ Tail(q) \in Seq(Held) /\ Len(Tail(q)) = Len(q) - 1
      /\ \A i \in 1..Len(Tail(q)) : Tail(q)[i] = q[i + 1]
  BY HeadTailProperties
<1>2. Len(q) \in Nat
  OBVIOUS
<1>3. Waiting(Tail(q))
  <2> SUFFICES ASSUME NEW i \in 2..Len(Tail(q))
               PROVE  ~Tail(q)[i].timer /\ Tail(q)[i].count = 0
    BY DEF Waiting
  <2>1. i + 1 \in 2..Len(q) /\ Tail(q)[i] = q[i + 1]
    BY <1>1, <1>2
  <2> QED BY <2>1 DEF Timed, Waiting
<1> QED BY <1>1, <1>3

\* An ACK releases the head and sends the next packet, or it completes the
\* adjacency and sends the table.
LEMMA AckReceiveSound ==
    ASSUME NEW s, Sound(s), s.nbr # "none", NEW p \in Sent
    PROVE  Sound(AckReceive(s, p)) /\ AckReceive(s, p).nbr # "none"
<1> DEFINE t == [s EXCEPT !.queue = Tail(s.queue)]
           u == [t EXCEPT !.nbr = "up", !.init = 0, !.recv = p.seq]
<1>1. CASE p.ack = 0 \/ s.queue = <<>> \/ Head(s.queue).seq # p.ack
  BY <1>1 DEF AckReceive
<1>2. CASE ~(p.ack = 0 \/ s.queue = <<>> \/ Head(s.queue).seq # p.ack)
  <2>1. /\ s \in RouterState /\ s.queue \in Seq(Held) /\ s.queue # <<>>
        /\ Timed(s.queue) /\ Len(s.queue) \in Nat
    BY <1>2 DEF Sound, RouterState
  <2>2. /\ Tail(s.queue) \in Seq(Held) /\ Waiting(Tail(s.queue))
        /\ Len(Tail(s.queue)) = Len(s.queue) - 1
        /\ \A i \in 1..Len(Tail(s.queue)) : Tail(s.queue)[i] = s.queue[i + 1]
    BY <2>1, TailWaits
  <2>3. /\ t \in RouterState /\ t.queue = Tail(s.queue) /\ t.nbr = s.nbr
        /\ t.init = s.init /\ t.recv = s.recv
    BY <2>1, <2>2 DEF RouterState
  <2>4. CASE s.nbr = "pending" /\ p.ack = s.init
    <3>1. AckReceive(s, p) = SendFullTable(u)
      BY <1>2, <2>4 DEF AckReceive
    <3>2. Len(Tail(s.queue)) = 0
      BY <2>2, <2>4 DEF Sound
    <3>3. Timed(Tail(s.queue)) /\ NoInit(Tail(s.queue))
      BY <2>2, <3>2 DEF Timed, Waiting, NoInit
    <3>4. /\ u \in RouterState /\ u.nbr = "up" /\ u.init = 0
          /\ u.queue = Tail(s.queue) /\ u.seq = s.seq
      BY <2>1, <2>2 DEF RouterState, NbrState, Sent
    <3> HIDE DEF t, u
    <3>5. Sound(SendFullTable(u))
      BY <3>3, <3>4, SendFullTableSound
    <3>6. SendFullTable(u).nbr = "up"
      <4> DEFINE w == Place(u, "eot", u.seq, FALSE)
      <4>1. "eot" \in Reliable \ {"init"} /\ u.seq \in Nat
        BY <3>4 DEF RouterState, Reliable, Update
      <4>2. w.nbr = "up" /\ Sound(w)
        BY <3>3, <3>4, <4>1, PlaceSound
      <4>3. SendFullTable(u) = [w EXCEPT !.seq = u.seq]
        BY DEF SendFullTable
      <4> HIDE DEF w
      <4> QED BY <4>2, <4>3 DEF Sound, RouterState
    <3> QED BY <3>1, <3>5, <3>6
  <2>5. CASE ~(s.nbr = "pending" /\ p.ack = s.init)
    <3>1. AckReceive(s, p) = SendReliably(t)
      BY <1>2, <2>5 DEF AckReceive
    <3>2. Head(s.queue) = s.queue[1] /\ Head(s.queue).seq = p.ack
      BY <1>2, <2>1, HeadTailProperties
    <3>3. s.nbr = "up" /\ s.init = 0
      BY <2>5, <3>2 DEF Sound, RouterState, NbrState
    <3>4. NoInit(Tail(s.queue))
      BY <2>1, <2>2, <3>3 DEF Sound, NoInit
    <3> HIDE DEF t
    <3> DEFINE w == SendReliably(t)
    <3>5. /\ Keeps(t, w) /\ Timed(w.queue)
          /\ Len(w.queue) = Len(t.queue)
          /\ \A i \in 1..Len(t.queue) : w.queue[i].kind = t.queue[i].kind
      BY <2>2, <2>3, SendReliablyOutcome
    <3> HIDE DEF w
    <3>6. NoInit(w.queue)
      BY <2>3, <3>4, <3>5 DEF NoInit
    <3>7. w.nbr = "up" /\ w.init = 0 /\ w \in RouterState
      BY <2>3, <3>3, <3>5 DEF Keeps
    <3>8. Sound(w)
      BY <3>5, <3>6, <3>7 DEF Sound
    <3> QED BY <3>1, <3>7, <3>8 DEF w
  <2> QED BY <2>4, <2>5
<1> QED BY <1>1, <1>2

LEMMA InitReceiveSound ==
    ASSUME NEW s, Sound(s), s.nbr # "none", NEW p \in Sent
    PROVE  Sound(InitReceive(s, p)) /\ InitReceive(s, p).nbr # "none"
<1>1. ~(s.nbr = "pending" /\ s.init = 0)
  BY DEF Sound
<1>2. CASE s.nbr = "up"
  <2> DEFINE d == StateDown(s)
             v == [d EXCEPT !.nbr = "pending", !.recv = p.seq]
             t == SendInit(v)
  <2>1. d \in RouterState /\ d.queue = <<>>
    BY StateDownOutcome DEF Sound
  <2> HIDE DEF d
  <2>2. v \in RouterState /\ v.queue = <<>> /\ v.nbr = "pending"
    BY <2>1 DEF RouterState, NbrState, Sent
  <2> HIDE DEF v
  <2>3. /\ t \in RouterState /\ t.nbr = v.nbr /\ t.init # 0
        /\ Len(t.queue) = 1 /\ t.queue[1].kind = "init"
        /\ t.queue[1].seq = t.init /\ Timed(t.queue)
    BY <2>2, SendInitAlone
  <2>4. InitReceive(s, p) = t
    BY <1>2 DEF InitReceive, v, d
  <2> HIDE DEF t
  <2>5. Sound(t) /\ t.nbr # "none"
    BY <2>2, <2>3 DEF Sound
  <2> QED BY <2>4, <2>5
<1>3. CASE s.nbr # "up"
  <2>1. InitReceive(s, p) = s
    BY <1>1, <1>3 DEF InitReceive
  <2> QED BY <2>1
<1> QED BY <1>2, <1>3

LEMMA UpdateReceiveSound ==
    ASSUME NEW s, Sound(s), s.nbr # "none", NEW p \in Sent
    PROVE  Sound(UpdateReceive(s, p))
<1> DEFINE t == [s EXCEPT !.recv = p.seq]
           u == IF p.kind = "init" /\ s.recv # p.seq THEN InitReceive(t, p) ELSE t
<1>1. Sound(t) /\ t.nbr # "none"
  BY HeardSound DEF Sent
<1> HIDE DEF t
<1>2. Sound(u)
  BY <1>1, InitReceiveSound
<1>3. UpdateReceive(s, p)
        = IF u.nbr = "up" /\ p.kind # "init" THEN Out(u, "hello", u.recv) ELSE u
  BY DEF UpdateReceive, t
<1> HIDE DEF u
<1>4. u.recv \in Nat /\ "hello" \in Hello
  BY <1>2 DEF Sound, RouterState, Hello
<1>5. Sound(Out(u, "hello", u.recv))
  BY <1>2, <1>4, OutSound
<1> QED BY <1>2, <1>3, <1>5

LEMMA QueryReceiveSound ==
    ASSUME NEW s, Sound(s), s.nbr # "none", NEW p \in Sent
    PROVE  Sound(QueryReceive(s, p))
<1> DEFINE t == [s EXCEPT !.recv = p.seq]
<1>1. Sound(t)
  BY HeardSound DEF Sent
<1>2. QueryReceive(s, p) = Out(t, "hello", p.seq)
  BY DEF QueryReceive
<1> HIDE DEF t
<1>3. p.seq \in Nat /\ "hello" \in Hello
  BY DEF Sent, Hello
<1> QED BY <1>1, <1>2, <1>3, OutSound

\* Whatever packet is read, the state stays sound.
LEMMA PacketReadSound ==
    ASSUME NEW s, Sound(s), NEW p \in Sent
    PROVE  Sound(PacketRead(s, p))
<1>1. /\ p.kind \in Hello \cup Update \cup {"query"}
      /\ Hello \cap Reliable = {} /\ "query" \notin Update
      /\ Reliable = Update \cup {"query"}
  BY DEF Sent, Hello, Reliable, Update
<1>2. CASE p.kind \in Hello
  BY <1>1, <1>2, HelloReceiveSound DEF PacketRead
<1>3. CASE p.kind \in Reliable /\ s.nbr = "none"
  BY <1>1, <1>3 DEF PacketRead
<1>4. CASE p.kind \in Update /\ s.nbr # "none"
  <2>1. Sound(UpdateReceive(AckReceive(s, p), p))
    BY <1>4, AckReceiveSound, UpdateReceiveSound
  <2> QED BY <1>1, <1>4, <2>1 DEF PacketRead
<1>5. CASE p.kind = "query" /\ s.nbr # "none"
  <2>1. Sound(QueryReceive(AckReceive(s, p), p))
    BY <1>5, AckReceiveSound, QueryReceiveSound
  <2> QED BY <1>1, <1>5, <2>1 DEF PacketRead
<1> QED BY <1>1, <1>2, <1>3, <1>4, <1>5

-----------------------------------------------------------------------------
(* The steps.                                                              *)

LEMMA PeerType == ASSUME NEW r \in Router PROVE Peer(r) \in Router
<1>1. \E p \in Router : p # r
  <2> SUFFICES ASSUME \A p \in Router : p = r PROVE FALSE
    OBVIOUS
  <2>1. Router = {r}
    OBVIOUS
  <2>2. Cardinality({r}) = 1
    BY FS_Singleton
  <2> QED BY <2>1, <2>2, RouterAssumption
<1> QED BY <1>1 DEF Peer

\* The inductive invariant: the state of each router is sound, the rest typed.
IInv ==
    /\ rt \in [Router -> RouterState]
    /\ \A r \in Router : Sound(rt[r])
    /\ wire \in [Router -> Seq(Sent)]
    /\ heard \in [Router -> Nat]
    /\ losses \in 0..MaxLosses /\ failures \in 0..MaxFailures
    /\ fault \in {"none", "freed_neighbor"}

\* A daemon that has just started, which may have built packets before.
LEMMA StartedSound ==
    ASSUME NEW n \in Nat
    PROVE  Sound([Started EXCEPT !.built = n])
<1> DEFINE s == [Started EXCEPT !.built = n]
<1>1. <<>> \in Seq(Held) /\ <<>> \in Seq(Output)
  BY EmptySeq
<1>2. s = [nbr |-> "none", seq |-> 1, recv |-> 0, init |-> 0, queue |-> <<>>,
           obuf |-> <<>>, built |-> n]
  BY DEF Started
<1>3. 1 \in 1..MaxSeq /\ "none" \in NbrState
  BY TransportAssumption DEF NbrState
<1>4. s \in RouterState
  <2> DEFINE e == <<>>
             m == 1..MaxSeq
  <2>1. e \in Seq(Held) /\ e \in Seq(Output) /\ 1 \in m
    BY <1>1, <1>3
  <2>2. s = [nbr |-> "none", seq |-> 1, recv |-> 0, init |-> 0, queue |-> e,
             obuf |-> e, built |-> n]
    BY <1>2
  <2>3. RouterState = [nbr : NbrState, seq : m, recv : Nat, init : Nat,
                       queue : Seq(Held), obuf : Seq(Output), built : Nat]
    BY DEF RouterState
  <2> HIDE DEF e, m, s
  <2> QED BY <1>3, <2>1, <2>2, <2>3
<1>5. s.queue = <<>> /\ s.nbr = "none" /\ s.init = 0 /\ s.recv = 0
  BY <1>2
<1> HIDE DEF s
<1>6. Timed(s.queue) /\ NoInit(s.queue)
  BY <1>5 DEF Timed, Waiting, NoInit
<1>7. Sound(s)
  BY <1>4, <1>5, <1>6 DEF Sound
<1> QED BY <1>7 DEF s

LEMMA InitSound == Init => IInv
<1>1. Sound(Started) /\ Started \in RouterState
  <2>1. Started = [Started EXCEPT !.built = 0]
    BY DEF Started
  <2>2. Sound(Started)
    BY <2>1, StartedSound
  <2> QED BY <2>2 DEF Sound
<1>2. <<>> \in Seq(Sent)
  BY EmptySeq
<1> QED BY <1>1, <1>2, TransportAssumption DEF Init, IInv

\* A step that only gives one router a sound state.
LEMMA BecomesSound ==
    ASSUME IInv, NEW r \in Router, NEW s, Sound(s), Becomes(r, s)
    PROVE  rt' \in [Router -> RouterState] /\ \A x \in Router : Sound(rt'[x])
BY DEF IInv, Becomes, Sound

LEMMA WriteSound == ASSUME IInv, NEW r \in Router, Write(r) PROVE IInv'
<1> DEFINE o == rt[r].obuf
           p == Head(o)
           m == [kind |-> p.kind, id |-> p.id, seq |-> p.seq,
                 ack |-> IF p.nbr = "live" THEN rt[r].recv ELSE p.ack]
           s == [rt[r] EXCEPT !.obuf = Tail(o)]
<1>1. Sound(rt[r]) /\ o \in Seq(Output) /\ o # <<>> /\ rt[r].recv \in Nat
  BY DEF IInv, Write, Sound, RouterState
<1>2. p \in Output /\ Tail(o) \in Seq(Output)
  BY <1>1, HeadTailProperties
<1>3. m \in Sent
  BY <1>1, <1>2 DEF Output, Sent
<1>4. Sound(s)
  <2>1. Outputs(rt[r], s)
    BY <1>1, <1>2 DEF Outputs, Sound, RouterState
  <2> QED BY <1>1, <2>1, OutputsSound
<1>5. wire[r] \in Seq(Sent) /\ Append(wire[r], m) \in Seq(Sent)
  BY <1>3, AppendProperties DEF IInv
<1>6. CASE p.nbr = "freed"
  BY <1>6 DEF Write, IInv
<1>7. CASE p.nbr # "freed"
  <2>1. /\ wire' = [wire EXCEPT ![r] = Append(wire[r], m)] /\ Becomes(r, s)
        /\ UNCHANGED <<heard, losses, failures, fault>>
    BY <1>7 DEF Write
  <2> HIDE DEF m, s
  <2>2. rt' \in [Router -> RouterState] /\ \A x \in Router : Sound(rt'[x])
    BY <1>4, <2>1, BecomesSound
  <2> QED BY <1>5, <2>1, <2>2 DEF IInv
<1> QED BY <1>6, <1>7

LEMMA ReadSound == ASSUME IInv, NEW r \in Router, Read(r) PROVE IInv'
<1> DEFINE p == Head(wire[Peer(r)])
           s == PacketRead(rt[r], p)
<1>1. Peer(r) \in Router
  BY PeerType
<1>2. p \in Sent /\ Tail(wire[Peer(r)]) \in Seq(Sent)
  BY <1>1, HeadTailProperties DEF IInv, Read
<1>3. Sound(s)
  BY <1>2, PacketReadSound DEF IInv
<1>4. Becomes(r, s)
  BY DEF Read
<1>5. heard' \in [Router -> Nat]
  BY <1>2 DEF IInv, Read, Sent
<1>6. wire' \in [Router -> Seq(Sent)]
  BY <1>1, <1>2 DEF IInv, Read
<1>7. UNCHANGED <<losses, failures, fault>>
  BY DEF Read
<1> HIDE DEF p, s
<1>8. rt' \in [Router -> RouterState] /\ \A x \in Router : Sound(rt'[x])
  BY <1>3, <1>4, BecomesSound
<1> QED BY <1>5, <1>6, <1>7, <1>8 DEF IInv

LEMMA LoseSound == ASSUME IInv, NEW r \in Router, Lose(r) PROVE IInv'
<1>1. Tail(wire[r]) \in Seq(Sent)
  BY HeadTailProperties DEF IInv, Lose
<1>2. losses + 1 \in 0..MaxLosses
  BY TransportAssumption DEF IInv, Lose
<1> QED BY <1>1, <1>2 DEF IInv, Lose

LEMMA HelloTimerSound == ASSUME IInv, NEW r \in Router, HelloTimer(r) PROVE IInv'
<1>1. Sound(Out(rt[r], "hello", 0))
  BY OutSound DEF IInv, Hello
<1>2. rt' \in [Router -> RouterState] /\ \A x \in Router : Sound(rt'[x])
  BY <1>1, BecomesSound DEF HelloTimer
<1> QED BY <1>2 DEF IInv, HelloTimer

LEMMA RetransTimerSound ==
    ASSUME IInv, NEW r \in Router, RetransTimer(r)
    PROVE  IInv'
<1> DEFINE s == rt[r]
           p == Head(s.queue)
           u == OutCopy(s, p, "live")
           h == [p EXCEPT !.count = p.count + 1,
                          !.timer = p.count + 1 # RetransMax]
           q == [s.queue EXCEPT ![1] = h]
           t == [u EXCEPT !.queue = q]
<1>1. Sound(s) /\ s \in RouterState /\ s.queue \in Seq(Held) /\ s.queue # <<>>
  BY DEF IInv, RetransTimer, Sound, RouterState
<1>2. p \in Held /\ p = s.queue[1]
  BY <1>1, HeadTailProperties
<1>3. /\ h \in Held /\ h.kind = p.kind /\ h.seq = p.seq
      /\ h.timer \/ h.count = RetransMax
  <2> DEFINE c == p.count + 1
             b == c # RetransMax
  <2>1. c \in Nat /\ b \in BOOLEAN /\ (b \/ c = RetransMax)
    BY <1>2 DEF Held
  <2> HIDE DEF p, b, c
  <2>2. LET g == [p EXCEPT !.count = c, !.timer = b] IN
          /\ g \in Held /\ g.kind = p.kind /\ g.seq = p.seq
          /\ g.timer = b /\ g.count = c
    BY <1>2, <2>1 DEF Held
  <2> QED BY <2>1, <2>2 DEF b, c
<1>4. Outputs(s, u)
  BY <1>1, <1>2, OutCopyKeeps
<1>5. Becomes(r, t)
  <2>1. u.queue = s.queue /\ u \in RouterState
    BY <1>4 DEF Outputs
  <2>2. Becomes(r, [u EXCEPT !.queue[1].count = @ + 1,
                            !.queue[1].timer = p.count + 1 # RetransMax])
    BY DEF RetransTimer
  <2>3. [u EXCEPT !.queue[1].count = @ + 1,
                  !.queue[1].timer = p.count + 1 # RetransMax] = t
    <3> HIDE DEF u
    <3>1. s.queue[1] = p /\ 1 \in DOMAIN s.queue
      BY <1>1, <1>2, EmptySeq
    <3> QED BY <1>1, <1>2, <2>1, <3>1 DEF RouterState, Held
  <2> QED BY <2>2, <2>3
<1> HIDE DEF s, p, u, h
<1>6. /\ q \in Seq(Held) /\ Len(q) = Len(s.queue) /\ q[1] = h
      /\ \A i \in 2..Len(s.queue) : q[i] = s.queue[i]
  BY <1>1, <1>3, HeadReplaced
<1> HIDE DEF q
<1>7. /\ t \in RouterState /\ t.nbr = s.nbr /\ t.init = s.init
      /\ t.recv = s.recv /\ t.queue = q
  BY <1>4, <1>6 DEF Outputs, RouterState
<1> HIDE DEF t
<1>8. Timed(q)
  BY <1>1, <1>3, <1>6 DEF Sound, Timed, Waiting
<1>9. \A i \in 1..Len(q) : q[i].kind = s.queue[i].kind
  <2> TAKE i \in 1..Len(q)
  <2>1. CASE i = 1
    BY <2>1, <1>2, <1>3, <1>6
  <2>2. CASE i # 1
    <3>1. i \in 2..Len(s.queue)
      BY <2>2, <1>1, <1>6
    <3> QED BY <3>1, <1>6
  <2> QED BY <2>1, <2>2
<1>10. NoInit(s.queue) => NoInit(q)
  BY <1>6, <1>9 DEF NoInit
<1>11. s.nbr # "none"
  BY <1>1 DEF Sound
<1>12. s.nbr = "pending" =>
          Len(q) = 1 /\ q[1].kind = "init" /\ q[1].seq = s.init
  BY <1>1, <1>2, <1>3, <1>6 DEF Sound
<1>13. Sound(t)
  BY <1>1, <1>7, <1>8, <1>10, <1>11, <1>12 DEF Sound
<1>14. rt' \in [Router -> RouterState] /\ \A x \in Router : Sound(rt'[x])
  BY <1>5, <1>13, BecomesSound
<1> QED BY <1>14 DEF IInv, RetransTimer

LEMMA SendRoutesSound ==
    ASSUME IInv, NEW r \in Router, NEW s,
           Sound(rt[r]) /\ rt[r].nbr = "up" => Sound(s), SendRoutes(r, s)
    PROVE  IInv'
<1>1. Sound(s)
  BY DEF IInv, SendRoutes
<1>2. rt' \in [Router -> RouterState] /\ \A x \in Router : Sound(rt'[x])
  BY <1>1, BecomesSound DEF SendRoutes
<1> QED BY <1>2 DEF IInv, SendRoutes

LEMMA FailsSound ==
    ASSUME IInv, NEW r \in Router, NEW s, Sound(s), Fails(r, s)
    PROVE  IInv'
<1>1. rt' \in [Router -> RouterState] /\ \A x \in Router : Sound(rt'[x])
  BY BecomesSound DEF Fails
<1>2. failures' \in 0..MaxFailures
  BY TransportAssumption DEF IInv, Fails
<1> QED BY <1>1, <1>2 DEF IInv, Fails

LEMMA RestartSound == ASSUME IInv, NEW r \in Router, Restart(r) PROVE IInv'
<1>1. rt[r].built \in Nat
  BY DEF IInv, RouterState
<1>2. Sound([Started EXCEPT !.built = rt[r].built])
  BY <1>1, StartedSound
<1> QED BY <1>2, FailsSound DEF Restart

LEMMA StepSound == IInv /\ [Next]_vars => IInv'
<1> SUFFICES ASSUME IInv, [Next]_vars PROVE IInv'
  OBVIOUS
<1>1. CASE UNCHANGED vars
  BY <1>1 DEF vars, IInv
<1>2. ASSUME NEW r \in Router,
             \/ Write(r) \/ Read(r) \/ Lose(r) \/ HelloTimer(r) \/ RetransTimer(r)
             \/ SendUpdate(r) \/ SendReply(r) \/ SendQuery(r)
             \/ HoldTimer(r) \/ ClearNeighbor(r) \/ Restart(r)
      PROVE  IInv'
  <2>0. Sound(rt[r]) /\ rt[r] \in RouterState
    BY DEF IInv
  <2>1. CASE Write(r)
    BY <2>1, WriteSound
  <2>2. CASE Read(r)
    BY <2>2, ReadSound
  <2>3. CASE Lose(r)
    BY <2>3, LoseSound
  <2>4. CASE HelloTimer(r)
    BY <2>4, HelloTimerSound
  <2>5. CASE RetransTimer(r)
    BY <2>5, RetransTimerSound
  <2>6. CASE SendUpdate(r)
    BY <2>6, SendChangesSound, SendRoutesSound DEF SendUpdate
  <2>7. CASE SendReply(r)
    BY <2>7, SendToNeighborSound, SendRoutesSound DEF SendReply
  <2>8. CASE SendQuery(r)
    BY <2>8, SendToInterfaceSound, SendRoutesSound DEF SendQuery
  <2>9. CASE HoldTimer(r)
    BY <2>0, <2>9, DeleteSound, FailsSound DEF HoldTimer
  <2>10. CASE ClearNeighbor(r)
    <3>1. Out(rt[r], "bye", 0) \in RouterState
      BY <2>0, OutKeeps DEF Hello, Outputs
    <3>2. Sound(Delete(Out(rt[r], "bye", 0)))
      BY <3>1, DeleteSound
    <3> QED BY <2>10, <3>2, FailsSound DEF ClearNeighbor
  <2>11. CASE Restart(r)
    BY <2>11, RestartSound
  <2> QED BY <1>2, <2>1, <2>2, <2>3, <2>4, <2>5, <2>6, <2>7, <2>8, <2>9, <2>10,
             <2>11
<1> QED BY <1>1, <1>2 DEF Next

LEMMA AlwaysSound == Spec => []IInv
BY InitSound, StepSound, PTL DEF Spec

-----------------------------------------------------------------------------
(* The theorems.                                                           *)

\* Every variable keeps its type, whatever is lost, repeated or restarted; in
\* particular no packet is numbered 0 (sequence_number++ in eigrp_packet.c).
THEOREM TypeCorrect == Spec => []TypeOK
<1>1. IInv => TypeOK
  BY DEF IInv, TypeOK
<1> QED BY <1>1, AlwaysSound, PTL

\* The head of a retrans_queue is timed or given up, and nothing behind it is
\* (eigrp_packet_send_reliably, eigrp_packet_unack_retrans): for every number
\* of retransmissions, losses and failures, a queue never waits for nothing.
THEOREM HeadAlwaysTimed == Spec => []HeadTimed
<1>1. IInv => HeadTimed
  <2> SUFFICES ASSUME IInv, NEW r \in Router
               PROVE  LET q == rt[r].queue IN
                      /\ q # <<>> => Head(q).timer \/ Head(q).count = RetransMax
                      /\ \A i \in 2..Len(q) : ~q[i].timer /\ q[i].count = 0
    BY DEF HeadTimed
  <2>1. Timed(rt[r].queue) /\ rt[r].queue \in Seq(Held)
    BY DEF IInv, Sound, RouterState
  <2>2. rt[r].queue # <<>> => Head(rt[r].queue) = rt[r].queue[1]
    BY <2>1, HeadTailProperties
  <2> QED BY <2>1, <2>2 DEF Timed, Waiting
<1> QED BY <1>1, AlwaysSound, PTL

\* A neighbour is PENDING exactly while its INIT, and nothing else, is queued
\* under the number init_sequence_number remembers (eigrp_update_send_init,
\* eigrp_packet_ack, eigrp_nbr_state_set).
THEOREM AdjacencyHoldsInit == Spec => []PendingHoldsInit
<1>1. IInv => PendingHoldsInit
  <2> SUFFICES ASSUME IInv, NEW r \in Router
               PROVE  LET s == rt[r] IN
                      /\ s.nbr = "pending" <=> s.init # 0
                      /\ s.nbr = "pending"
                            <=> \E p \in ToSet(s.queue) : p.kind = "init"
                      /\ s.nbr = "pending" =>
                            Len(s.queue) = 1 /\ Head(s.queue).seq = s.init
                      /\ s.nbr = "none" => s.queue = <<>> /\ s.recv = 0
    BY DEF PendingHoldsInit
  <2> DEFINE q == rt[r].queue
  <2>1. Sound(rt[r]) /\ q \in Seq(Held) /\ Len(q) \in Nat /\ DOMAIN q = 1..Len(q)
    BY LenProperties DEF IInv, RouterState
  <2>2. rt[r].nbr = "pending" => Len(q) = 1 /\ Head(q).seq = rt[r].init
    <3>1. rt[r].nbr = "pending" => Len(q) = 1 /\ q[1].seq = rt[r].init
      BY <2>1 DEF Sound
    <3>2. Len(q) = 1 => Head(q) = q[1]
      BY <2>1, EmptySeq, HeadTailProperties
    <3> QED BY <3>1, <3>2
  <2>3. rt[r].nbr = "pending" <=> \E p \in ToSet(q) : p.kind = "init"
    <3>1. ToSet(q) = {q[i] : i \in 1..Len(q)}
      BY <2>1 DEF ToSet
    <3>2. CASE rt[r].nbr = "pending"
      <4>1. 1 \in 1..Len(q) /\ q[1].kind = "init"
        BY <2>1, <3>2 DEF Sound
      <4> QED BY <3>1, <3>2, <4>1
    <3>3. CASE rt[r].nbr # "pending"
      <4>1. NoInit(q)
        BY <2>1, <3>3 DEF Sound
      <4> QED BY <3>1, <3>3, <4>1 DEF NoInit
    <3> QED BY <3>2, <3>3
  <2> QED BY <2>1, <2>2, <2>3 DEF Sound
<1> QED BY <1>1, AlwaysSound, PTL
=============================================================================
