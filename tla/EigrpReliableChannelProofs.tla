--------------------- MODULE EigrpReliableChannelProofs ---------------------
(***************************************************************************)
(* What is between two routers, for any number of losses, failures and     *)
(* retransmissions: the packets of one router are on the link, in its      *)
(* output queue and in its retrans_queue in the order they were built, and *)
(* what the other one heard last is older than all of them, or a copy of   *)
(* the first.  One packet at a time, the ordered channel and the fate of   *)
(* an old INIT follow.                                                     *)
(***************************************************************************)
EXTENDS EigrpReliableProofs

\* b is a packet built after a, or a copy of it under the same number.
Follows(a, b) ==
    a.kind \in Reliable /\ b.kind \in Reliable =>
        a.id < b.id \/ (a.id = b.id /\ a.seq = b.seq)

InOrder(c) == \A i, j \in 1..Len(c) : i < j => Follows(c[i], c[j])

\* The same of p and the packet with id h that router u heard last, whose
\* number an adjacency that is UP remembers.
HeardBefore(h, u, p) ==
    p.kind \in Reliable =>
        h < p.id \/ (h = p.id /\ (u.nbr = "up" => u.recv = p.seq))

\* p may be sent after all that is on the link w.
May(w, h, u, p) == HeardBefore(h, u, p) /\ \A i \in 1..Len(w) : Follows(w[i], p)

\* Reliable packets have the ids s gave out, others none.
Built(s, c) ==
    \A i \in 1..Len(c) : IF c[i].kind \in Reliable THEN c[i].id <= s.built
                          ELSE c[i].id = 0

Rising(s, q) ==
    /\ \A i \in 1..Len(q) : q[i].id \in 1..s.built
    /\ \A i, j \in 1..Len(q) : i < j => q[i].id < q[j].id

\* The packets of a router in state s, of which w are on the link to u.
Line(s, w, h, u) ==
    /\ h <= s.built /\ Built(s, w) /\ Built(s, s.obuf) /\ Rising(s, s.queue)
    /\ InOrder(s.obuf)
    /\ \A i \in 1..Len(s.obuf) : May(w, h, u, s.obuf[i])
    /\ s.queue # <<>> =>
          /\ May(w, h, u, s.queue[1])
          /\ \A i \in 1..Len(s.obuf) : Follows(s.obuf[i], s.queue[1])

Way(w, h, u) ==
    /\ InOrder(w)
    /\ \A i \in 1..Len(w) : HeardBefore(h, u, w[i])

ChannelInv ==
    \A r \in Router :
        /\ Line(rt[r], wire[r], heard[Peer(r)], rt[Peer(r)])
        /\ Way(wire[r], heard[Peer(r)], rt[Peer(r)])

-----------------------------------------------------------------------------
(* The operators.                                                          *)

\* The same packets wait, whatever became of their timers.
SameQueue(s, t) ==
    /\ Len(t.queue) = Len(s.queue)
    /\ \A i \in 1..Len(s.queue) : /\ t.queue[i].id = s.queue[i].id
                                  /\ t.queue[i].seq = s.queue[i].seq

\* The parts of a router's state that the line is made of.
LEMMA Parts ==
    ASSUME NEW s \in RouterState
    PROVE  /\ s.queue \in Seq(Held) /\ s.obuf \in Seq(Output)
           /\ Len(s.queue) \in Nat /\ Len(s.obuf) \in Nat /\ s.built \in Nat
           /\ \A i \in 1..Len(s.queue) :
                  /\ s.queue[i] \in Held /\ s.queue[i].kind \in Reliable
                  /\ s.queue[i].id \in Nat /\ s.queue[i].seq \in Nat
           /\ \A i \in 1..Len(s.obuf) : s.obuf[i] \in Output /\ s.obuf[i].id \in Nat
           /\ s.queue # <<>> <=> Len(s.queue) > 0
           /\ s.queue # <<>> => 1 \in 1..Len(s.queue) /\ s.queue[1] = Head(s.queue)
<1>1. /\ s.queue \in Seq(Held) /\ s.obuf \in Seq(Output) /\ s.built \in Nat
      /\ Len(s.queue) \in Nat /\ Len(s.obuf) \in Nat
  BY LenProperties DEF RouterState
<1>2. \A i \in 1..Len(s.queue) : s.queue[i] \in Held
  BY <1>1, ElementOfSeq
<1>3. \A i \in 1..Len(s.obuf) : s.obuf[i] \in Output
  BY <1>1, ElementOfSeq
<1>4. s.queue # <<>> <=> Len(s.queue) > 0
  BY <1>1, EmptySeq
<1>5. s.queue # <<>> => s.queue[1] = Head(s.queue)
  BY <1>1, HeadTailProperties
<1>6. \A x \in Held : x.kind \in Reliable /\ x.id \in Nat /\ x.seq \in Nat
  BY DEF Held
<1>7. \A x \in Output : x.id \in Nat
  BY DEF Output
<1>8. s.queue # <<>> => 1 \in 1..Len(s.queue)
  BY <1>1, <1>4
<1>9. \A i \in 1..Len(s.queue) :
         /\ s.queue[i] \in Held /\ s.queue[i].kind \in Reliable
         /\ s.queue[i].id \in Nat /\ s.queue[i].seq \in Nat
  BY <1>2, <1>6
<1>10. \A i \in 1..Len(s.obuf) : s.obuf[i] \in Output /\ s.obuf[i].id \in Nat
  BY <1>3, <1>7
<1> QED BY <1>1, <1>4, <1>5, <1>8, <1>9, <1>10

LEMMA OnTheLink ==
    ASSUME NEW w \in Seq(Sent)
    PROVE  /\ Len(w) \in Nat
           /\ \A i \in 1..Len(w) : w[i] \in Sent /\ w[i].id \in Nat /\ w[i].seq \in Nat
<1>1. Len(w) \in Nat /\ \A i \in 1..Len(w) : w[i] \in Sent
  BY LenProperties, ElementOfSeq
<1> QED BY <1>1 DEF Sent

\* What only changes numbers, timers and the adjacency leaves the line alone.
LEMMA SameLine ==
    ASSUME NEW s, NEW t, NEW w, NEW h, NEW u, Line(s, w, h, u),
           t.queue = s.queue, t.obuf = s.obuf, t.built = s.built
    PROVE  Line(t, w, h, u)
BY DEF Line, Built, Rising

\* A Hello, or a copy of the head, joins the output queue.
LEMMA CopyLine ==
    ASSUME NEW s \in RouterState, NEW t \in RouterState, NEW w \in Seq(Sent),
           NEW h \in Nat, NEW u, Line(s, w, h, u), NEW x \in Output,
           t.obuf = Append(s.obuf, x), t.built = s.built, SameQueue(s, t),
           x.kind \in Reliable =>
               /\ s.queue # <<>> /\ x.id = s.queue[1].id
               /\ x.seq = s.queue[1].seq,
           x.kind \notin Reliable => x.id = 0
    PROVE  Line(t, w, h, u)
<1> DEFINE n == Len(s.obuf)
<1>1. /\ Len(t.obuf) = n + 1 /\ t.obuf[n + 1] = x /\ n \in Nat
      /\ \A i \in 1..n : t.obuf[i] = s.obuf[i]
  BY Parts, AppendProperties
<1>2. \A i \in 1..(n + 1) : i \in 1..n \/ i = n + 1
  BY <1>1
<1>3. x.kind \in Reliable => x.id <= s.built
  BY Parts DEF Line, Rising
<1>4. Built(t, w) /\ Built(t, t.obuf)
  BY <1>1, <1>2, <1>3 DEF Line, Built
<1>5. Rising(t, t.queue)
  BY DEF Line, Rising, SameQueue
<1>6. \A i \in 1..n : Follows(s.obuf[i], x)
  BY Parts DEF Line, Follows
<1>7. InOrder(t.obuf)
  BY <1>1, <1>2, <1>6 DEF Line, InOrder
<1>8. May(w, h, u, x)
  BY Parts DEF Line, May, Follows, HeardBefore
<1>9. \A i \in 1..Len(t.obuf) : May(w, h, u, t.obuf[i])
  BY <1>1, <1>2, <1>8 DEF Line
<1>10. ASSUME t.queue # <<>>
       PROVE  /\ May(w, h, u, t.queue[1])
              /\ \A i \in 1..Len(t.obuf) : Follows(t.obuf[i], t.queue[1])
  <2>1. /\ s.queue # <<>> /\ 1 \in 1..Len(s.queue)
        /\ t.queue[1].id = s.queue[1].id /\ t.queue[1].seq = s.queue[1].seq
        /\ t.queue[1].kind \in Reliable /\ s.queue[1].kind \in Reliable
    BY <1>10, Parts DEF SameQueue
  <2>2. May(w, h, u, t.queue[1])
    BY <2>1 DEF Line, May, Follows, HeardBefore
  <2>3. \A i \in 1..n : Follows(s.obuf[i], t.queue[1])
    BY <2>1 DEF Line, Follows
  <2>4. Follows(x, t.queue[1])
    BY <2>1, Parts DEF Follows
  <2> QED BY <1>1, <1>2, <2>2, <2>3, <2>4
<1> QED BY <1>4, <1>5, <1>7, <1>9, <1>10 DEF Line

LEMMA OutLine ==
    ASSUME NEW s \in RouterState, NEW w \in Seq(Sent), NEW h \in Nat, NEW u,
           Line(s, w, h, u), NEW kind \in Hello, NEW ack \in Nat
    PROVE  Line(Out(s, kind, ack), w, h, u)
<1> DEFINE x == [kind |-> kind, id |-> 0, seq |-> 0, ack |-> ack, nbr |-> "null"]
           t == Out(s, kind, ack)
<1>1. x \in Output /\ x.kind \notin Reliable /\ x.id = 0
  BY DEF Output, Hello, Reliable, Update
<1>2. t \in RouterState /\ t.queue = s.queue /\ t.built = s.built
  BY OutKeeps DEF Outputs
<1>3. t.obuf = Append(s.obuf, x)
  BY DEF Out, RouterState
<1>4. SameQueue(s, t)
  BY <1>2 DEF SameQueue
<1> HIDE DEF x, t
<1>5. Line(t, w, h, u)
  BY <1>1, <1>2, <1>3, <1>4, CopyLine
<1> QED BY <1>5 DEF t

\* The copy of the head that OutCopy adds.
LEMMA OutCopyAdds ==
    ASSUME NEW s \in RouterState, s.queue # <<>>, NEW owner \in {"null", "live"}
    PROVE  \E x \in Output :
              /\ OutCopy(s, Head(s.queue), owner).obuf = Append(s.obuf, x)
              /\ x.id = s.queue[1].id /\ x.seq = s.queue[1].seq
              /\ x.kind \in Reliable
<1> DEFINE p == Head(s.queue)
           x == [kind |-> p.kind, id |-> p.id, seq |-> p.seq, ack |-> 0,
                 nbr |-> owner]
<1>1. p \in Held /\ p = s.queue[1]
  BY Parts
<1>2. x \in Output /\ x.kind \in Reliable
  BY <1>1 DEF Output, Held
<1>3. OutCopy(s, p, owner).obuf = Append(s.obuf, x)
  BY DEF OutCopy, RouterState
<1> QED BY <1>1, <1>2, <1>3

\* A copy of the head is sent and something but the packets' order, numbers and
\* ids changes at the head of the queue.
LEMMA HeadSentLine ==
    ASSUME NEW s \in RouterState, NEW t \in RouterState, NEW w \in Seq(Sent),
           NEW h \in Nat, NEW u, Line(s, w, h, u), s.queue # <<>>,
           NEW owner \in {"null", "live"}, NEW held \in Held,
           t.obuf = OutCopy(s, Head(s.queue), owner).obuf, t.built = s.built,
           held.id = s.queue[1].id, held.seq = s.queue[1].seq,
           t.queue = [s.queue EXCEPT ![1] = held]
    PROVE  Line(t, w, h, u)
<1>1. PICK x \in Output : /\ t.obuf = Append(s.obuf, x)
                          /\ x.id = s.queue[1].id /\ x.seq = s.queue[1].seq
                          /\ x.kind \in Reliable
  BY OutCopyAdds
<1>2. /\ Len(t.queue) = Len(s.queue) /\ t.queue[1] = held
      /\ \A i \in 2..Len(s.queue) : t.queue[i] = s.queue[i]
  BY Parts, HeadReplaced
<1>3. SameQueue(s, t)
  <2>1. \A i \in 1..Len(s.queue) : i = 1 \/ i \in 2..Len(s.queue)
    BY Parts
  <2> QED BY <1>2, <2>1 DEF SameQueue
<1> QED BY <1>1, <1>3, CopyLine

\* The head is copied, and marked as sent.
LEMMA SendReliablyState ==
    ASSUME NEW s \in RouterState
    PROVE  LET t == SendReliably(s) IN
           /\ t \in RouterState /\ t.built = s.built
           /\ t.nbr = s.nbr /\ t.recv = s.recv
           /\ s.queue = <<>> => t = s
           /\ s.queue # <<>> =>
                 /\ t.obuf = OutCopy(s, Head(s.queue), "live").obuf
                 /\ \E held \in Held :
                        /\ held.id = s.queue[1].id /\ held.seq = s.queue[1].seq
                        /\ t.queue = [s.queue EXCEPT ![1] = held]
<1>1. CASE s.queue = <<>>
  BY <1>1 DEF SendReliably
<1>2. CASE s.queue # <<>>
  <2> DEFINE p == Head(s.queue)
             c == OutCopy(s, p, "live")
             held == [p EXCEPT !.timer = TRUE, !.reserved = TRUE]
             q == [s.queue EXCEPT ![1] = held]
             n == IF p.reserved THEN s.seq ELSE Bump(s.seq)
             t == [c EXCEPT !.queue = q, !.seq = n]
  <2>1. p \in Held /\ p = s.queue[1]
    BY <1>2, Parts
  <2>2. Outputs(s, c)
    BY <2>1, OutCopyKeeps
  <2>3. held \in Held /\ held.id = s.queue[1].id /\ held.seq = s.queue[1].seq
    BY <2>1 DEF Held
  <2>4. q \in Seq(Held)
    <3> HIDE DEF held
    <3> QED BY <1>2, <2>3, Parts, HeadReplaced
  <2>5. n \in 1..MaxSeq
    BY BumpType DEF RouterState
  <2>6. SendReliably(s) = t
    BY <1>2, <2>1, <2>2 DEF SendReliably, Outputs, RouterState
  <2> HIDE DEF held, n
  <2>7. c \in RouterState /\ c.built = s.built /\ c.nbr = s.nbr /\ c.recv = s.recv
    BY <2>2 DEF Outputs
  <2>8. /\ t \in RouterState /\ t.built = s.built /\ t.queue = q /\ t.obuf = c.obuf
        /\ t.nbr = s.nbr /\ t.recv = s.recv
    <3> HIDE DEF c, q
    <3> QED BY <2>4, <2>5, <2>7 DEF RouterState
  <2> HIDE DEF t, c
  <2>9. \E e \in Held : /\ e.id = s.queue[1].id /\ e.seq = s.queue[1].seq
                        /\ t.queue = [s.queue EXCEPT ![1] = e]
    BY <2>3, <2>8
  <2> QED BY <1>2, <2>6, <2>8, <2>9 DEF c
<1> QED BY <1>1, <1>2

LEMMA SendReliablyLine ==
    ASSUME NEW s \in RouterState, NEW w \in Seq(Sent), NEW h \in Nat, NEW u,
           Line(s, w, h, u)
    PROVE  Line(SendReliably(s), w, h, u)
<1> DEFINE t == SendReliably(s)
<1>1. CASE s.queue = <<>>
  BY <1>1 DEF SendReliably
<1>2. CASE s.queue # <<>>
  <2>1. PICK held \in Held :
           /\ held.id = s.queue[1].id /\ held.seq = s.queue[1].seq
           /\ t.queue = [s.queue EXCEPT ![1] = held]
    BY <1>2, SendReliablyState
  <2>2. /\ t \in RouterState /\ t.built = s.built
        /\ t.obuf = OutCopy(s, Head(s.queue), "live").obuf
    BY <1>2, SendReliablyState
  <2> HIDE DEF t
  <2>3. Line(t, w, h, u)
    BY <1>2, <2>1, <2>2, HeadSentLine
  <2> QED BY <2>3 DEF t
<1> QED BY <1>1, <1>2

\* A packet that is built has a new id, and is the first to be sent only if
\* nothing waits.
LEMMA BuiltLine ==
    ASSUME NEW s \in RouterState, NEW t \in RouterState, NEW w \in Seq(Sent),
           NEW h \in Nat, NEW u, Line(s, w, h, u), NEW p \in Held,
           p.id = s.built + 1, t.built = s.built + 1, t.obuf = s.obuf,
           t.queue = Append(s.queue, p)
    PROVE  Line(t, w, h, u)
<1> DEFINE n == Len(s.queue)
<1>1. /\ Len(t.queue) = n + 1 /\ t.queue[n + 1] = p /\ n \in Nat
      /\ \A i \in 1..n : t.queue[i] = s.queue[i]
  BY Parts, AppendProperties
<1>2. \A i \in 1..(n + 1) : i \in 1..n \/ i = n + 1
  BY <1>1
<1>3. h <= t.built /\ Built(t, w) /\ Built(t, s.obuf)
  <2>1. s.built \in Nat /\ t.built = s.built + 1
    BY Parts
  <2>2. h <= s.built /\ Built(s, w) /\ Built(s, s.obuf)
    BY DEF Line
  <2>3. h <= t.built
    BY <2>1, <2>2
  <2>4. \A i \in 1..Len(w) : w[i].id \in Nat
    BY OnTheLink
  <2>5. \A i \in 1..Len(s.obuf) : s.obuf[i].id \in Nat
    BY Parts
  <2>6. Built(t, w)
    BY <2>1, <2>2, <2>4 DEF Built
  <2>7. Built(t, s.obuf)
    BY <2>1, <2>2, <2>5 DEF Built
  <2> QED BY <2>3, <2>6, <2>7
<1>4. Rising(t, t.queue)
  <2>1. \A i \in 1..Len(t.queue) : t.queue[i].id \in 1..t.built
    BY <1>1, <1>2, Parts DEF Line, Rising
  <2>2. \A i, j \in 1..Len(t.queue) : i < j => t.queue[i].id < t.queue[j].id
    <3> SUFFICES ASSUME NEW i \in 1..Len(t.queue), NEW j \in 1..Len(t.queue), i < j
                 PROVE  t.queue[i].id < t.queue[j].id
      OBVIOUS
    <3>1. i \in 1..n
      BY <1>1
    <3>2. CASE j \in 1..n
      BY <1>1, <3>1, <3>2 DEF Line, Rising
    <3>3. CASE j = n + 1
      BY <1>1, <3>1, <3>3, Parts DEF Line, Rising
    <3> QED BY <1>1, <1>2, <3>2, <3>3
  <2> QED BY <2>1, <2>2 DEF Rising
<1>5. ASSUME t.queue # <<>>
      PROVE  /\ May(w, h, u, t.queue[1])
             /\ \A i \in 1..Len(s.obuf) : Follows(s.obuf[i], t.queue[1])
  <2>1. CASE n = 0
    <3>1. t.queue[1] = p
      BY <1>1, <2>1
    <3>2. May(w, h, u, p) /\ \A i \in 1..Len(s.obuf) : Follows(s.obuf[i], p)
      BY Parts, OnTheLink DEF Line, Built, May, HeardBefore, Follows
    <3> QED BY <3>1, <3>2
  <2>2. CASE n # 0
    <3>1. t.queue[1] = s.queue[1] /\ s.queue # <<>>
      BY <1>1, <2>2, Parts
    <3> QED BY <3>1 DEF Line
  <2> QED BY <2>1, <2>2
<1> QED BY <1>3, <1>4, <1>5 DEF Line

\* The head of the queue was acknowledged.
LEMMA TailLine ==
    ASSUME NEW s \in RouterState, NEW t \in RouterState, NEW w \in Seq(Sent),
           NEW h \in Nat, NEW u, Line(s, w, h, u), s.queue # <<>>,
           t.queue = Tail(s.queue), t.obuf = s.obuf, t.built = s.built
    PROVE  Line(t, w, h, u)
<1> DEFINE n == Len(s.queue)
<1>1. /\ n \in Nat /\ n > 0 /\ Len(t.queue) = n - 1
      /\ \A i \in 1..(n - 1) : t.queue[i] = s.queue[i + 1]
  BY Parts, HeadTailProperties
<1>2. Rising(s, s.queue)
  BY DEF Line
<1>3. Rising(t, t.queue)
  <2>1. \A i \in 1..(n - 1) : i + 1 \in 1..n
    BY <1>1
  <2> QED BY <1>1, <1>2, <2>1 DEF Rising
<1>4. ASSUME t.queue # <<>>
      PROVE  /\ May(w, h, u, t.queue[1])
             /\ \A i \in 1..Len(s.obuf) : Follows(s.obuf[i], t.queue[1])
  <2>1. n > 1 /\ 1 \in 1..n /\ 2 \in 1..n /\ t.queue[1] = s.queue[2]
    BY <1>1, <1>4, Parts
  <2>2. /\ s.queue[1].id < s.queue[2].id /\ s.queue[1].kind \in Reliable
        /\ s.queue[1].id \in Nat /\ s.queue[2].id \in Nat
    BY <1>2, <2>1, Parts DEF Rising
  <2>3. /\ May(w, h, u, s.queue[1])
        /\ \A i \in 1..Len(s.obuf) : Follows(s.obuf[i], s.queue[1])
    BY DEF Line
  <2>4. HeardBefore(h, u, s.queue[2])
    BY <2>2, <2>3 DEF May, HeardBefore
  <2>5. \A i \in 1..Len(w) : Follows(w[i], s.queue[2])
    BY <2>2, <2>3, OnTheLink DEF May, Follows
  <2>6. \A i \in 1..Len(s.obuf) : Follows(s.obuf[i], s.queue[2])
    <3>1. \A i \in 1..Len(s.obuf) : s.obuf[i].id \in Nat
      BY Parts
    <3> QED BY <2>2, <2>3, <3>1 DEF Follows
  <2> QED BY <2>1, <2>4, <2>5, <2>6 DEF May
<1> QED BY <1>3, <1>4 DEF Line, Built

\* The same packets are about to be written, for whatever neighbour.
SameOutput(s, t) ==
    /\ Len(t.obuf) = Len(s.obuf)
    /\ \A i \in 1..Len(s.obuf) : /\ t.obuf[i].kind = s.obuf[i].kind
                                  /\ t.obuf[i].id = s.obuf[i].id
                                  /\ t.obuf[i].seq = s.obuf[i].seq

\* The adjacency ends and its queue with it.
LEMMA EmptiedLine ==
    ASSUME NEW s, NEW t, NEW w, NEW h, NEW u, Line(s, w, h, u),
           Len(t.queue) = 0, t.queue = <<>>, t.built = s.built, SameOutput(s, t)
    PROVE  Line(t, w, h, u)
<1>1. Rising(t, t.queue)
  BY DEF Rising
<1>2. Built(t, w) /\ Built(t, t.obuf) /\ InOrder(t.obuf)
  BY DEF Line, SameOutput, Built, InOrder, Follows
<1>3. \A i \in 1..Len(t.obuf) : May(w, h, u, t.obuf[i])
  BY DEF Line, SameOutput, May, Follows, HeardBefore
<1> QED BY <1>1, <1>2, <1>3 DEF Line

-----------------------------------------------------------------------------
(* The handlers.                                                           *)

\* t has built no less than s, and its packets are where those of s may be.
OnLine(s, t) ==
    /\ t \in RouterState /\ s.built <= t.built
    /\ \A w \in Seq(Sent), h \in Nat, u \in RouterState :
           Line(s, w, h, u) => Line(t, w, h, u)

LEMMA OnLineTransitive ==
    ASSUME NEW s \in RouterState, NEW t \in RouterState, NEW v,
           OnLine(s, t), OnLine(t, v)
    PROVE  OnLine(s, v)
<1>1. /\ s.built \in Nat /\ t.built \in Nat /\ v \in RouterState
      /\ s.built <= t.built /\ t.built <= v.built
  BY Parts DEF OnLine
<1>2. v.built \in Nat
  BY <1>1, Parts
<1>3. s.built <= v.built
  BY <1>1, <1>2
<1> QED BY <1>1, <1>3 DEF OnLine

LEMMA SameOnLine ==
    ASSUME NEW s \in RouterState, NEW t \in RouterState,
           t.queue = s.queue, t.obuf = s.obuf, t.built = s.built
    PROVE  OnLine(s, t)
<1>1. s.built <= t.built
  BY Parts
<1> QED BY <1>1, SameLine DEF OnLine

LEMMA OutOnLine ==
    ASSUME NEW s \in RouterState, NEW kind \in Hello, NEW ack \in Nat
    PROVE  OnLine(s, Out(s, kind, ack))
<1>1. Outputs(s, Out(s, kind, ack))
  BY OutKeeps
<1>2. s.built \in Nat
  BY Parts
<1> QED BY <1>1, <1>2, OutLine DEF OnLine, Outputs

LEMMA SendReliablyOnLine ==
    ASSUME NEW s \in RouterState
    PROVE  OnLine(s, SendReliably(s))
<1>1. s.built \in Nat
  BY Parts
<1> QED BY <1>1, SendReliablyState, SendReliablyLine DEF OnLine

LEMMA TailOnLine ==
    ASSUME NEW s \in RouterState, NEW t \in RouterState, s.queue # <<>>,
           t.queue = Tail(s.queue), t.obuf = s.obuf, t.built = s.built
    PROVE  OnLine(s, t)
<1>1. s.built <= t.built
  BY Parts
<1> QED BY <1>1, TailLine DEF OnLine

\* Building a packet.
LEMMA EnqueueOnLine ==
    ASSUME NEW s \in RouterState, NEW kind \in Reliable, NEW number \in Nat,
           NEW reserved \in BOOLEAN
    PROVE  /\ OnLine(s, Enqueue(s, kind, number, reserved))
           /\ Enqueue(s, kind, number, reserved).built = s.built + 1
<1> DEFINE t == Enqueue(s, kind, number, reserved)
           p == [kind |-> kind, id |-> s.built + 1, seq |-> number,
                 count |-> 0, timer |-> FALSE, reserved |-> reserved]
<1>1. /\ t \in RouterState /\ t.obuf = s.obuf /\ p \in Held
      /\ t.queue = Append(s.queue, p)
  BY EnqueueOutcome DEF Keeps
<1>2. t.built = s.built + 1 /\ p.id = s.built + 1
  BY DEF Enqueue, RouterState
<1>3. s.built <= t.built
  BY <1>2, Parts
<1> HIDE DEF t, p
<1>4. ASSUME NEW w \in Seq(Sent), NEW h \in Nat, NEW u \in RouterState,
             Line(s, w, h, u)
      PROVE  Line(t, w, h, u)
  BY <1>1, <1>2, <1>4, BuiltLine
<1>5. OnLine(s, t) /\ t.built = s.built + 1
  BY <1>1, <1>2, <1>3, <1>4 DEF OnLine
<1> QED BY <1>5 DEF t

LEMMA PlaceOnLine ==
    ASSUME NEW s \in RouterState, NEW kind \in Reliable, NEW number \in Nat,
           NEW reserved \in BOOLEAN
    PROVE  OnLine(s, Place(s, kind, number, reserved))
<1> DEFINE t == Enqueue(s, kind, number, reserved)
<1>1. OnLine(s, t) /\ t \in RouterState
  BY EnqueueOnLine DEF OnLine
<1>2. Place(s, kind, number, reserved)
        = IF Len(t.queue) = 1 THEN SendReliably(t) ELSE t
  BY DEF Place
<1> HIDE DEF t
<1>3. OnLine(t, SendReliably(t))
  BY <1>1, SendReliablyOnLine
<1>4. OnLine(s, SendReliably(t))
  BY <1>1, <1>3, OnLineTransitive
<1> QED BY <1>1, <1>2, <1>4

\* Each packet the daemon builds for its neighbour.
LEMMA NumberOnLine ==
    ASSUME NEW s \in RouterState, NEW n \in 1..MaxSeq
    PROVE  /\ OnLine(s, [s EXCEPT !.seq = n])
           /\ [s EXCEPT !.seq = n].nbr = s.nbr /\ [s EXCEPT !.seq = n].recv = s.recv
           /\ [s EXCEPT !.seq = n].queue = s.queue
<1> DEFINE t == [s EXCEPT !.seq = n]
<1>1. /\ t \in RouterState /\ t.queue = s.queue /\ t.obuf = s.obuf
      /\ t.built = s.built /\ t.nbr = s.nbr /\ t.recv = s.recv
  BY DEF RouterState
<1> HIDE DEF t
<1>2. OnLine(s, t)
  BY <1>1, SameOnLine
<1> QED BY <1>1, <1>2 DEF t

LEMMA SendInitOnLine ==
    ASSUME NEW s \in RouterState
    PROVE  OnLine(s, SendInit(s))
<1> DEFINE u == Place(s, "init", s.seq, FALSE)
           t == [u EXCEPT !.init = s.seq]
<1>1. "init" \in Reliable /\ s.seq \in Nat
  BY DEF Reliable, Update, RouterState
<1>2. OnLine(s, u) /\ u \in RouterState
  BY <1>1, PlaceOnLine DEF OnLine
<1>3. SendInit(s) = t
  BY DEF SendInit
<1> HIDE DEF u
<1>4. /\ t \in RouterState /\ t.queue = u.queue /\ t.obuf = u.obuf
      /\ t.built = u.built
  BY <1>1, <1>2 DEF RouterState
<1> HIDE DEF t
<1>5. OnLine(u, t)
  BY <1>2, <1>4, SameOnLine
<1> QED BY <1>2, <1>3, <1>5, OnLineTransitive DEF OnLine

\* A packet whose number is stored back into sequence_number.
LEMMA PlaceStoredOnLine ==
    ASSUME NEW s \in RouterState, Timed(s.queue), NEW kind \in Reliable
    PROVE  LET t == [Place(s, kind, s.seq, FALSE) EXCEPT !.seq = s.seq] IN
           OnLine(s, t) /\ t.nbr = s.nbr /\ t.recv = s.recv
<1> DEFINE u == Place(s, kind, s.seq, FALSE)
           t == [u EXCEPT !.seq = s.seq]
<1>1. s.seq \in Nat /\ s.seq \in 1..MaxSeq
  BY DEF RouterState
<1>2. OnLine(s, u) /\ u \in RouterState
  BY <1>1, PlaceOnLine DEF OnLine
<1>3. u.nbr = s.nbr /\ u.recv = s.recv
  <2>1. Keeps(s, u)
    BY <1>1, PlaceOutcome
  <2> QED BY <2>1 DEF Keeps
<1> HIDE DEF u
<1>4. OnLine(u, t) /\ t.nbr = u.nbr /\ t.recv = u.recv
  BY <1>1, <1>2, NumberOnLine
<1> HIDE DEF t
<1>5. OnLine(s, t) /\ t.nbr = s.nbr /\ t.recv = s.recv
  BY <1>2, <1>3, <1>4, OnLineTransitive
<1> QED BY <1>5 DEF t, u

LEMMA SendFullTableOnLine ==
    ASSUME NEW s \in RouterState, Timed(s.queue)
    PROVE  /\ OnLine(s, SendFullTable(s))
           /\ SendFullTable(s).nbr = s.nbr /\ SendFullTable(s).recv = s.recv
<1>1. "eot" \in Reliable
  BY DEF Reliable, Update
<1> QED BY <1>1, PlaceStoredOnLine DEF SendFullTable

LEMMA SendChangesOnLine ==
    ASSUME NEW s \in RouterState, Timed(s.queue)
    PROVE  /\ OnLine(s, SendChanges(s))
           /\ SendChanges(s).nbr = s.nbr /\ SendChanges(s).recv = s.recv
<1>1. "update" \in Reliable
  BY DEF Reliable, Update
<1> QED BY <1>1, PlaceStoredOnLine DEF SendChanges

LEMMA SendToNeighborOnLine ==
    ASSUME NEW s \in RouterState, Timed(s.queue)
    PROVE  /\ OnLine(s, SendToNeighbor(s))
           /\ SendToNeighbor(s).nbr = s.nbr /\ SendToNeighbor(s).recv = s.recv
<1> DEFINE v == [s EXCEPT !.seq = Bump(s.seq)]
           t == Place(v, "query", s.seq, TRUE)
<1>1. "query" \in Reliable /\ s.seq \in Nat /\ Bump(s.seq) \in 1..MaxSeq
  BY BumpType DEF Reliable, RouterState
<1>2. OnLine(s, v) /\ v.nbr = s.nbr /\ v.recv = s.recv /\ v.queue = s.queue
  BY <1>1, NumberOnLine
<1>3. v \in RouterState
  BY <1>2 DEF OnLine
<1>4. SendToNeighbor(s) = t
  BY DEF SendToNeighbor
<1> HIDE DEF v
<1>5. OnLine(v, t)
  BY <1>1, <1>3, PlaceOnLine
<1>6. t.nbr = v.nbr /\ t.recv = v.recv
  <2>1. Keeps(v, t)
    BY <1>1, <1>2, <1>3, PlaceOutcome
  <2> QED BY <2>1 DEF Keeps
<1> HIDE DEF t
<1> QED BY <1>2, <1>3, <1>4, <1>5, <1>6, OnLineTransitive

LEMMA SendToInterfaceOnLine ==
    ASSUME NEW s \in RouterState
    PROVE  /\ OnLine(s, SendToInterface(s))
           /\ SendToInterface(s).nbr = s.nbr /\ SendToInterface(s).recv = s.recv
<1> DEFINE v == [s EXCEPT !.seq = Bump(s.seq)]
           t == Enqueue(v, "query", s.seq, TRUE)
           p == Head(t.queue)
           c == OutCopy(t, p, "null")
           held == [p EXCEPT !.timer = TRUE]
           q == [t.queue EXCEPT ![1] = held]
           x == [c EXCEPT !.queue = q]
<1>1. "query" \in Reliable /\ s.seq \in Nat /\ Bump(s.seq) \in 1..MaxSeq
  BY BumpType DEF Reliable, RouterState
<1>2. OnLine(s, v) /\ v.nbr = s.nbr /\ v.recv = s.recv /\ v \in RouterState
  BY <1>1, NumberOnLine DEF OnLine
<1>3. SendToInterface(s)
        = IF Len(t.queue) = 1 THEN [c EXCEPT !.queue[1].timer = TRUE] ELSE t
  BY DEF SendToInterface
<1> HIDE DEF v
<1>4. OnLine(v, t) /\ t \in RouterState
  BY <1>1, <1>2, EnqueueOnLine DEF OnLine
<1>5. t.nbr = v.nbr /\ t.recv = v.recv
  BY <1>1, <1>2, EnqueueOutcome DEF Keeps
<1> HIDE DEF t
<1>6. OnLine(s, t)
  BY <1>2, <1>4, OnLineTransitive
<1>7. CASE Len(t.queue) = 1
  <2>1. t.queue # <<>> /\ p \in Held /\ p = t.queue[1]
    <3>1. t.queue # <<>> /\ 1 \in 1..Len(t.queue) /\ t.queue[1] = p
      <4>1. t.queue \in Seq(Held) /\ t.queue # <<>>
        <5>1. t.queue \in Seq(Held)
          BY <1>4 DEF RouterState
        <5>2. t.queue # <<>>
          <6> SUFFICES ASSUME t.queue = <<>> PROVE FALSE
            OBVIOUS
          <6> QED BY <1>7
        <5> QED BY <5>1, <5>2
      <4> QED BY <1>7, <4>1, HeadTailProperties
    <3>2. t.queue[1] \in Held
      BY <1>4, <3>1, Parts
    <3> QED BY <3>1, <3>2
  <2>2. Outputs(t, c)
    BY <1>4, <2>1, OutCopyKeeps
  <2>3. held \in Held /\ held.id = t.queue[1].id /\ held.seq = t.queue[1].seq
    BY <2>1 DEF Held
  <2>4. [c EXCEPT !.queue[1].timer = TRUE] = x
    BY <2>1, <2>2 DEF Outputs, RouterState
  <2> HIDE DEF held
  <2>5. q \in Seq(Held)
    BY <1>4, <2>1, <2>3, Parts, HeadReplaced
  <2>6. c \in RouterState /\ c.built = t.built /\ c.nbr = t.nbr /\ c.recv = t.recv
    BY <2>2 DEF Outputs
  <2> HIDE DEF c, q
  <2>7. /\ x \in RouterState /\ x.built = t.built /\ x.queue = q /\ x.obuf = c.obuf
        /\ x.nbr = t.nbr /\ x.recv = t.recv
    BY <2>5, <2>6 DEF RouterState
  <2> HIDE DEF x
  <2>8. ASSUME NEW w \in Seq(Sent), NEW h \in Nat, NEW u \in RouterState,
               Line(t, w, h, u)
        PROVE  Line(x, w, h, u)
    BY <1>4, <2>1, <2>3, <2>7, <2>8, HeadSentLine DEF c, q, p
  <2>9. t.built <= x.built
    BY <1>4, <2>7, Parts
  <2>10. OnLine(t, x)
    BY <2>7, <2>8, <2>9 DEF OnLine
  <2>11. OnLine(s, x)
    BY <1>4, <1>6, <2>10, OnLineTransitive
  <2>12. SendToInterface(s) = x
    BY <1>3, <1>7, <2>4
  <2> QED BY <1>2, <1>5, <2>7, <2>11, <2>12
<1>8. CASE Len(t.queue) # 1
  BY <1>2, <1>3, <1>5, <1>6, <1>8
<1> QED BY <1>7, <1>8

\* The adjacency ends: nothing waits, and the output queue is as long as it was.
LEMMA EmptiedOnLine ==
    ASSUME NEW s \in RouterState, NEW t \in RouterState,
           t.queue = <<>>, t.built = s.built, SameOutput(s, t)
    PROVE  OnLine(s, t)
<1>1. s.built <= t.built /\ Len(t.queue) = 0
  BY Parts
<1> QED BY <1>1, EmptiedLine DEF OnLine

LEMMA StateDownOnLine ==
    ASSUME NEW s \in RouterState
    PROVE  OnLine(s, StateDown(s))
<1>1. StateDown(s) \in RouterState /\ StateDown(s).queue = <<>>
      /\ StateDown(s).obuf = s.obuf
  BY StateDownOutcome
<1>2. StateDown(s).built = s.built
  BY DEF StateDown, RouterState
<1> QED BY <1>1, <1>2, EmptiedOnLine DEF SameOutput

LEMMA DeleteOnLine ==
    ASSUME NEW s \in RouterState
    PROVE  OnLine(s, Delete(s)) /\ Delete(s).nbr = "none"
<1> DEFINE t == StateDown(s)
           o == [i \in DOMAIN s.obuf |->
                    IF s.obuf[i].nbr = "live"
                    THEN [s.obuf[i] EXCEPT !.nbr = "freed"] ELSE s.obuf[i]]
           u == [t EXCEPT !.nbr = "none", !.obuf = o]
<1>1. /\ t \in RouterState /\ t.queue = <<>> /\ t.obuf = s.obuf
      /\ t.built = s.built
  <2>1. t.built = s.built
    BY DEF StateDown, RouterState
  <2> QED BY <2>1, StateDownOutcome
<1>2. Delete(s) = u
  BY <1>1 DEF Delete
<1>3. Delete(s) \in RouterState
  BY DeleteSound DEF Sound
<1>4. Len(s.obuf) \in Nat /\ DOMAIN s.obuf = 1..Len(s.obuf)
  BY Parts, LenProperties
<1>5. /\ Len(o) = Len(s.obuf)
      /\ \A i \in 1..Len(s.obuf) : /\ o[i].kind = s.obuf[i].kind
                                    /\ o[i].id = s.obuf[i].id
                                    /\ o[i].seq = s.obuf[i].seq
  <2>1. Len(o) = Len(s.obuf)
    BY <1>4
  <2>2. ASSUME NEW i \in 1..Len(s.obuf)
        PROVE  /\ o[i].kind = s.obuf[i].kind /\ o[i].id = s.obuf[i].id
               /\ o[i].seq = s.obuf[i].seq
    <3>1. s.obuf[i] \in Output
      BY Parts
    <3>2. o[i] = IF s.obuf[i].nbr = "live"
                 THEN [s.obuf[i] EXCEPT !.nbr = "freed"] ELSE s.obuf[i]
      BY <1>4
    <3> HIDE DEF o
    <3> QED BY <3>1, <3>2 DEF Output
  <2> QED BY <2>1, <2>2
<1> HIDE DEF o, t
<1>6. u.queue = t.queue /\ u.built = t.built /\ u.obuf = o /\ u.nbr = "none"
  BY <1>1 DEF RouterState
<1> HIDE DEF u
<1>7. SameOutput(s, u)
  BY <1>5, <1>6 DEF SameOutput
<1> QED BY <1>1, <1>2, <1>3, <1>6, <1>7, EmptiedOnLine

\* A daemon that starts again has nothing to send.
LEMMA StartedOnLine ==
    ASSUME NEW s \in RouterState
    PROVE  LET t == [Started EXCEPT !.built = s.built] IN
           OnLine(s, t) /\ t.nbr = "none"
<1> DEFINE t == [Started EXCEPT !.built = s.built]
<1>1. s.built \in Nat
  BY Parts
<1>2. t \in RouterState
  BY <1>1, StartedSound DEF Sound
<1>3. /\ t.queue = <<>> /\ t.obuf = <<>> /\ t.built = s.built /\ t.nbr = "none"
      /\ Len(t.obuf) = 0 /\ Len(t.queue) = 0
  BY DEF Started
<1> HIDE DEF t
<1>4. ASSUME NEW w \in Seq(Sent), NEW h \in Nat, NEW u \in RouterState,
             Line(s, w, h, u)
      PROVE  Line(t, w, h, u)
  BY <1>1, <1>3, <1>4 DEF Line, Built, Rising, InOrder
<1>5. OnLine(s, t)
  BY <1>1, <1>2, <1>3, <1>4 DEF OnLine
<1> QED BY <1>3, <1>5 DEF t

\* What an ACK does to the adjacency: it stays, or it is completed and the
\* number of the packet is remembered.
LEMMA AckReceiveOnLine ==
    ASSUME NEW s, Sound(s), s.nbr # "none", NEW p \in Sent
    PROVE  LET t == AckReceive(s, p) IN
           /\ OnLine(s, t)
           /\ s.nbr = "up" => t.nbr = "up" /\ t.recv = s.recv
           /\ s.nbr = "pending" => t = s \/ (t.nbr = "up" /\ t.recv = p.seq)
<1> DEFINE d == [s EXCEPT !.queue = Tail(s.queue)]
           v == [d EXCEPT !.nbr = "up", !.init = 0, !.recv = p.seq]
<1>0. s \in RouterState /\ p.seq \in Nat
  BY DEF Sound, Sent
<1>1. CASE p.ack = 0 \/ s.queue = <<>> \/ Head(s.queue).seq # p.ack
  <2>1. AckReceive(s, p) = s
    BY <1>1 DEF AckReceive
  <2>2. OnLine(s, s)
    BY <1>0, SameOnLine
  <2> QED BY <2>1, <2>2
<1>2. CASE ~(p.ack = 0 \/ s.queue = <<>> \/ Head(s.queue).seq # p.ack)
  <2>1. s.queue \in Seq(Held) /\ s.queue # <<>> /\ Timed(s.queue)
    BY <1>0, <1>2, Parts DEF Sound
  <2>2. Tail(s.queue) \in Seq(Held) /\ Waiting(Tail(s.queue))
    BY <2>1, TailWaits
  <2>3. /\ d \in RouterState /\ d.queue = Tail(s.queue) /\ d.obuf = s.obuf
        /\ d.built = s.built /\ d.nbr = s.nbr /\ d.recv = s.recv
    BY <1>0, <2>2 DEF RouterState
  <2>4. CASE s.nbr = "pending" /\ p.ack = s.init
    <3>1. AckReceive(s, p) = SendFullTable(v)
      BY <1>2, <2>4 DEF AckReceive
    <3>2. /\ v \in RouterState /\ v.queue = Tail(s.queue) /\ v.obuf = s.obuf
          /\ v.built = s.built /\ v.nbr = "up" /\ v.recv = p.seq
      BY <1>0, <2>2 DEF RouterState, NbrState
    <3> HIDE DEF d, v
    <3>3. OnLine(s, v)
      BY <1>0, <2>1, <3>2, TailOnLine
    <3>4. Timed(v.queue)
      <4>1. Len(s.queue) = 1
        BY <2>4 DEF Sound
      <4>2. Len(v.queue) = 0
        BY <2>1, <3>2, <4>1, HeadTailProperties
      <4>3. v.queue = <<>>
        BY <3>2, <4>2, EmptySeq DEF RouterState
      <4> QED BY <2>2, <3>2, <4>3 DEF Timed
    <3>5. /\ OnLine(v, SendFullTable(v)) /\ SendFullTable(v).nbr = "up"
          /\ SendFullTable(v).recv = p.seq
      BY <3>2, <3>4, SendFullTableOnLine
    <3>6. OnLine(s, SendFullTable(v))
      BY <1>0, <3>2, <3>3, <3>5, OnLineTransitive
    <3> QED BY <2>4, <3>1, <3>5, <3>6
  <2>5. CASE ~(s.nbr = "pending" /\ p.ack = s.init)
    <3>1. AckReceive(s, p) = SendReliably(d)
      BY <1>2, <2>5 DEF AckReceive
    <3>2. s.nbr # "pending"
      <4>1. Head(s.queue) = s.queue[1] /\ Head(s.queue).seq = p.ack
        BY <1>2, <2>1, HeadTailProperties
      <4> QED BY <2>5, <4>1 DEF Sound
    <3> HIDE DEF d
    <3>3. OnLine(s, d)
      BY <1>0, <2>1, <2>3, TailOnLine
    <3>4. OnLine(d, SendReliably(d))
      BY <2>3, SendReliablyOnLine
    <3>5. OnLine(s, SendReliably(d))
      BY <1>0, <2>3, <3>3, <3>4, OnLineTransitive
    <3>6. SendReliably(d).nbr = d.nbr /\ SendReliably(d).recv = d.recv
      BY <2>3, SendReliablyState
    <3> QED BY <2>3, <3>1, <3>2, <3>5, <3>6
  <2> QED BY <2>4, <2>5
<1> QED BY <1>1, <1>2

\* Only an adjacency that is UP is begun anew by an INIT, and it is PENDING
\* then.
LEMMA InitReceiveOnLine ==
    ASSUME NEW s, Sound(s), s.nbr # "none", NEW p \in Sent
    PROVE  LET t == InitReceive(s, p) IN
           /\ OnLine(s, t) /\ t.nbr # "up" /\ (s.nbr # "up" => t = s)
<1>0. s \in RouterState /\ ~(s.nbr = "pending" /\ s.init = 0)
  BY DEF Sound
<1>1. CASE s.nbr = "up"
  <2> DEFINE d == StateDown(s)
             v == [d EXCEPT !.nbr = "pending", !.recv = p.seq]
             t == SendInit(v)
  <2>1. InitReceive(s, p) = t
    BY <1>1 DEF InitReceive
  <2>2. OnLine(s, d) /\ d \in RouterState /\ d.queue = <<>>
    BY <1>0, StateDownOnLine, StateDownOutcome DEF OnLine
  <2> HIDE DEF d
  <2>3. /\ v \in RouterState /\ v.queue = d.queue /\ v.obuf = d.obuf
        /\ v.built = d.built /\ v.nbr = "pending"
    BY <2>2 DEF RouterState, NbrState, Sent
  <2> HIDE DEF v
  <2>4. OnLine(d, v)
    BY <2>2, <2>3, SameOnLine
  <2>5. OnLine(v, t)
    BY <2>3, SendInitOnLine
  <2>6. t.nbr = "pending"
    BY <2>2, <2>3, SendInitAlone
  <2> HIDE DEF t
  <2>7. OnLine(s, t)
    BY <1>0, <2>2, <2>3, <2>4, <2>5, OnLineTransitive
  <2> QED BY <1>1, <2>1, <2>6, <2>7
<1>2. CASE s.nbr # "up"
  <2>1. InitReceive(s, p) = s
    BY <1>0, <1>2 DEF InitReceive
  <2>2. OnLine(s, s)
    BY <1>0, SameOnLine
  <2> QED BY <1>2, <2>1, <2>2
<1> QED BY <1>1, <1>2

LEMMA UpdateReceiveOnLine ==
    ASSUME NEW s, Sound(s), s.nbr # "none", NEW p \in Sent
    PROVE  LET t == UpdateReceive(s, p) IN
           /\ OnLine(s, t)
           /\ t.nbr = "up" => t.recv = p.seq
           /\ t.nbr = "pending" => \/ s.nbr # "up" /\ t.built = s.built
                                   \/ s.nbr = "up" /\ s.recv # p.seq
<1> DEFINE d == [s EXCEPT !.recv = p.seq]
           u == IF p.kind = "init" /\ s.recv # p.seq THEN InitReceive(d, p) ELSE d
           x == Out(u, "hello", u.recv)
<1>1. s \in RouterState /\ p.seq \in Nat /\ "hello" \in Hello
  BY DEF Sound, Sent, Hello
<1>2. /\ Sound(d) /\ d.nbr = s.nbr /\ d \in RouterState /\ d.queue = s.queue
      /\ d.obuf = s.obuf /\ d.built = s.built /\ d.recv = p.seq
  <2>1. Sound(d) /\ d.nbr = s.nbr
    BY <1>1, HeardSound
  <2> QED BY <1>1, <2>1 DEF RouterState
<1>3. UpdateReceive(s, p)
        = IF u.nbr = "up" /\ p.kind # "init" THEN x ELSE u
  BY DEF UpdateReceive
<1> HIDE DEF d
<1>4. OnLine(s, d)
  BY <1>1, <1>2, SameOnLine
<1>5. /\ OnLine(d, InitReceive(d, p)) /\ InitReceive(d, p).nbr # "up"
      /\ (d.nbr # "up" => InitReceive(d, p) = d)
  BY <1>2, InitReceiveOnLine
<1>6. OnLine(s, InitReceive(d, p))
  BY <1>1, <1>2, <1>4, <1>5, OnLineTransitive
<1>7. OnLine(s, u) /\ u \in RouterState
  BY <1>4, <1>6 DEF OnLine
<1>8. /\ u.nbr = "up" => u.recv = p.seq
      /\ u.nbr = "pending" => \/ s.nbr # "up" /\ u.built = s.built
                              \/ s.nbr = "up" /\ s.recv # p.seq
  BY <1>2, <1>5
<1> HIDE DEF u
<1>9. u.recv \in Nat
  BY <1>7 DEF RouterState
<1>10. OnLine(u, x) /\ x.nbr = u.nbr /\ x.recv = u.recv
  BY <1>1, <1>7, <1>9, OutOnLine, OutKeeps DEF Outputs
<1> HIDE DEF x
<1>11. OnLine(s, x)
  BY <1>1, <1>7, <1>10, OnLineTransitive
<1> QED BY <1>3, <1>7, <1>8, <1>10, <1>11

LEMMA QueryReceiveOnLine ==
    ASSUME NEW s, Sound(s), s.nbr # "none", NEW p \in Sent
    PROVE  LET t == QueryReceive(s, p) IN
           OnLine(s, t) /\ t.recv = p.seq /\ t.built = s.built
<1> DEFINE d == [s EXCEPT !.recv = p.seq]
<1>1. s \in RouterState /\ p.seq \in Nat /\ "hello" \in Hello
  BY DEF Sound, Sent, Hello
<1>2. /\ d \in RouterState /\ d.queue = s.queue /\ d.obuf = s.obuf
      /\ d.built = s.built /\ d.recv = p.seq
  BY <1>1 DEF RouterState
<1>3. QueryReceive(s, p) = Out(d, "hello", p.seq)
  BY DEF QueryReceive
<1> HIDE DEF d
<1>4. OnLine(s, d)
  BY <1>1, <1>2, SameOnLine
<1>5. /\ OnLine(d, Out(d, "hello", p.seq)) /\ Out(d, "hello", p.seq).recv = d.recv
      /\ Out(d, "hello", p.seq).built = d.built
  BY <1>1, <1>2, OutOnLine, OutKeeps DEF Outputs
<1>6. OnLine(s, Out(d, "hello", p.seq))
  BY <1>1, <1>2, <1>4, <1>5, OnLineTransitive
<1> QED BY <1>2, <1>3, <1>5, <1>6

LEMMA HelloReceiveOnLine ==
    ASSUME NEW s, Sound(s), NEW kind \in Hello
    PROVE  LET t == HelloReceive(s, kind) IN
           /\ OnLine(s, t)
           /\ t = s \/ t.nbr = "none" \/ (s.nbr = "none" /\ t.nbr = "pending")
<1> DEFINE o == Out(s, "hello", 0)
           v == SendInit(o)
           g == [v EXCEPT !.nbr = "pending"]
           k == IF s.nbr = "none" THEN g ELSE s
<1>1. s \in RouterState /\ "hello" \in Hello /\ 0 \in Nat
  BY DEF Sound, Hello
<1>2. OnLine(s, o) /\ o \in RouterState
  BY <1>1, OutOnLine DEF OnLine
<1>3. HelloReceive(s, kind) = IF kind = "bye" THEN Delete(k) ELSE k
  BY DEF HelloReceive
<1> HIDE DEF o
<1>4. OnLine(o, v) /\ v \in RouterState
  BY <1>2, SendInitOnLine DEF OnLine
<1> HIDE DEF v
<1>5. /\ g \in RouterState /\ g.queue = v.queue /\ g.obuf = v.obuf
      /\ g.built = v.built /\ g.nbr = "pending"
  BY <1>4 DEF RouterState, NbrState
<1> HIDE DEF g
<1>6. OnLine(v, g)
  BY <1>4, <1>5, SameOnLine
<1>7. OnLine(s, v)
  BY <1>1, <1>2, <1>4, OnLineTransitive
<1>8. OnLine(s, g)
  BY <1>1, <1>4, <1>6, <1>7, OnLineTransitive
<1>9. OnLine(s, s)
  BY <1>1, SameOnLine
<1>10. OnLine(s, k) /\ k \in RouterState
  BY <1>1, <1>5, <1>8, <1>9
<1>11. k = s \/ (s.nbr = "none" /\ k.nbr = "pending")
  BY <1>5
<1> HIDE DEF k
<1>12. OnLine(k, Delete(k)) /\ Delete(k).nbr = "none"
  BY <1>10, DeleteOnLine
<1>13. OnLine(s, Delete(k))
  BY <1>1, <1>10, <1>12, OnLineTransitive
<1> QED BY <1>3, <1>10, <1>11, <1>12, <1>13

\* Any packet: its number is remembered if the adjacency is UP afterwards, and
\* a peer that is known is greeted anew only for a number that differs.
LEMMA PacketReadOnLine ==
    ASSUME NEW s, Sound(s), NEW p \in Sent
    PROVE  LET t == PacketRead(s, p)
               handled == p.kind \in Reliable /\ s.nbr # "none" IN
           /\ OnLine(s, t)
           /\ handled /\ t.nbr = "up" => t.recv = p.seq
           /\ ~handled /\ t.nbr = "up" => s.nbr = "up" /\ t.recv = s.recv
           /\ s.nbr # "none" /\ t.nbr = "pending" /\ t.built > s.built
                 => handled /\ s.nbr = "up" /\ s.recv # p.seq
<1>1. /\ p.kind \in Hello \cup Update \cup {"query"}
      /\ Hello \cap Reliable = {} /\ "query" \notin Update
      /\ Reliable = Update \cup {"query"}
  BY DEF Sent, Hello, Reliable, Update
<1>2. s \in RouterState /\ ~(s.built > s.built) /\ OnLine(s, s)
  <2>1. s \in RouterState /\ s.built \in Nat
    BY Parts DEF Sound
  <2> QED BY <2>1, SameOnLine
<1>3. CASE p.kind \in Hello
  <2>1. PacketRead(s, p) = HelloReceive(s, p.kind) /\ p.kind \notin Reliable
    BY <1>1, <1>3 DEF PacketRead
  <2>2. /\ OnLine(s, HelloReceive(s, p.kind))
        /\ \/ HelloReceive(s, p.kind) = s
           \/ HelloReceive(s, p.kind).nbr = "none"
           \/ s.nbr = "none" /\ HelloReceive(s, p.kind).nbr = "pending"
    BY <1>3, HelloReceiveOnLine
  <2> QED BY <1>2, <2>1, <2>2
<1>4. CASE p.kind \in Reliable /\ s.nbr = "none"
  <2>1. PacketRead(s, p) = s
    BY <1>1, <1>4 DEF PacketRead
  <2> QED BY <1>2, <1>4, <2>1
<1>5. CASE p.kind \in Reliable /\ s.nbr # "none"
  <2> DEFINE a == AckReceive(s, p)
  <2>1. Sound(a) /\ a.nbr # "none" /\ a \in RouterState
    BY <1>5, AckReceiveSound DEF Sound
  <2>2. /\ OnLine(s, a)
        /\ s.nbr = "up" => a.nbr = "up" /\ a.recv = s.recv
        /\ s.nbr = "pending" => a = s \/ (a.nbr = "up" /\ a.recv = p.seq)
    BY <1>5, AckReceiveOnLine
  <2>3. s.nbr = "up" \/ s.nbr = "pending"
    BY <1>5 DEF Sound, RouterState, NbrState
  <2>4. PacketRead(s, p) = IF p.kind = "query" THEN QueryReceive(a, p)
                           ELSE UpdateReceive(a, p)
    BY <1>1, <1>5 DEF PacketRead
  <2> HIDE DEF a
  <2>5. CASE p.kind = "query"
    <3> DEFINE t == QueryReceive(a, p)
    <3>1. OnLine(a, t) /\ t.recv = p.seq /\ t.built = a.built
      BY <2>1, QueryReceiveOnLine
    <3>2. t.nbr = a.nbr
      BY <2>1, OutKeeps DEF QueryReceive, Outputs, RouterState, Sent, Hello
    <3>3. PacketRead(s, p) = t
      BY <2>4, <2>5
    <3> HIDE DEF t
    <3>4. OnLine(s, t)
      BY <1>2, <2>1, <2>2, <3>1, OnLineTransitive
    <3>5. ~(t.nbr = "pending" /\ t.built > s.built)
      BY <1>2, <2>2, <2>3, <3>1, <3>2
    <3> QED BY <1>5, <3>1, <3>3, <3>4, <3>5
  <2>6. CASE p.kind # "query"
    <3> DEFINE t == UpdateReceive(a, p)
    <3>1. /\ OnLine(a, t)
          /\ t.nbr = "up" => t.recv = p.seq
          /\ t.nbr = "pending" => \/ a.nbr # "up" /\ t.built = a.built
                                  \/ a.nbr = "up" /\ a.recv # p.seq
      BY <2>1, UpdateReceiveOnLine
    <3>2. PacketRead(s, p) = t
      BY <2>4, <2>6
    <3> HIDE DEF t
    <3>3. OnLine(s, t)
      BY <1>2, <2>1, <2>2, <3>1, OnLineTransitive
    <3>4. t.nbr = "pending" /\ t.built > s.built
            => s.nbr = "up" /\ s.recv # p.seq
      <4> SUFFICES ASSUME t.nbr = "pending", t.built > s.built
                   PROVE  s.nbr = "up" /\ s.recv # p.seq
        OBVIOUS
      <4>1. CASE a = s
        BY <1>2, <3>1, <4>1
      <4>2. CASE a.nbr = "up" /\ a.recv = p.seq /\ s.nbr = "pending"
        BY <2>2, <3>1, <4>2
      <4>3. CASE s.nbr = "up"
        BY <2>2, <3>1, <4>3
      <4> QED BY <2>2, <2>3, <4>1, <4>2, <4>3
    <3> QED BY <1>5, <3>1, <3>2, <3>3, <3>4
  <2> QED BY <2>5, <2>6
<1> QED BY <1>1, <1>3, <1>4, <1>5

-----------------------------------------------------------------------------
(* The link.                                                               *)

\* A packet of the output queue goes to the link.
LEMMA WriteLine ==
    ASSUME NEW s \in RouterState, NEW t \in RouterState, NEW w \in Seq(Sent),
           NEW h \in Nat, NEW u, Line(s, w, h, u), Way(w, h, u), s.obuf # <<>>,
           NEW m \in Sent, m.kind = s.obuf[1].kind, m.id = s.obuf[1].id,
           m.seq = s.obuf[1].seq,
           t.obuf = Tail(s.obuf), t.queue = s.queue, t.built = s.built
    PROVE  Line(t, Append(w, m), h, u) /\ Way(Append(w, m), h, u)
<1> DEFINE n == Len(w)
           x == Append(w, m)
           k == Len(s.obuf)
           o == s.obuf
<1>1. /\ Len(x) = n + 1 /\ x[n + 1] = m /\ n \in Nat
      /\ \A i \in 1..n : x[i] = w[i]
  BY OnTheLink, AppendProperties
<1>2. \A i \in 1..(n + 1) : i \in 1..n \/ i = n + 1
  BY <1>1
<1>3. /\ k \in Nat /\ k > 0 /\ 1 \in 1..k /\ Len(t.obuf) = k - 1
      /\ \A i \in 1..(k - 1) : i + 1 \in 1..k /\ t.obuf[i] = o[i + 1]
  BY Parts, HeadTailProperties, EmptySeq
<1> HIDE DEF x, n
<1>4. Line(s, w, h, u)
  OBVIOUS
<1>5. /\ \A i \in 1..k : HeardBefore(h, u, o[i])
      /\ \A i \in 1..k, j \in 1..n : Follows(w[j], o[i])
      /\ \A i \in 1..(k - 1) : Follows(o[1], o[i + 1])
  <2>1. \A i \in 1..(k - 1) : 1 < i + 1
    BY <1>3
  <2> QED BY <1>3, <1>4, <2>1 DEF Line, May, InOrder, n
<1>6. s.queue # <<>> =>
        /\ HeardBefore(h, u, s.queue[1])
        /\ \A j \in 1..n : Follows(w[j], s.queue[1])
        /\ \A i \in 1..k : Follows(o[i], s.queue[1])
  BY <1>4 DEF Line, May, n
<1>7. /\ \A j \in 1..n : Follows(w[j], m)
      /\ HeardBefore(h, u, m)
      /\ \A i \in 1..(k - 1) : Follows(m, o[i + 1])
      /\ s.queue # <<>> => Follows(m, s.queue[1])
  BY <1>3, <1>5, <1>6 DEF Follows, HeardBefore
<1>8. Way(x, h, u)
  <2>1. InOrder(x)
    BY <1>1, <1>2, <1>7 DEF Way, InOrder, n
  <2>2. \A i \in 1..Len(x) : HeardBefore(h, u, x[i])
    BY <1>1, <1>2, <1>7 DEF Way, n
  <2> QED BY <2>1, <2>2 DEF Way
<1>9. Line(t, x, h, u)
  <2>1. h <= t.built /\ Rising(t, t.queue)
    BY <1>4 DEF Line, Rising
  <2>2. Built(t, x)
    BY <1>1, <1>2, <1>3, <1>4 DEF Line, Built, n
  <2>3. Built(t, t.obuf)
    BY <1>3, <1>4 DEF Line, Built
  <2>4. InOrder(t.obuf)
    <3>1. \A i, j \in 1..(k - 1) : i < j => i + 1 < j + 1
      BY <1>3
    <3> QED BY <1>3, <1>4, <3>1 DEF Line, InOrder
  <2>5. ASSUME NEW i \in 1..Len(t.obuf)
        PROVE  May(x, h, u, t.obuf[i])
    <3>1. t.obuf[i] = o[i + 1] /\ i + 1 \in 1..k /\ i \in 1..(k - 1)
      BY <1>3, <2>5
    <3>2. \A j \in 1..Len(x) : Follows(x[j], o[i + 1])
      BY <1>1, <1>2, <1>5, <1>7, <3>1
    <3> QED BY <1>5, <3>1, <3>2 DEF May
  <2>6. ASSUME t.queue # <<>>
        PROVE  /\ May(x, h, u, t.queue[1])
               /\ \A i \in 1..Len(t.obuf) : Follows(t.obuf[i], t.queue[1])
    <3>1. \A j \in 1..Len(x) : Follows(x[j], t.queue[1])
      BY <1>1, <1>2, <1>6, <1>7, <2>6
    <3> QED BY <1>3, <1>6, <2>6, <3>1 DEF May
  <2> QED BY <2>1, <2>2, <2>3, <2>4, <2>5, <2>6 DEF Line
<1> QED BY <1>8, <1>9 DEF x

\* A packet leaves the link.  If the listener handles it, what is behind it is
\* newer than what was heard now, or a copy; else nothing was heard.
LEMMA ArriveLine ==
    ASSUME NEW s \in RouterState, NEW w \in Seq(Sent), w # <<>>,
           NEW h \in Nat, NEW u, Line(s, w, h, u), Way(w, h, u),
           NEW g \in Nat, NEW v,
           \/ /\ w[1].kind \in Reliable /\ g = w[1].id
              /\ v.nbr = "up" => v.recv = w[1].seq
           \/ /\ g = h
              /\ v.nbr = "up" => u.nbr = "up" /\ v.recv = u.recv
    PROVE  /\ Line(s, Tail(w), g, v) /\ Way(Tail(w), g, v)
           /\ h <= g /\ g <= s.built
<1> DEFINE n == Len(w)
           x == Tail(w)
           p == w[1]
<1>1. /\ n \in Nat /\ 1 \in 1..n /\ Len(x) = n - 1
      /\ \A i \in 1..(n - 1) : i + 1 \in 1..n /\ x[i] = w[i + 1]
  BY OnTheLink, HeadTailProperties, EmptySeq
<1>2. p \in Sent /\ p.id \in Nat
  BY <1>1, OnTheLink
<1> HIDE DEF x
<1>3. Line(s, w, h, u) /\ Way(w, h, u)
  OBVIOUS
<1>4. \A q : HeardBefore(h, u, q) /\ Follows(p, q) => HeardBefore(g, v, q)
  BY DEF HeardBefore, Follows
<1>5. h <= g /\ g <= s.built
  <2>1. h \in Nat /\ s.built \in Nat /\ h <= s.built
    BY <1>3, Parts DEF Line
  <2>2. p.kind \in Reliable => h <= p.id /\ p.id <= s.built
    BY <1>1, <1>2, <1>3 DEF Line, Way, HeardBefore, Built
  <2> QED BY <2>1, <2>2
<1>6. Way(x, g, v)
  <2>1. InOrder(x)
    <3>1. \A i, j \in 1..(n - 1) : i < j => i + 1 < j + 1
      BY <1>1
    <3> QED BY <1>1, <1>3, <3>1 DEF Way, InOrder
  <2>2. ASSUME NEW i \in 1..Len(x)
        PROVE  HeardBefore(g, v, x[i])
    <3>1. i + 1 \in 1..n /\ x[i] = w[i + 1] /\ 1 < i + 1
      BY <1>1
    <3>2. Follows(p, w[i + 1])
      BY <1>1, <1>3, <3>1 DEF Way, InOrder
    <3>3. HeardBefore(h, u, w[i + 1])
      BY <1>3, <3>1 DEF Way
    <3> QED BY <1>4, <3>1, <3>2, <3>3
  <2> QED BY <2>1, <2>2 DEF Way
<1>7. \A q : May(w, h, u, q) => May(x, g, v, q)
  BY <1>1, <1>4 DEF May
<1>8. Built(s, x)
  BY <1>1, <1>3 DEF Line, Built
<1>9. Line(s, x, g, v)
  BY <1>3, <1>5, <1>7, <1>8 DEF Line
<1> QED BY <1>5, <1>6, <1>9 DEF x

\* The listener forgets a number, or remembers the one it had.
LEMMA ListenerLine ==
    ASSUME NEW s, NEW w, NEW h, NEW u, Line(s, w, h, u), Way(w, h, u), NEW v,
           v.nbr = "up" => u.nbr = "up" /\ v.recv = u.recv
    PROVE  Line(s, w, h, v) /\ Way(w, h, v)
<1>1. \A q : HeardBefore(h, u, q) => HeardBefore(h, v, q)
  BY DEF HeardBefore
<1>2. \A q : May(w, h, u, q) => May(w, h, v, q)
  BY <1>1 DEF May
<1> QED BY <1>1, <1>2 DEF Line, Way

-----------------------------------------------------------------------------
(* The steps.                                                              *)

LEMMA TwoRouters ==
    ASSUME NEW r \in Router
    PROVE  /\ Peer(r) \in Router /\ Peer(r) # r /\ Peer(Peer(r)) = r
           /\ \A x \in Router : x = r \/ x = Peer(r)
<1>1. Peer(r) \in Router /\ Peer(Peer(r)) \in Router
  BY PeerType
<1>2. \A x, y, z \in Router : x # y /\ y # z => x = z
  <2> SUFFICES ASSUME NEW x \in Router, NEW y \in Router, NEW z \in Router,
                      x # y, y # z, x # z
               PROVE  FALSE
    OBVIOUS
  <2>1. IsFiniteSet({x}) /\ Cardinality({x}) = 1
    BY FS_Singleton
  <2>2. IsFiniteSet({x, y}) /\ Cardinality({x, y}) = 2
    <3>1. {x, y} = {x} \cup {y} /\ y \notin {x}
      OBVIOUS
    <3> QED BY <2>1, <3>1, FS_AddElement
  <2>3. Cardinality({x, y, z}) = 3
    <3>1. {x, y, z} = {x, y} \cup {z} /\ z \notin {x, y}
      OBVIOUS
    <3> QED BY <2>2, <3>1, FS_AddElement
  <2>4. Cardinality({x, y, z}) <= Cardinality(Router)
    <3>1. {x, y, z} \subseteq Router
      OBVIOUS
    <3> QED BY <3>1, FS_Subset, RouterAssumption
  <2> QED BY <2>3, <2>4, RouterAssumption
<1>3. \A x \in Router : Peer(x) # x
  <2> SUFFICES ASSUME NEW x \in Router PROVE Peer(x) # x
    OBVIOUS
  <2>1. \E y \in Router : y # x
    <3> SUFFICES ASSUME \A y \in Router : y = x PROVE FALSE
      OBVIOUS
    <3>1. Router = {x}
      OBVIOUS
    <3>2. Cardinality({x}) = 1
      BY FS_Singleton
    <3> QED BY <3>1, <3>2, RouterAssumption
  <2> QED BY <2>1 DEF Peer
<1>4. Peer(r) # r /\ Peer(Peer(r)) # Peer(r)
  BY <1>1, <1>3
<1>5. Peer(Peer(r)) = r
  BY <1>1, <1>2, <1>4
<1>6. \A x \in Router : x = r \/ x = Peer(r)
  BY <1>1, <1>2, <1>4
<1> QED BY <1>1, <1>4, <1>5, <1>6

\* What a step of router r does to what a reader of the channel sees.
Moves(r) ==
    /\ \A x \in Router \ {r} : rt'[x] = rt[x] /\ heard'[x] = heard[x]
    /\ rt[r].built <= rt'[r].built
    /\ heard[r] <= heard'[r] /\ heard'[r] <= rt[Peer(r)].built
    /\ (rt[r].nbr # "none" /\ rt'[r].nbr = "pending" /\ rt'[r].built > rt[r].built)
          => heard'[r] > heard[r]

\* What the invariant says of a router and its peer.
LEMMA BothWays ==
    ASSUME IInv, ChannelInv, NEW r \in Router
    PROVE  LET p == Peer(r) IN
           /\ p \in Router /\ Sound(rt[r]) /\ Sound(rt[p])
           /\ rt[r] \in RouterState /\ rt[p] \in RouterState
           /\ wire[r] \in Seq(Sent) /\ wire[p] \in Seq(Sent)
           /\ heard[r] \in Nat /\ heard[p] \in Nat
           /\ rt[r].built \in Nat /\ heard[r] <= rt[p].built
           /\ Line(rt[r], wire[r], heard[p], rt[p]) /\ Way(wire[r], heard[p], rt[p])
           /\ Line(rt[p], wire[p], heard[r], rt[r]) /\ Way(wire[p], heard[r], rt[r])
<1> DEFINE p == Peer(r)
<1>1. p \in Router /\ Peer(p) = r
  BY TwoRouters
<1> HIDE DEF p
<1>2. /\ Sound(rt[r]) /\ Sound(rt[p])
      /\ rt[r] \in RouterState /\ rt[p] \in RouterState
      /\ wire[r] \in Seq(Sent) /\ wire[p] \in Seq(Sent)
      /\ heard[r] \in Nat /\ heard[p] \in Nat
  BY <1>1 DEF IInv
<1>3. rt[r].built \in Nat
  BY <1>2, Parts
<1>4. Line(rt[p], wire[p], heard[r], rt[r]) /\ Way(wire[p], heard[r], rt[r])
  BY <1>1 DEF ChannelInv
<1>5. Line(rt[r], wire[r], heard[p], rt[p]) /\ Way(wire[r], heard[p], rt[p])
  BY DEF ChannelInv, p
<1>6. heard[r] <= rt[p].built
  BY <1>4 DEF Line
<1> QED BY <1>1, <1>2, <1>3, <1>4, <1>5, <1>6 DEF p

\* It is enough to look at both ways after the step.
LEMMA BothWaysAfter ==
    ASSUME NEW r \in Router,
           LET p == Peer(r) IN
           /\ Line(rt'[r], wire'[r], heard'[p], rt'[p])
           /\ Way(wire'[r], heard'[p], rt'[p])
           /\ Line(rt'[p], wire'[p], heard'[r], rt'[r])
           /\ Way(wire'[p], heard'[r], rt'[r])
    PROVE  ChannelInv'
<1> SUFFICES ASSUME NEW x \in Router
             PROVE  /\ Line(rt'[x], wire'[x], heard'[Peer(x)], rt'[Peer(x)])
                    /\ Way(wire'[x], heard'[Peer(x)], rt'[Peer(x)])
  BY DEF ChannelInv
<1>1. x = r \/ (x = Peer(r) /\ Peer(x) = r)
  BY TwoRouters
<1> QED BY <1>1

\* A router does something without reading: it may build packets and queue
\* copies, and its adjacency ends or is what it was.
LEMMA TalkStep ==
    ASSUME IInv, ChannelInv, NEW r \in Router, NEW s, Becomes(r, s),
           OnLine(rt[r], s), s.nbr = "up" => rt[r].nbr = "up" /\ s.recv = rt[r].recv,
           s.nbr = "pending" => rt[r].nbr = "none" \/ s.built = rt[r].built,
           UNCHANGED <<wire, heard>>
    PROVE  ChannelInv' /\ Moves(r)
<1> DEFINE p == Peer(r)
<1>1. /\ p \in Router /\ p # r
      /\ rt[r] \in RouterState /\ rt[p] \in RouterState
      /\ wire[r] \in Seq(Sent) /\ heard[p] \in Nat
      /\ rt[r].built \in Nat /\ heard[r] \in Nat /\ heard[r] <= rt[p].built
      /\ Line(rt[r], wire[r], heard[p], rt[p]) /\ Way(wire[r], heard[p], rt[p])
      /\ Line(rt[p], wire[p], heard[r], rt[r]) /\ Way(wire[p], heard[r], rt[r])
  BY BothWays, TwoRouters
<1> HIDE DEF p
<1>2. /\ rt'[r] = s /\ \A x \in Router \ {r} : rt'[x] = rt[x]
      /\ wire' = wire /\ heard' = heard
  BY DEF Becomes, IInv
<1>3. rt'[p] = rt[p]
  BY <1>1, <1>2
<1>4. Line(s, wire[r], heard[p], rt[p])
  BY <1>1 DEF OnLine
<1>5. Line(rt[p], wire[p], heard[r], s) /\ Way(wire[p], heard[r], s)
  BY <1>1, ListenerLine
<1>6. /\ Line(rt'[r], wire'[r], heard'[p], rt'[p])
      /\ Way(wire'[r], heard'[p], rt'[p])
      /\ Line(rt'[p], wire'[p], heard'[r], rt'[r])
      /\ Way(wire'[p], heard'[r], rt'[r])
  BY <1>1, <1>2, <1>3, <1>4, <1>5
<1>7. ChannelInv'
  BY <1>6, BothWaysAfter DEF p
<1>8. rt[r].built <= s.built
  BY DEF OnLine
<1>9. Moves(r)
  BY <1>1, <1>2, <1>8 DEF Moves, p
<1> QED BY <1>7, <1>9

LEMMA WriteStep ==
    ASSUME IInv, ChannelInv, NEW r \in Router, Write(r)
    PROVE  ChannelInv' /\ Moves(r)
<1> DEFINE p == Peer(r)
           o == rt[r].obuf
           e == Head(o)
           m == [kind |-> e.kind, id |-> e.id, seq |-> e.seq,
                 ack |-> IF e.nbr = "live" THEN rt[r].recv ELSE e.ack]
           s == [rt[r] EXCEPT !.obuf = Tail(o)]
<1>1. /\ p \in Router /\ p # r
      /\ rt[r] \in RouterState /\ rt[p] \in RouterState
      /\ wire[r] \in Seq(Sent) /\ heard[p] \in Nat
      /\ rt[r].built \in Nat /\ heard[r] \in Nat /\ heard[r] <= rt[p].built
      /\ Line(rt[r], wire[r], heard[p], rt[p]) /\ Way(wire[r], heard[p], rt[p])
      /\ Line(rt[p], wire[p], heard[r], rt[r]) /\ Way(wire[p], heard[r], rt[r])
  BY BothWays, TwoRouters
<1> HIDE DEF p
<1>2. o \in Seq(Output) /\ o # <<>> /\ rt[r].recv \in Nat
  BY <1>1 DEF Write, RouterState
<1>3. e \in Output /\ e = o[1] /\ Tail(o) \in Seq(Output)
  BY <1>2, HeadTailProperties
<1>4. m \in Sent /\ m.kind = o[1].kind /\ m.id = o[1].id /\ m.seq = o[1].seq
  BY <1>2, <1>3 DEF Output, Sent
<1>5. /\ s \in RouterState /\ s.obuf = Tail(o) /\ s.queue = rt[r].queue
      /\ s.built = rt[r].built /\ s.nbr = rt[r].nbr /\ s.recv = rt[r].recv
  BY <1>1, <1>3 DEF RouterState
<1>6. CASE e.nbr = "freed"
  <2>1. UNCHANGED <<rt, wire, heard>>
    BY <1>6 DEF Write
  <2>2. ChannelInv'
    BY <2>1 DEF ChannelInv
  <2>3. Moves(r)
    BY <1>1, <2>1 DEF Moves, p
  <2> QED BY <2>2, <2>3
<1>7. CASE e.nbr # "freed"
  <2>1. /\ wire' = [wire EXCEPT ![r] = Append(wire[r], m)] /\ Becomes(r, s)
        /\ heard' = heard
    BY <1>7 DEF Write
  <2> HIDE DEF m, s, e, o
  <2>2. /\ rt'[r] = s /\ \A x \in Router \ {r} : rt'[x] = rt[x]
    BY <2>1 DEF Becomes, IInv
  <2>3. wire'[r] = Append(wire[r], m) /\ wire'[p] = wire[p] /\ rt'[p] = rt[p]
    BY <1>1, <2>1, <2>2 DEF IInv
  <2>4. /\ Line(s, Append(wire[r], m), heard[p], rt[p])
        /\ Way(Append(wire[r], m), heard[p], rt[p])
    BY <1>1, <1>2, <1>4, <1>5, WriteLine DEF o
  <2>5. Line(rt[p], wire[p], heard[r], s) /\ Way(wire[p], heard[r], s)
    BY <1>1, <1>5, ListenerLine
  <2>6. /\ Line(rt'[r], wire'[r], heard'[p], rt'[p])
        /\ Way(wire'[r], heard'[p], rt'[p])
        /\ Line(rt'[p], wire'[p], heard'[r], rt'[r])
        /\ Way(wire'[p], heard'[r], rt'[r])
    BY <2>1, <2>2, <2>3, <2>4, <2>5
  <2>7. ChannelInv'
    BY <2>6, BothWaysAfter DEF p
  <2>8. Moves(r)
    BY <1>1, <1>5, <2>1, <2>2 DEF Moves, p
  <2> QED BY <2>7, <2>8
<1> QED BY <1>6, <1>7

LEMMA LoseStep ==
    ASSUME IInv, ChannelInv, NEW r \in Router, Lose(r)
    PROVE  ChannelInv' /\ Moves(r)
<1> DEFINE p == Peer(r)
<1>1. /\ p \in Router /\ p # r
      /\ rt[r] \in RouterState /\ rt[p] \in RouterState
      /\ wire[r] \in Seq(Sent) /\ heard[p] \in Nat
      /\ rt[r].built \in Nat /\ heard[r] \in Nat /\ heard[r] <= rt[p].built
      /\ Line(rt[r], wire[r], heard[p], rt[p]) /\ Way(wire[r], heard[p], rt[p])
      /\ Line(rt[p], wire[p], heard[r], rt[r]) /\ Way(wire[p], heard[r], rt[r])
  BY BothWays, TwoRouters
<1> HIDE DEF p
<1>2. /\ rt' = rt /\ heard' = heard /\ wire[r] # <<>>
      /\ wire'[r] = Tail(wire[r]) /\ wire'[p] = wire[p]
  BY <1>1 DEF Lose, IInv
<1>3. /\ Line(rt[r], Tail(wire[r]), heard[p], rt[p])
      /\ Way(Tail(wire[r]), heard[p], rt[p])
  BY <1>1, <1>2, ArriveLine
<1>4. /\ Line(rt'[r], wire'[r], heard'[p], rt'[p])
      /\ Way(wire'[r], heard'[p], rt'[p])
      /\ Line(rt'[p], wire'[p], heard'[r], rt'[r])
      /\ Way(wire'[p], heard'[r], rt'[r])
  BY <1>1, <1>2, <1>3
<1>5. ChannelInv'
  BY <1>4, BothWaysAfter DEF p
<1>6. Moves(r)
  BY <1>1, <1>2 DEF Moves, p
<1> QED BY <1>5, <1>6

LEMMA ReadStep ==
    ASSUME IInv, ChannelInv, NEW r \in Router, Read(r)
    PROVE  ChannelInv' /\ Moves(r)
<1> DEFINE p == Peer(r)
           w == wire[p]
           e == Head(w)
           s == PacketRead(rt[r], e)
           handled == e.kind \in Reliable /\ rt[r].nbr # "none"
           g == IF handled THEN e.id ELSE heard[r]
<1>1. /\ p \in Router /\ p # r /\ Sound(rt[r])
      /\ rt[r] \in RouterState /\ rt[p] \in RouterState
      /\ wire[r] \in Seq(Sent) /\ w \in Seq(Sent) /\ heard[p] \in Nat
      /\ rt[r].built \in Nat /\ heard[r] \in Nat
      /\ Line(rt[r], wire[r], heard[p], rt[p]) /\ Way(wire[r], heard[p], rt[p])
      /\ Line(rt[p], w, heard[r], rt[r]) /\ Way(w, heard[r], rt[r])
  BY BothWays, TwoRouters
<1>2. /\ Becomes(r, s) /\ w # <<>> /\ wire' = [wire EXCEPT ![p] = Tail(w)]
      /\ heard' = IF handled THEN [heard EXCEPT ![r] = e.id] ELSE heard
  BY DEF Read
<1> HIDE DEF p, w, s
<1>3. e \in Sent /\ e = w[1] /\ e.id \in Nat
  <2>1. e \in Sent /\ e = w[1]
    BY <1>1, <1>2, HeadTailProperties
  <2> QED BY <2>1 DEF Sent
<1>4. /\ OnLine(rt[r], s)
      /\ handled /\ s.nbr = "up" => s.recv = e.seq
      /\ ~handled /\ s.nbr = "up" => rt[r].nbr = "up" /\ s.recv = rt[r].recv
      /\ rt[r].nbr # "none" /\ s.nbr = "pending" /\ s.built > rt[r].built
            => handled /\ rt[r].nbr = "up" /\ rt[r].recv # e.seq
  BY <1>1, <1>3, PacketReadOnLine DEF s
<1>5. handled => e.kind \in Reliable
  OBVIOUS
<1> HIDE DEF handled, e
<1>6. g \in Nat /\ (handled => g = e.id) /\ (~handled => g = heard[r])
  BY <1>1, <1>3
<1> HIDE DEF g
<1>7. /\ rt'[r] = s /\ (\A x \in Router \ {r} : rt'[x] = rt[x])
      /\ heard'[r] = g /\ \A x \in Router \ {r} : heard'[x] = heard[x]
  BY <1>2, <1>6 DEF Becomes, IInv
<1>8. /\ rt'[p] = rt[p] /\ heard'[p] = heard[p]
      /\ wire'[p] = Tail(w) /\ wire'[r] = wire[r]
  BY <1>1, <1>2, <1>7 DEF IInv, w
<1>9. /\ Line(rt[p], Tail(w), g, s) /\ Way(Tail(w), g, s)
      /\ heard[r] <= g /\ g <= rt[p].built
  <2>1. \/ /\ w[1].kind \in Reliable /\ g = w[1].id
           /\ s.nbr = "up" => s.recv = w[1].seq
        \/ /\ g = heard[r]
           /\ s.nbr = "up" => rt[r].nbr = "up" /\ s.recv = rt[r].recv
    BY <1>3, <1>4, <1>5, <1>6
  <2> QED BY <1>1, <1>2, <1>6, <2>1, ArriveLine
<1>10. Line(s, wire[r], heard[p], rt[p])
  BY <1>1, <1>4 DEF OnLine
<1>11. /\ Line(rt'[r], wire'[r], heard'[p], rt'[p])
       /\ Way(wire'[r], heard'[p], rt'[p])
       /\ Line(rt'[p], wire'[p], heard'[r], rt'[r])
       /\ Way(wire'[p], heard'[r], rt'[r])
  BY <1>1, <1>7, <1>8, <1>9, <1>10
<1>12. ChannelInv'
  BY <1>11, BothWaysAfter DEF p
<1>13. rt[r].built <= s.built
  BY <1>4 DEF OnLine
<1>14. ASSUME rt[r].nbr # "none", s.nbr = "pending", s.built > rt[r].built
       PROVE  g > heard[r]
  <2>1. handled /\ rt[r].nbr = "up" /\ rt[r].recv # e.seq
    BY <1>4, <1>14
  <2>2. 1 \in 1..Len(w)
    <3>1. Len(w) \in Nat /\ Len(w) # 0
      BY <1>1, <1>2, EmptySeq
    <3> QED BY <3>1
  <2>3. HeardBefore(heard[r], rt[r], w[1])
    BY <1>1, <2>2 DEF Way
  <2> QED BY <1>1, <1>3, <1>5, <1>6, <2>1, <2>3 DEF HeardBefore
<1>15. Moves(r)
  BY <1>7, <1>9, <1>13, <1>14 DEF Moves, p
<1> QED BY <1>12, <1>15

\* A copy of the head is sent again.
LEMMA RetransTimerStep ==
    ASSUME IInv, ChannelInv, NEW r \in Router, RetransTimer(r)
    PROVE  ChannelInv' /\ Moves(r)
<1> DEFINE s == rt[r]
           p == Head(s.queue)
           c == OutCopy(s, p, "live")
           held == [p EXCEPT !.count = p.count + 1,
                             !.timer = p.count + 1 # RetransMax]
           q == [s.queue EXCEPT ![1] = held]
           t == [c EXCEPT !.queue = q]
<1>1. Sound(s) /\ s \in RouterState /\ s.queue \in Seq(Held) /\ s.queue # <<>>
  BY DEF IInv, RetransTimer, Sound, RouterState
<1>2. p \in Held /\ p = s.queue[1]
  BY <1>1, HeadTailProperties
<1>3. held \in Held /\ held.id = s.queue[1].id /\ held.seq = s.queue[1].seq
  <2> DEFINE n == p.count + 1
             b == n # RetransMax
  <2>1. n \in Nat /\ b \in BOOLEAN
    BY <1>2 DEF Held
  <2> HIDE DEF p, b, n
  <2>2. LET e == [p EXCEPT !.count = n, !.timer = b] IN
          e \in Held /\ e.id = p.id /\ e.seq = p.seq
    BY <1>2, <2>1 DEF Held
  <2> QED BY <1>2, <2>2 DEF b, n
<1>4. Outputs(s, c)
  BY <1>1, <1>2, OutCopyKeeps
<1>5. Becomes(r, t)
  <2>1. c.queue = s.queue /\ c \in RouterState
    BY <1>4 DEF Outputs
  <2>2. Becomes(r, [c EXCEPT !.queue[1].count = @ + 1,
                            !.queue[1].timer = p.count + 1 # RetransMax])
    BY DEF RetransTimer
  <2>3. [c EXCEPT !.queue[1].count = @ + 1,
                  !.queue[1].timer = p.count + 1 # RetransMax] = t
    <3> HIDE DEF c
    <3>1. s.queue[1] = p /\ 1 \in DOMAIN s.queue
      BY <1>1, <1>2, EmptySeq
    <3> QED BY <1>1, <1>2, <2>1, <3>1 DEF RouterState, Held
  <2> QED BY <2>2, <2>3
<1> HIDE DEF held
<1>6. q \in Seq(Held)
  BY <1>1, <1>3, HeadReplaced
<1>7. /\ c \in RouterState /\ c.built = s.built /\ c.nbr = s.nbr
      /\ c.recv = s.recv
  BY <1>4 DEF Outputs
<1> HIDE DEF s, p, c, q
<1>8. /\ t \in RouterState /\ t.built = s.built /\ t.queue = q
      /\ t.obuf = c.obuf /\ t.nbr = s.nbr /\ t.recv = s.recv
  BY <1>6, <1>7 DEF RouterState
<1> HIDE DEF t
<1>9. ASSUME NEW w \in Seq(Sent), NEW h \in Nat, NEW u \in RouterState,
             Line(s, w, h, u)
      PROVE  Line(t, w, h, u)
  BY <1>1, <1>3, <1>8, <1>9, HeadSentLine DEF c, q, p
<1>10. s.built <= t.built
  BY <1>1, <1>8, Parts
<1>11. OnLine(rt[r], t) /\ t.nbr = rt[r].nbr /\ t.recv = rt[r].recv
       /\ t.built = rt[r].built
  BY <1>8, <1>9, <1>10 DEF OnLine, s
<1>12. UNCHANGED <<wire, heard>>
  BY DEF RetransTimer
<1> QED BY <1>5, <1>11, <1>12, TalkStep

LEMMA InitInOrder == Init => ChannelInv
<1> SUFFICES ASSUME Init, NEW r \in Router
             PROVE  /\ Line(rt[r], wire[r], heard[Peer(r)], rt[Peer(r)])
                    /\ Way(wire[r], heard[Peer(r)], rt[Peer(r)])
  BY DEF ChannelInv
<1>1. rt[r] = Started /\ wire[r] = <<>> /\ heard[Peer(r)] = 0
  BY TwoRouters DEF Init
<1>2. /\ Started.queue = <<>> /\ Started.obuf = <<>> /\ Started.built = 0
      /\ Len(Started.queue) = 0 /\ Len(Started.obuf) = 0 /\ Len(wire[r]) = 0
  BY <1>1 DEF Started
<1>3. Way(wire[r], heard[Peer(r)], rt[Peer(r)])
  BY <1>2 DEF Way, InOrder
<1>4. Line(Started, wire[r], heard[Peer(r)], rt[Peer(r)])
  BY <1>1, <1>2 DEF Line, Built, Rising, InOrder
<1> QED BY <1>1, <1>3, <1>4

LEMMA StepInOrder ==
    ASSUME IInv, ChannelInv, Next
    PROVE  ChannelInv' /\ \E r \in Router : Moves(r)
<1>1. ASSUME NEW r \in Router,
             \/ Write(r) \/ Read(r) \/ Lose(r) \/ HelloTimer(r) \/ RetransTimer(r)
             \/ SendUpdate(r) \/ SendReply(r) \/ SendQuery(r)
             \/ HoldTimer(r) \/ ClearNeighbor(r) \/ Restart(r)
      PROVE  ChannelInv' /\ Moves(r)
  <2>0. /\ Sound(rt[r]) /\ rt[r] \in RouterState /\ Timed(rt[r].queue)
        /\ {"hello", "bye"} \subseteq Hello /\ 0 \in Nat
    BY DEF IInv, Sound, Hello
  <2>1. CASE Write(r)
    BY <2>1, WriteStep
  <2>2. CASE Read(r)
    BY <2>2, ReadStep
  <2>3. CASE Lose(r)
    BY <2>3, LoseStep
  <2>4. CASE HelloTimer(r)
    <3> DEFINE s == Out(rt[r], "hello", 0)
    <3>1. /\ OnLine(rt[r], s) /\ s.nbr = rt[r].nbr /\ s.recv = rt[r].recv
          /\ s.built = rt[r].built
      BY <2>0, OutOnLine, OutKeeps DEF Outputs
    <3>2. Becomes(r, s) /\ UNCHANGED <<wire, heard>>
      BY <2>4 DEF HelloTimer
    <3> HIDE DEF s
    <3> QED BY <3>1, <3>2, TalkStep
  <2>5. CASE RetransTimer(r)
    BY <2>5, RetransTimerStep
  <2>6. ASSUME NEW s, SendRoutes(r, s), OnLine(rt[r], s), s.nbr = rt[r].nbr,
               s.recv = rt[r].recv
        PROVE  ChannelInv' /\ Moves(r)
    <3>1. Becomes(r, s) /\ UNCHANGED <<wire, heard>> /\ rt[r].nbr = "up"
      BY <2>6 DEF SendRoutes
    <3> QED BY <2>6, <3>1, TalkStep
  <2>7. CASE SendUpdate(r)
    BY <2>0, <2>6, <2>7, SendChangesOnLine DEF SendUpdate
  <2>8. CASE SendReply(r)
    BY <2>0, <2>6, <2>8, SendToNeighborOnLine DEF SendReply
  <2>9. CASE SendQuery(r)
    BY <2>0, <2>6, <2>9, SendToInterfaceOnLine DEF SendQuery
  <2>10. ASSUME NEW s, Fails(r, s), OnLine(rt[r], s), s.nbr = "none"
         PROVE  ChannelInv' /\ Moves(r)
    <3>1. Becomes(r, s) /\ UNCHANGED <<wire, heard>>
      BY <2>10 DEF Fails
    <3> QED BY <2>10, <3>1, TalkStep
  <2>11. CASE HoldTimer(r)
    BY <2>0, <2>10, <2>11, DeleteOnLine DEF HoldTimer
  <2>12. CASE ClearNeighbor(r)
    <3> DEFINE d == Out(rt[r], "bye", 0)
    <3>1. OnLine(rt[r], d) /\ d \in RouterState
      BY <2>0, OutOnLine DEF OnLine
    <3>2. Fails(r, Delete(d))
      BY <2>12 DEF ClearNeighbor
    <3> HIDE DEF d
    <3>3. OnLine(d, Delete(d)) /\ Delete(d).nbr = "none"
      BY <3>1, DeleteOnLine
    <3>4. OnLine(rt[r], Delete(d))
      BY <2>0, <3>1, <3>3, OnLineTransitive
    <3> QED BY <2>10, <3>2, <3>3, <3>4
  <2>13. CASE Restart(r)
    <3> DEFINE s == [Started EXCEPT !.built = rt[r].built]
    <3>1. OnLine(rt[r], s) /\ s.nbr = "none"
      BY <2>0, StartedOnLine
    <3>2. Fails(r, s)
      BY <2>13 DEF Restart
    <3> HIDE DEF s
    <3> QED BY <2>10, <3>1, <3>2
  <2> QED BY <1>1, <2>1, <2>2, <2>3, <2>4, <2>5, <2>7, <2>8, <2>9, <2>11, <2>12,
             <2>13
<1> QED BY <1>1 DEF Next

LEMMA AlwaysInOrder == Spec => [](IInv /\ ChannelInv)
<1>1. Init => IInv /\ ChannelInv
  BY InitSound, InitInOrder
<1>2. IInv /\ ChannelInv /\ [Next]_vars => (IInv /\ ChannelInv)'
  <2> SUFFICES ASSUME IInv, ChannelInv, [Next]_vars
               PROVE  IInv' /\ ChannelInv'
    OBVIOUS
  <2>1. IInv'
    BY StepSound
  <2>2. CASE Next
    BY <2>1, <2>2, StepInOrder
  <2>3. CASE UNCHANGED vars
    BY <2>1, <2>3 DEF vars, ChannelInv
  <2> QED BY <2>2, <2>3
<1> QED BY <1>1, <1>2, PTL DEF Spec

-----------------------------------------------------------------------------
(* The theorems.                                                           *)

\* One packet at a time (eigrp_packet_send_reliably is called for the head
\* only, by eigrp_packet_ack and the senders): of a retrans_queue only the
\* head was ever copied to the output queue, is on the link or was heard by
\* the peer, however many losses, retransmissions, failures and restarts.
THEOREM OnePacketAtATime == Spec => []StopAndWait
<1>1. IInv /\ ChannelInv => StopAndWait
  <2> SUFFICES ASSUME IInv, ChannelInv, NEW r \in Router,
                      NEW i \in 2..Len(rt[r].queue)
               PROVE  /\ \A p \in ToSet(rt[r].obuf) \cup ToSet(wire[r]) :
                             p.id # rt[r].queue[i].id
                      /\ heard[Peer(r)] # rt[r].queue[i].id
    BY DEF StopAndWait
  <2> DEFINE q == rt[r].queue
             o == rt[r].obuf
             w == wire[r]
             h == heard[Peer(r)]
  <2>1. /\ rt[r] \in RouterState /\ w \in Seq(Sent) /\ h \in Nat
        /\ Line(rt[r], w, h, rt[Peer(r)])
    BY BothWays
  <2>2. /\ Len(q) \in Nat /\ i \in 1..Len(q) /\ 1 \in 1..Len(q) /\ 1 < i
        /\ q # <<>>
    BY <2>1, Parts
  <2>3. /\ q[1].id \in Nat /\ q[i].id \in Nat /\ q[1].kind \in Reliable
        /\ 1 <= q[1].id /\ q[1].id < q[i].id
    BY <2>1, <2>2, Parts DEF Line, Rising
  <2>4. /\ May(w, h, rt[Peer(r)], q[1])
        /\ \A j \in 1..Len(o) : Follows(o[j], q[1])
    BY <2>1, <2>2 DEF Line
  <2>5. h # q[i].id
    BY <2>1, <2>3, <2>4 DEF May, HeardBefore
  <2>6. \A j \in 1..Len(o) : o[j].kind \in Reliable => o[j].id # q[i].id
    BY <2>1, <2>3, <2>4, Parts DEF Follows
  <2>7. \A j \in 1..Len(w) : w[j].kind \in Reliable => w[j].id # q[i].id
    BY <2>1, <2>3, <2>4, OnTheLink DEF May, Follows
  <2>8. \A j \in 1..Len(o) : o[j].kind \notin Reliable => o[j].id # q[i].id
    BY <2>1, <2>3 DEF Line, Built
  <2>9. \A j \in 1..Len(w) : w[j].kind \notin Reliable => w[j].id # q[i].id
    BY <2>1, <2>3 DEF Line, Built
  <2>10. /\ ToSet(o) = {o[j] : j \in 1..Len(o)}
         /\ ToSet(w) = {w[j] : j \in 1..Len(w)}
    BY <2>1, Parts, LenProperties DEF ToSet
  <2> QED BY <2>5, <2>6, <2>7, <2>8, <2>9, <2>10
<1> QED BY <1>1, AlwaysInOrder, PTL

\* The transport is an ordered channel: a router handles no packet that its
\* peer did not build, and none after a later one (eigrp_packet_read and the
\* handlers it calls; retrans_queue and obuf are served in order).  Every step
\* of the two daemons is a step of OrderedChannel or changes nothing in it.
THEOREM ChannelImplemented == Spec => ImplementsChannel
<1> DEFINE b == [r \in Router |-> rt[r].built]
<1>1. Init => Channel!Init
  <2> SUFFICES ASSUME Init PROVE Channel!Init
    OBVIOUS
  <2>1. \A r \in Router : rt[r].built = 0
    BY DEF Init, Started
  <2> QED BY <2>1 DEF Init, Channel!Init
<1>2. IInv /\ ChannelInv /\ [Next]_vars => [Channel!Next]_<<b, heard>>
  <2> SUFFICES ASSUME IInv, ChannelInv, [Next]_vars
               PROVE  [Channel!Next]_<<b, heard>>
    OBVIOUS
  <2>1. CASE UNCHANGED vars
    BY <2>1 DEF vars
  <2>2. CASE Next
    <3>1. PICK r \in Router : Moves(r)
      BY <2>2, StepInOrder
    <3>2. /\ heard \in [Router -> Nat] /\ heard' \in [Router -> Nat]
          /\ rt'[r].built \in Nat /\ rt[r].built \in Nat
          /\ Peer(r) \in Router /\ rt[Peer(r)].built \in Nat
      <4>1. IInv'
        BY StepSound
      <4>2. rt[r] \in RouterState /\ rt'[r] \in RouterState
            /\ rt[Peer(r)] \in RouterState
        BY <4>1, PeerType DEF IInv
      <4> QED BY <4>1, <4>2, Parts, PeerType DEF IInv
    <3>3. Channel!Build(r)
      <4>1. b' = [b EXCEPT ![r] = b'[r]]
        BY <3>1 DEF Moves
      <4>2. b'[r] >= b[r]
        BY <3>1, <3>2 DEF Moves
      <4> QED BY <4>1, <4>2 DEF Channel!Build
    <3>4. Channel!Hear(r)
      <4>1. heard' = [heard EXCEPT ![r] = heard'[r]]
        BY <3>1, <3>2 DEF Moves
      <4>2. heard'[r] \in heard[r] .. b[Peer(r)]
        BY <3>1, <3>2 DEF Moves
      <4> QED BY <4>1, <4>2 DEF Channel!Hear
    <3> QED BY <3>3, <3>4 DEF Channel!Next
  <2> QED BY <2>1, <2>2
<1> QED BY <1>1, <1>2, AlwaysInOrder, PTL DEF Spec, ImplementsChannel, Channel!Spec

\* A retransmitted INIT that was handled before does not take the adjacency
\* down again (update_receive compares recv_sequence_number): a router that
\* knows its peer greets it anew only when it handles a newer packet.
THEOREM OldInitAlwaysIgnored == Spec => OldInitIgnored
<1>1. IInv /\ ChannelInv /\ [Next]_vars =>
        [\A r \in Router :
          (rt[r].nbr # "none" /\ rt'[r].nbr = "pending" /\ rt'[r].built > rt[r].built)
            => heard'[r] > heard[r]]_vars
  <2> SUFFICES ASSUME IInv, ChannelInv, Next, NEW r \in Router,
                      rt[r].nbr # "none", rt'[r].nbr = "pending",
                      rt'[r].built > rt[r].built
               PROVE  heard'[r] > heard[r]
    BY DEF vars
  <2>1. PICK x \in Router : Moves(x)
    BY StepInOrder
  <2>2. rt[r].built \in Nat
    BY BothWays
  <2>3. r = x
    BY <2>1, <2>2 DEF Moves
  <2> QED BY <2>1, <2>3 DEF Moves
<1> QED BY <1>1, AlwaysInOrder, PTL DEF Spec, OldInitIgnored
=============================================================================
