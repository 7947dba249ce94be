--------------------------- MODULE EigrpCodecProofs ---------------------------
(* The binding of neighbours and interface for any number of neighbours, any  *)
(* K values and any word sizes: the counts of an interface are those of its UP *)
(* neighbours, and its encoder is the one that the counts select.  Then the   *)
(* receive loops, for packets of any length, and what the two encoders write   *)
(* of a route; with the counts, that every UP neighbour finds it in its format.*)
EXTENDS EigrpCodec, FiniteSetTheorems, WellFoundedInduction, SequenceTheorems, TLAPS

\* The UP neighbours of a version; UpWith(v) is Ups(nbr, v).
Ups(f, v) == {p \in Peer : f[p].state = "up" /\ f[p].version = v}

One(n, v) == IF n.state = "up" /\ n.version = v THEN 1 ELSE 0

IfaceOK(i) ==
    /\ i \in [tlv1 : Nat, tlv2 : Nat, encoder : Encoder, rebound : BOOLEAN]
    /\ i.encoder = EncoderOf(i.tlv1, i.tlv2)

Matches(i, f) ==
    ~ i.rebound => i.tlv1 = Cardinality(Ups(f, 1)) /\ i.tlv2 = Cardinality(Ups(f, 2))

\* The inductive invariant.
IInv == TypeOK /\ CountsMatchPeers

LEMMA UpsFinite ==
    ASSUME NEW f, NEW v
    PROVE  IsFiniteSet(Ups(f, v)) /\ Cardinality(Ups(f, v)) \in Nat
<1>1. Ups(f, v) \subseteq Peer
  BY DEF Ups
<1> QED BY <1>1, CodecAssumption, FS_Subset, FS_CardinalityType

\* When one neighbour changes, the number of UP neighbours of a version changes
\* by that neighbour.
LEMMA OneChanges ==
    ASSUME NEW f \in [Peer -> NbrType], NEW p \in Peer, NEW n \in NbrType, NEW v
    PROVE  Cardinality(Ups([f EXCEPT ![p] = n], v)) =
               Cardinality(Ups(f, v)) - One(f[p], v) + One(n, v)
<1> DEFINE g == [f EXCEPT ![p] = n]
           rest == Ups(f, v) \ {p}
<1>1. g[p] = n /\ \A q \in Peer \ {p} : g[q] = f[q]
  OBVIOUS
<1>2. /\ IsFiniteSet(Ups(f, v)) /\ IsFiniteSet(rest)
      /\ Cardinality(Ups(f, v)) \in Nat /\ Cardinality(rest) \in Nat
  BY UpsFinite, FS_RemoveElement, FS_CardinalityType
<1>3. Cardinality(rest) = Cardinality(Ups(f, v)) - One(f[p], v)
  <2>1. CASE f[p].state = "up" /\ f[p].version = v
    <3>1. p \in Ups(f, v) /\ One(f[p], v) = 1
      BY <2>1 DEF Ups, One
    <3> QED BY <3>1, <1>2, FS_RemoveElement
  <2>2. CASE ~ (f[p].state = "up" /\ f[p].version = v)
    <3>1. rest = Ups(f, v) /\ One(f[p], v) = 0
      BY <2>2 DEF Ups, One
    <3> QED BY <3>1, <1>2
  <2> QED BY <2>1, <2>2
<1>4. Cardinality(Ups(g, v)) = Cardinality(rest) + One(n, v)
  <2>1. CASE n.state = "up" /\ n.version = v
    <3>1. Ups(g, v) = rest \cup {p} /\ p \notin rest /\ One(n, v) = 1
      BY <1>1, <2>1 DEF Ups, One
    <3> HIDE DEF g, rest
    <3>2. Cardinality(rest \cup {p}) = Cardinality(rest) + 1
      BY <3>1, <1>2, FS_AddElement
    <3> QED BY <1>2, <3>1, <3>2
  <2>2. CASE ~ (n.state = "up" /\ n.version = v)
    <3>1. Ups(g, v) = rest /\ One(n, v) = 0
      BY <1>1, <2>2 DEF Ups, One
    <3> HIDE DEF g, rest
    <3> QED BY <3>1, <1>2
  <2> QED BY <2>1, <2>2
<1> QED BY <1>3, <1>4

\* Counting is the same as selecting the encoder for the new counts.
LEMMA CountedOK ==
    ASSUME NEW i, IfaceOK(i), NEW a \in Nat, NEW b \in Nat
    PROVE  /\ IfaceOK(Counted(i, a, b))
           /\ Counted(i, a, b).tlv1 = a /\ Counted(i, a, b).tlv2 = b
           /\ Counted(i, a, b).rebound = i.rebound
<1>1. EncoderOf(a, b) \in Encoder
  BY DEF EncoderOf, Encoder
<1> QED BY <1>1 DEF IfaceOK, Counted

\* eigrp_nbr_state_set counts what its neighbour becomes, if it was counted.
LEMMA StateSetOutcome ==
    ASSUME NEW f \in [Peer -> NbrType], NEW p \in Peer, NEW i, IfaceOK(i), Matches(i, f),
           NEW state \in {"none", "down", "pending", "up"}
    PROVE  LET j == StateSet(i, f[p], state)
               m == [f[p] EXCEPT !.state = state]
           IN  /\ IfaceOK(j) /\ j.rebound = i.rebound
               /\ Matches(j, [f EXCEPT ![p] = m])
<1> DEFINE n == f[p]
           m == [n EXCEPT !.state = state]
           j == StateSet(i, n, state)
           h == [f EXCEPT ![p] = m]
<1> SUFFICES IfaceOK(j) /\ j.rebound = i.rebound /\ Matches(j, h)
  OBVIOUS
<1>1. n \in NbrType /\ m \in NbrType /\ m.state = state /\ m.version = n.version
  BY DEF NbrType
<1>2. n.version \in {0, 1, 2}
  BY <1>1 DEF NbrType, Version
<1>3. \A v : Cardinality(Ups(h, v)) =
               Cardinality(Ups(f, v)) - One(n, v) + One(m, v)
  BY <1>1, OneChanges
<1>4. i.tlv1 \in Nat /\ i.tlv2 \in Nat
  BY DEF IfaceOK
<1>5. \A v : Cardinality(Ups(f, v)) \in Nat /\ IsFiniteSet(Ups(f, v))
  BY UpsFinite
<1>6. \A v : One(n, v) = 1 => Cardinality(Ups(f, v)) > 0
  <2> TAKE v
  <2> SUFFICES ASSUME One(n, v) = 1 PROVE Cardinality(Ups(f, v)) > 0
    OBVIOUS
  <2>1. p \in Ups(f, v)
    BY DEF One, Ups
  <2> QED BY <2>1, <1>5, FS_EmptySet
<1> HIDE DEF m, h
<1>7. CASE n.state = "up" /\ state # "up"
  <2> DEFINE a == i.tlv1 - (IF n.version = 1 /\ i.tlv1 > 0 THEN 1 ELSE 0)
             b == i.tlv2 - (IF n.version = 2 /\ i.tlv2 > 0 THEN 1 ELSE 0)
  <2>1. j = EncoderUnbind(i, n.version)
    BY <1>7 DEF StateSet
  <2>2. EncoderUnbind(i, n.version) = Counted(i, a, b)
    BY DEF EncoderUnbind
  <2>3. a \in Nat /\ b \in Nat
    BY <1>4
  <2>4. /\ One(n, 1) = (IF n.version = 1 THEN 1 ELSE 0)
        /\ One(n, 2) = (IF n.version = 2 THEN 1 ELSE 0)
        /\ One(m, 1) = 0 /\ One(m, 2) = 0
    BY <1>1, <1>7 DEF One
  <2>5. ~ i.rebound => a = i.tlv1 - One(n, 1) /\ b = i.tlv2 - One(n, 2)
    <3>1. /\ ~ i.rebound => i.tlv1 = Cardinality(Ups(f, 1))
          /\ ~ i.rebound => i.tlv2 = Cardinality(Ups(f, 2))
          /\ One(n, 1) = 1 => Cardinality(Ups(f, 1)) > 0
          /\ One(n, 2) = 1 => Cardinality(Ups(f, 2)) > 0
      BY <1>6 DEF Matches
    <3> HIDE DEF n
    <3> QED BY <3>1, <2>4
  <2> HIDE DEF a, b, j
  <2>6. IfaceOK(j) /\ j.tlv1 = a /\ j.tlv2 = b /\ j.rebound = i.rebound
    BY <2>1, <2>2, <2>3, CountedOK
  <2>7. /\ Cardinality(Ups(h, 1)) = Cardinality(Ups(f, 1)) - One(n, 1) + 0
        /\ Cardinality(Ups(h, 2)) = Cardinality(Ups(f, 2)) - One(n, 2) + 0
    BY <1>3, <2>4
  <2> QED BY <2>4, <2>5, <2>6, <2>7, <1>5 DEF Matches
<1>8. CASE n.state # "up" /\ state = "up"
  <2> DEFINE a == i.tlv1 + (IF n.version = 1 THEN 1 ELSE 0)
             b == i.tlv2 + (IF n.version = 2 THEN 1 ELSE 0)
  <2>1. j = EncoderBind(i, n.version)
    BY <1>8 DEF StateSet
  <2>2. EncoderBind(i, n.version) = Counted(i, a, b)
    BY DEF EncoderBind
  <2>3. a \in Nat /\ b \in Nat
    BY <1>4
  <2>4. /\ One(m, 1) = (IF n.version = 1 THEN 1 ELSE 0)
        /\ One(m, 2) = (IF n.version = 2 THEN 1 ELSE 0)
        /\ One(n, 1) = 0 /\ One(n, 2) = 0
    BY <1>1, <1>8 DEF One
  <2>5. a = i.tlv1 + One(m, 1) /\ b = i.tlv2 + One(m, 2)
    BY <2>4
  <2> HIDE DEF a, b, j
  <2>6. IfaceOK(j) /\ j.tlv1 = a /\ j.tlv2 = b /\ j.rebound = i.rebound
    BY <2>1, <2>2, <2>3, CountedOK
  <2>7. /\ Cardinality(Ups(h, 1)) = Cardinality(Ups(f, 1)) - 0 + One(m, 1)
        /\ Cardinality(Ups(h, 2)) = Cardinality(Ups(f, 2)) - 0 + One(m, 2)
    BY <1>3, <2>4
  <2> QED BY <2>4, <2>5, <2>6, <2>7, <1>5 DEF Matches
<1>9. CASE (n.state = "up") <=> (state = "up")
  <2>1. j = i
    BY <1>9 DEF StateSet
  <2>2. \A v : One(m, v) = One(n, v)
    BY <1>1, <1>9 DEF One
  <2>3. \A v : One(n, v) \in {0, 1}
    BY DEF One
  <2> HIDE DEF j
  <2> QED BY <2>1, <2>2, <2>3, <1>3, <1>5 DEF Matches
<1> QED BY <1>7, <1>8, <1>9

\* A step that changes one neighbour and counts it.
LEMMA BecomesSteps ==
    ASSUME IInv, NEW p \in Peer, NEW n \in NbrType,
           Becomes(p, n), IfaceOK(iface'), Matches(iface', [nbr EXCEPT ![p] = n])
    PROVE  IInv'
<1>1. nbr' = [nbr EXCEPT ![p] = n] /\ UNCHANGED <<weights, speaks, route, denied>>
  BY DEF Becomes
<1>2. nbr' \in [Peer -> NbrType]
  BY <1>1 DEF IInv, TypeOK
<1>3. TypeOK'
  BY <1>1, <1>2 DEF IInv, TypeOK, IfaceOK
<1>4. CountsMatchPeers'
  BY <1>1 DEF CountsMatchPeers, UpWith, Matches, Ups
<1> QED BY <1>3, <1>4 DEF IInv

\* What the invariant says of one neighbour and of the interface.
LEMMA Facts ==
    ASSUME IInv
    PROVE  /\ nbr \in [Peer -> NbrType] /\ IfaceOK(iface) /\ Matches(iface, nbr)
           /\ \A p \in Peer : nbr[p] \in NbrType
BY DEF IInv, TypeOK, IfaceOK, CountsMatchPeers, Matches, UpWith, Ups

\* A neighbour that is not UP counts for nothing, whichever version it takes.
LEMMA NotUp ==
    ASSUME NEW f \in [Peer -> NbrType], NEW p \in Peer, NEW m \in NbrType,
           NEW n \in NbrType, m.state # "up", n.state # "up", NEW i,
           Matches(i, [f EXCEPT ![p] = m])
    PROVE  Matches(i, [f EXCEPT ![p] = n])
<1>1. \A v : Ups([f EXCEPT ![p] = m], v) = Ups([f EXCEPT ![p] = n], v)
  BY DEF Ups
<1> QED BY <1>1 DEF Matches

LEMMA HelloReceiveSteps ==
    ASSUME IInv, NEW p \in Peer, HelloReceive(p) PROVE IInv'
<1> DEFINE n == IF nbr[p].state = "none" THEN [NoNbr EXCEPT !.state = "down"]
                ELSE nbr[p]
<1>1. PICK k \in [Coeff -> Weight], parameter, version \in BOOLEAN :
        LET state == IF parameter THEN ParameterDecode(n.state, k) ELSE n.state
            v == IF version THEN speaks[p] ELSE n.version
        IN  /\ Becomes(p, [state |-> state, version |-> v])
            /\ iface' = SwVersionDecode(StateSet(iface, n, state), state, n.version, v)
  BY DEF HelloReceive
<1> DEFINE state == IF parameter THEN ParameterDecode(n.state, k) ELSE n.state
           v == IF version THEN speaks[p] ELSE n.version
           m == [n EXCEPT !.state = state]
           r == [state |-> state, version |-> v]
           i == StateSet(iface, n, state)
           f == [nbr EXCEPT ![p] = n]
<1>2. /\ n \in NbrType /\ n.state \in {"down", "pending", "up"}
      /\ n.state = "down" \/ n = nbr[p]
  BY Facts DEF NbrType, NoNbr
<1>3. f \in [Peer -> NbrType] /\ f[p] = n /\ Matches(iface, f)
  <2>1. CASE nbr[p].state = "none"
    <3>1. Matches(iface, [nbr EXCEPT ![p] = nbr[p]])
      <4>1. [nbr EXCEPT ![p] = nbr[p]] = nbr
        BY Facts
      <4> QED BY <4>1, Facts, Zenon
    <3>2. nbr[p].state # "up" /\ n.state # "up"
      BY <2>1 DEF NoNbr
    <3> HIDE DEF n
    <3>3. Matches(iface, f)
      BY <3>1, <3>2, <1>2, Facts, NotUp
    <3> QED BY <3>3, <1>2, Facts
  <2>2. CASE nbr[p].state # "none"
    BY <2>2, Facts
  <2> QED BY <2>1, <2>2
<1>4. state \in {"down", "pending", "up"} /\ (state = "up" => n.state = "up")
  BY <1>2 DEF ParameterDecode
<1>5. v \in {0} \cup Version
  BY <1>2 DEF IInv, TypeOK, NbrType
<1> HIDE DEF n, state, v
<1>6. r \in NbrType /\ r.state = state /\ r.version = v
  BY <1>4, <1>5 DEF NbrType
<1>7. m \in NbrType /\ m.state = state /\ m.version = n.version
  BY <1>2, <1>4 DEF NbrType
<1>8. IfaceOK(i) /\ Matches(i, [f EXCEPT ![p] = m])
  <2> HIDE DEF f
  <2>1. /\ IfaceOK(StateSet(iface, f[p], state))
        /\ Matches(StateSet(iface, f[p], state),
                   [f EXCEPT ![p] = [f[p] EXCEPT !.state = state]])
    BY <1>2, <1>3, <1>4, Facts, StateSetOutcome
  <2> QED BY <1>3, <2>1
<1>9. [f EXCEPT ![p] = m] = [nbr EXCEPT ![p] = m]
  BY Facts
<1> HIDE DEF m, r, i, f
<1>10. iface' = [i EXCEPT !.rebound = @ \/ (state = "up" /\ n.version # v)]
  BY <1>1 DEF SwVersionDecode, state, v, i
<1>11. IfaceOK(iface')
  BY <1>8, <1>10 DEF IfaceOK
<1>12. Matches(iface', [nbr EXCEPT ![p] = r])
  <2> SUFFICES ASSUME ~ iface'.rebound PROVE Matches(iface', [nbr EXCEPT ![p] = r])
    BY DEF Matches
  <2>1. /\ ~ i.rebound /\ iface'.tlv1 = i.tlv1 /\ iface'.tlv2 = i.tlv2
        /\ state = "up" => n.version = v
    BY <1>8, <1>10 DEF IfaceOK
  <2>2. Matches(iface', [nbr EXCEPT ![p] = m])
    BY <1>8, <1>9, <2>1 DEF Matches
  <2>3. CASE state # "up"
    BY <2>2, <2>3, <1>6, <1>7, Facts, NotUp
  <2>4. CASE state = "up"
    <3>1. m = r
      BY <2>1, <2>4, <1>6, <1>7 DEF NbrType
    <3> QED BY <3>1, <2>2
  <2> QED BY <2>3, <2>4
<1>13. Becomes(p, r)
  BY <1>1 DEF r, state, v
<1> QED BY <1>6, <1>11, <1>12, <1>13, BecomesSteps

\* A neighbour whose state is set, and whose version stays.
LEMMA StateSteps ==
    ASSUME IInv, NEW p \in Peer, NEW state \in {"none", "down", "pending", "up"}
    PROVE  LET m == [nbr[p] EXCEPT !.state = state]
               j == StateSet(iface, nbr[p], state)
           IN  /\ m \in NbrType /\ m.state = state /\ m.version = nbr[p].version
               /\ IfaceOK(j) /\ Matches(j, [nbr EXCEPT ![p] = m])
<1> DEFINE m == [nbr[p] EXCEPT !.state = state]
           j == StateSet(iface, nbr[p], state)
<1>1. IfaceOK(j) /\ Matches(j, [nbr EXCEPT ![p] = m])
  BY Facts, StateSetOutcome
<1>2. m \in NbrType /\ m.state = state /\ m.version = nbr[p].version
  BY Facts DEF NbrType
<1> QED BY <1>1, <1>2

LEMMA AckInitSteps == ASSUME IInv, NEW p \in Peer, AckInit(p) PROVE IInv'
<1> DEFINE m == [nbr[p] EXCEPT !.state = "up"]
           j == StateSet(iface, nbr[p], "up")
<1>1. Becomes(p, m) /\ iface' = j
  BY DEF AckInit
<1>2. m \in NbrType /\ IfaceOK(j) /\ Matches(j, [nbr EXCEPT ![p] = m])
  BY StateSteps
<1> HIDE DEF m, j
<1> QED BY <1>1, <1>2, BecomesSteps

LEMMA InitReceiveSteps == ASSUME IInv, NEW p \in Peer, InitReceive(p) PROVE IInv'
<1> DEFINE m == [nbr[p] EXCEPT !.state = "down"]
           n == [nbr[p] EXCEPT !.state = "pending"]
           j == StateSet(iface, nbr[p], "down")
<1>1. Becomes(p, n) /\ iface' = j
  BY DEF InitReceive
<1>2. m \in NbrType /\ m.state = "down" /\ IfaceOK(j) /\ Matches(j, [nbr EXCEPT ![p] = m])
  BY StateSteps
<1>3. n \in NbrType /\ n.state = "pending"
  BY Facts DEF NbrType
<1> HIDE DEF m, n, j
<1>4. Matches(j, [nbr EXCEPT ![p] = n])
  BY <1>2, <1>3, Facts, NotUp
<1> QED BY <1>1, <1>2, <1>3, <1>4, BecomesSteps

LEMMA DeleteSteps == ASSUME IInv, NEW p \in Peer, Delete(p) PROVE IInv'
<1> DEFINE m == [nbr[p] EXCEPT !.state = "down"]
           j == StateSet(iface, nbr[p], "down")
<1>1. Becomes(p, NoNbr) /\ iface' = j
  BY DEF Delete
<1>2. m \in NbrType /\ m.state = "down" /\ IfaceOK(j) /\ Matches(j, [nbr EXCEPT ![p] = m])
  BY StateSteps
<1>3. NoNbr \in NbrType /\ NoNbr.state # "up"
  BY DEF NbrType, NoNbr
<1> HIDE DEF m, j
<1>4. Matches(j, [nbr EXCEPT ![p] = NoNbr])
  BY <1>2, <1>3, Facts, NotUp
<1> QED BY <1>1, <1>2, <1>3, <1>4, BecomesSteps

\* No neighbour, nothing counted.
LEMMA NobodyCounted ==
    ASSUME NEW f, f = [q \in Peer |-> NoNbr]
    PROVE  IfaceOK(EncoderClear) /\ Matches(EncoderClear, f)
<1>1. \A v : Ups(f, v) = {}
  BY DEF Ups, NoNbr
<1> QED BY <1>1, FS_EmptySet DEF EncoderClear, IfaceOK, Encoder, EncoderOf, Matches

LEMMA IntfDownSteps == ASSUME IInv, IntfDown PROVE IInv'
<1>1. nbr' = [q \in Peer |-> NoNbr] /\ iface' = EncoderClear
      /\ UNCHANGED <<weights, speaks, route, denied>>
  BY DEF IntfDown
<1>2. IfaceOK(iface') /\ Matches(iface', nbr')
  BY <1>1, NobodyCounted
<1>3. NoNbr \in NbrType /\ NoNbr.state = "none"
  BY DEF NoNbr, NbrType
<1>4. TypeOK'
  BY <1>1, <1>2, <1>3 DEF IInv, TypeOK, IfaceOK
<1>5. CountsMatchPeers'
  BY <1>2 DEF CountsMatchPeers, UpWith, Matches, Ups
<1> QED BY <1>4, <1>5 DEF IInv

\* A step that leaves the neighbours and the interface.
LEMMA OtherSteps ==
    ASSUME IInv, UNCHANGED <<nbr, iface>>,
           weights' \in [Coeff -> Weight], speaks' \in [Peer -> Version],
           route' \in [Dest -> RouteType], denied' \in SUBSET Dest
    PROVE  IInv'
BY DEF IInv, TypeOK, CountsMatchPeers, UpWith

LEMMA RouteTypes ==
    ASSUME NEW d \in Dest
    PROVE  Connected(d) \in RouteType /\ Learned(d) \subseteq RouteType
BY CodecAssumption DEF Connected, Learned, RouteType

LEMMA InitSteps == Init => IInv
<1> SUFFICES ASSUME Init PROVE IInv
  OBVIOUS
<1>1. IfaceOK(iface) /\ Matches(iface, nbr)
  BY NobodyCounted DEF Init
<1>2. NoNbr \in NbrType /\ NoNbr.state = "none"
  BY DEF NoNbr, NbrType
<1>3. weights \in [Coeff -> Weight] /\ route \in [Dest -> RouteType]
  BY CodecAssumption, RouteTypes DEF Init
<1>4. TypeOK
  BY <1>1, <1>2, <1>3 DEF Init, TypeOK, IfaceOK
<1>5. CountsMatchPeers
  BY <1>1 DEF CountsMatchPeers, UpWith, Matches, Ups
<1> QED BY <1>4, <1>5 DEF IInv

LEMMA NextSteps == IInv /\ [Next]_vars => IInv'
<1> SUFFICES ASSUME IInv, [Next]_vars PROVE IInv'
  OBVIOUS
<1>1. CASE UNCHANGED vars
  BY <1>1, OtherSteps DEF vars, IInv, TypeOK
<1>2. ASSUME NEW p \in Peer,
             \/ HelloReceive(p) \/ AckInit(p)
             \/ InitReceive(p) \/ Delete(p)
      PROVE  IInv'
  BY <1>2, HelloReceiveSteps, AckInitSteps, InitReceiveSteps, DeleteSteps
<1>3. ASSUME NEW p \in Peer, Replace(p) PROVE IInv'
  BY <1>3, OtherSteps DEF Replace, IInv, TypeOK
<1>4. ASSUME NEW d \in Dest, RouteChange(d) PROVE IInv'
  BY <1>4, RouteTypes, OtherSteps DEF RouteChange, IInv, TypeOK
<1>5. ASSUME NEW d \in Dest, SendQuery(d) PROVE IInv'
  <2>1. Filtered(d) \in RouteType
    BY DEF Filtered, RouteType, IInv, TypeOK
  <2> QED BY <1>5, <2>1, OtherSteps DEF SendQuery, IInv, TypeOK
<1>6. ASSUME NEW k \in Coeff, WeightDestroy(k) \/ \E w \in Weight : WeightModify(k, w)
      PROVE  IInv'
  BY <1>6, CodecAssumption, OtherSteps DEF WeightDestroy, WeightModify, IInv, TypeOK
<1>7. CASE FilterChange
  BY <1>7, OtherSteps DEF FilterChange, IInv, TypeOK
<1> QED BY <1>1, <1>2, <1>3, <1>4, <1>5, <1>6, <1>7, IntfDownSteps DEF Next

LEMMA Always == Spec => []IInv
BY InitSteps, NextSteps, PTL DEF Spec

-------------------------------------------------------------------------------
\* Every variable keeps its type: no count falls below 0, and the encoder is the
\* one the counts select.
THEOREM TypeCorrect == Spec => []TypeOK
<1>1. IInv => TypeOK
  BY DEF IInv
<1> QED BY <1>1, Always, PTL

\* The interface's counts are those of its UP neighbours, whatever order they
\* come up, restart and go in (eigrp_nbr_state_set, eigrp_interface_encoder_*).
THEOREM CountsAlwaysMatch == Spec => []CountsMatchPeers
<1>1. IInv => CountsMatchPeers
  BY DEF IInv
<1> QED BY <1>1, Always, PTL

-------------------------------------------------------------------------------
(* The receive loops, for packets of any length.  UpdateLoop and QueryLoop are *)
(* folds; the function on sets of places that a fold chooses exists, and its   *)
(* values on 1 .. i are what the loop has after i TLVs.                        *)

\* One turn of a receive loop.
Turn(loop, v, s, tlv) ==
    IF loop = "update"
    THEN IF ~ s.more THEN s
         ELSE [routes |-> IF Outcome(v, tlv) = "route"
                          THEN Append(s.routes, Decode(v, tlv)) ELSE s.routes,
               more |-> Outcome(v, tlv) = "skip"]
    ELSE IF ~ s.more \/ Outcome(v, tlv) # "route" THEN [s EXCEPT !.more = FALSE]
    ELSE [s EXCEPT !.routes = Append(@, Decode(v, tlv))]

Begin == [routes |-> <<>>, more |-> TRUE]

\* Induction is the choice of a smallest counterexample.
LEMMA SmallestOf ==
    ASSUME NEW T \in SUBSET Nat, T # {}
    PROVE  \E n \in T : \A m \in T : n <= m
<1>1. IsWellFoundedOn(OpToRel(<, Nat), Nat)
  BY NatLessThanWellFounded
<1>2. \E n \in T : \A m \in T : <<m, n>> \notin OpToRel(<, Nat)
  BY <1>1, WFMin
<1>3. \A n, m \in T : <<m, n>> \notin OpToRel(<, Nat) => n <= m
  BY DEF OpToRel
<1> QED BY <1>2, <1>3

\* What Max and Min choose.
LEMMA MaxIs ==
    ASSUME NEW n \in Nat, NEW s \in SUBSET (1 .. n), n \in s
    PROVE  Max(s) = n
<1>1. \A y \in s : n >= y
  OBVIOUS
<1>2. \A x \in s : (\A y \in s : x >= y) => x = n
  OBVIOUS
<1>3. Max(s) \in s /\ \A y \in s : Max(s) >= y
  BY <1>1 DEF Max
<1> QED BY <1>2, <1>3

LEMMA MaxIn ==
    ASSUME NEW n \in Nat, NEW s \in SUBSET (1 .. n), s # {}
    PROVE  Max(s) \in s
<1> DEFINE T == {k \in 0 .. n : \E i \in s : k = n - i}
<1>1. T \in SUBSET Nat /\ T # {}
  <2>1. PICK i \in s : TRUE
    OBVIOUS
  <2>2. n - i \in T
    OBVIOUS
  <2>3. T \subseteq Nat
    OBVIOUS
  <2> HIDE DEF T
  <2> QED BY <2>2, <2>3
<1>2. PICK m \in T : \A k \in T : m <= k
  BY <1>1, SmallestOf
<1>3. PICK x \in s : m = n - x
  BY <1>2
<1>4. \A y \in s : x >= y
  <2> TAKE y \in s
  <2>1. n - y \in T /\ x \in 1 .. n /\ y \in 1 .. n
    OBVIOUS
  <2>2. m <= n - y
    BY <1>2, <2>1
  <2> QED BY <1>3, <2>1, <2>2
<1> QED BY <1>4 DEF Max

LEMMA MinIs ==
    ASSUME NEW s \in SUBSET Nat, NEW n \in s, \A y \in s : n <= y
    PROVE  Min(s) = n
<1>1. \A x \in s : (\A y \in s : x =< y) => x = n
  OBVIOUS
<1>2. Min(s) \in s /\ \A y \in s : Min(s) =< y
  BY DEF Min
<1> QED BY <1>1, <1>2

\* f gives what each set of places up to n folds to.
Folds(loop, v, packet, n, f) ==
    \A s \in SUBSET (1 .. n) :
        f[s] = IF s = {} THEN Begin
               ELSE Turn(loop, v, f[s \ {Max(s)}], packet[Max(s)])

\* Such a function for n gives one for n + 1.
LEMMA FoldsOneMore ==
    ASSUME NEW loop, NEW v, NEW packet, NEW n \in Nat, NEW f,
           Folds(loop, v, packet, n, f)
    PROVE  \E g : Folds(loop, v, packet, n + 1, g)
<1> DEFINE g == [s \in SUBSET (1 .. n + 1) |->
                    IF n + 1 \in s
                    THEN Turn(loop, v, f[s \ {n + 1}], packet[n + 1]) ELSE f[s]]
<1> SUFFICES ASSUME NEW s \in SUBSET (1 .. n + 1)
             PROVE  g[s] = IF s = {} THEN Begin
                           ELSE Turn(loop, v, g[s \ {Max(s)}], packet[Max(s)])
  BY DEF Folds
<1>1. CASE n + 1 \in s
  <2>1. Max(s) = n + 1
    BY <1>1, MaxIs
  <2>2. s \ {n + 1} \in SUBSET (1 .. n + 1) /\ n + 1 \notin s \ {n + 1}
    OBVIOUS
  <2>3. g[s \ {n + 1}] = f[s \ {n + 1}]
    BY <2>2
  <2>4. g[s] = Turn(loop, v, f[s \ {n + 1}], packet[n + 1])
    BY <1>1
  <2>5. s # {}
    BY <1>1
  <2> HIDE DEF g
  <2> QED BY <2>1, <2>3, <2>4, <2>5
<1>2. CASE n + 1 \notin s
  <2>1. s \in SUBSET (1 .. n)
    BY <1>2
  <2>2. g[s] = f[s]
    BY <1>2
  <2>3. CASE s = {}
    BY <2>1, <2>2, <2>3 DEF Folds
  <2>4. CASE s # {}
    <3>1. Max(s) \in s
      BY <2>1, <2>4, MaxIn
    <3>2. s \ {Max(s)} \in SUBSET (1 .. n + 1) /\ n + 1 \notin s \ {Max(s)}
      BY <1>2
    <3>3. g[s \ {Max(s)}] = f[s \ {Max(s)}]
      BY <3>2
    <3>4. f[s] = Turn(loop, v, f[s \ {Max(s)}], packet[Max(s)])
      BY <2>1, <2>4 DEF Folds
    <3> HIDE DEF g
    <3> QED BY <2>2, <2>4, <3>3, <3>4
  <2> QED BY <2>3, <2>4
<1> QED BY <1>1, <1>2

\* There is one for every n.
LEMMA FoldExists ==
    ASSUME NEW loop, NEW v, NEW packet, NEW n \in Nat
    PROVE  \E f : Folds(loop, v, packet, n, f)
<1> DEFINE Stops == {k \in Nat : ~ \E f : Folds(loop, v, packet, k, f)}
<1> SUFFICES ASSUME Stops # {} PROVE FALSE
  OBVIOUS
<1>1. PICK m \in Stops : \A k \in Stops : m <= k
  BY SmallestOf
<1>2. CASE m = 0
  <2> DEFINE g == [s \in SUBSET (1 .. 0) |-> Begin]
  <2>1. \A s \in SUBSET (1 .. 0) : s = {} /\ g[s] = Begin
    OBVIOUS
  <2>2. Folds(loop, v, packet, 0, g)
    <3> HIDE DEF g
    <3> QED BY <2>1 DEF Folds
  <2> QED BY <1>2, <2>2
<1>3. CASE m # 0
  <2>1. m - 1 \in Nat /\ m - 1 \notin Stops /\ (m - 1) + 1 = m
    BY <1>1, <1>3
  <2>2. \E f : Folds(loop, v, packet, m - 1, f)
    BY <2>1
  <2>3. \E f : Folds(loop, v, packet, m, f)
    BY <2>1, <2>2, FoldsOneMore
  <2> QED BY <2>3
<1> QED BY <1>2, <1>3

\* The function that FoldLeft chooses.
Fold(loop, v, packet) ==
    CHOOSE f : f = [s \in SUBSET DOMAIN packet |->
                       IF s = {} THEN Begin
                       ELSE Turn(loop, v, f[s \ {Max(s)}], packet[Max(s)])]

\* As there is such a function, it is one.
LEMMA FoldFolds ==
    ASSUME NEW loop, NEW v, NEW packet, NEW n \in Nat, DOMAIN packet = 1 .. n
    PROVE  Folds(loop, v, packet, n, Fold(loop, v, packet))
<1>1. PICK g : Folds(loop, v, packet, n, g)
  BY FoldExists
<1> DEFINE h == [s \in SUBSET DOMAIN packet |-> g[s]]
<1>2. \A s \in SUBSET DOMAIN packet :
         h[s] = g[s] /\ h[s \ {Max(s)}] = g[s \ {Max(s)}]
  OBVIOUS
<1>3. \A s \in SUBSET DOMAIN packet :
         h[s] = IF s = {} THEN Begin
                ELSE Turn(loop, v, h[s \ {Max(s)}], packet[Max(s)])
  <2> HIDE DEF h
  <2> QED BY <1>1, <1>2 DEF Folds
<1>4. h = [s \in SUBSET DOMAIN packet |->
              IF s = {} THEN Begin
              ELSE Turn(loop, v, h[s \ {Max(s)}], packet[Max(s)])]
  <2>1. h = [s \in SUBSET DOMAIN packet |-> h[s]]
    OBVIOUS
  <2> HIDE DEF h
  <2> QED BY <1>3, <2>1
<1>5. Fold(loop, v, packet) =
         [s \in SUBSET DOMAIN packet |->
             IF s = {} THEN Begin
             ELSE Turn(loop, v, Fold(loop, v, packet)[s \ {Max(s)}], packet[Max(s)])]
  <2> HIDE DEF h
  <2> QED BY <1>4 DEF Fold
<1> HIDE DEF h
<1> DEFINE f == Fold(loop, v, packet)
<1>6. f = [s \in SUBSET DOMAIN packet |->
             IF s = {} THEN Begin
             ELSE Turn(loop, v, f[s \ {Max(s)}], packet[Max(s)])]
  BY <1>5
<1> HIDE DEF f
<1>7. \A s \in SUBSET (1 .. n) :
        f[s] = IF s = {} THEN Begin
               ELSE Turn(loop, v, f[s \ {Max(s)}], packet[Max(s)])
  BY <1>6
<1>8. Folds(loop, v, packet, n, f)
  BY <1>7 DEF Folds
<1> QED BY <1>8 DEF f

\* h is what a loop has after each of n turns.
Runs(loop, v, packet, n, h) ==
    /\ h[0] = Begin
    /\ \A i \in 1 .. n : h[i] = Turn(loop, v, h[i - 1], packet[i])

\* What the first i TLVs fold to, for each i, goes from turn to turn.
LEMMA FoldRuns ==
    ASSUME NEW loop, NEW v, NEW packet, NEW n \in Nat, DOMAIN packet = 1 .. n
    PROVE  \E h : /\ Runs(loop, v, packet, n, h)
                  /\ h[n] = Fold(loop, v, packet)[DOMAIN packet]
<1> DEFINE f == Fold(loop, v, packet)
           h == [i \in 0 .. n |-> f[1 .. i]]
<1>1. Folds(loop, v, packet, n, f)
  BY FoldFolds
<1> HIDE DEF f
<1>3. h[0] = Begin
  <2>1. 1 .. 0 = {} /\ 1 .. 0 \in SUBSET (1 .. n) /\ h[0] = f[1 .. 0]
    OBVIOUS
  <2> HIDE DEF h
  <2> QED BY <1>1, <2>1 DEF Folds
<1>4. ASSUME NEW i \in 1 .. n PROVE h[i] = Turn(loop, v, h[i - 1], packet[i])
  <2>1. /\ 1 .. i \in SUBSET (1 .. n) /\ i \in 1 .. i /\ i \in Nat
        /\ (1 .. i) \ {i} = 1 .. i - 1 /\ i \in 0 .. n /\ i - 1 \in 0 .. n
    OBVIOUS
  <2>2. Max(1 .. i) = i
    BY <2>1, MaxIs
  <2>3. h[i] = f[1 .. i] /\ h[i - 1] = f[1 .. i - 1]
    BY <2>1
  <2> HIDE DEF h
  <2>4. f[1 .. i] = Turn(loop, v, f[(1 .. i) \ {Max(1 .. i)}], packet[Max(1 .. i)])
    BY <1>1, <2>1 DEF Folds
  <2> QED BY <2>1, <2>2, <2>3, <2>4
<1>5. n \in 0 .. n /\ h[n] = f[1 .. n]
  OBVIOUS
<1> HIDE DEF h
<1>6. Runs(loop, v, packet, n, h)
  BY <1>3, <1>4 DEF Runs
<1> QED BY <1>5, <1>6 DEF f

\* The loops, turn by turn.
LEMMA Turns ==
    ASSUME NEW v, NEW packet, NEW n \in Nat, DOMAIN packet = 1 .. n
    PROVE  /\ \E h : /\ Runs("update", v, packet, n, h)
                     /\ UpdateLoop(v, packet) = h[n].routes
           /\ \E h : /\ Runs("query", v, packet, n, h)
                     /\ QueryLoop(v, packet) = h[n].routes
<1>1. UpdateLoop(v, packet) = Fold("update", v, packet)[DOMAIN packet].routes
  BY DEF UpdateLoop, FoldLeft, MapThenFoldSet, Fold, Turn, Begin
<1>2. QueryLoop(v, packet) = Fold("query", v, packet)[DOMAIN packet].routes
  BY DEF QueryLoop, FoldLeft, MapThenFoldSet, Fold, Turn, Begin
<1>3. \E h : Runs("update", v, packet, n, h) /\ h[n] = Fold("update", v, packet)[DOMAIN packet]
  BY FoldRuns
<1>4. \E h : Runs("query", v, packet, n, h) /\ h[n] = Fold("query", v, packet)[DOMAIN packet]
  BY FoldRuns
<1> QED BY <1>1, <1>2, <1>3, <1>4

\* h begins at a as g does and goes on as g does up to b.
GoesAs(h, g, a, b) ==
    h[a] = g[a] /\ \A i \in a + 1 .. b : h[i - 1] = g[i - 1] => h[i] = g[i]

\* Then it is g from a to b.
LEMMA Follow ==
    ASSUME NEW h, NEW g, NEW a \in Nat, NEW b \in Nat, GoesAs(h, g, a, b)
    PROVE  \A i \in a .. b : h[i] = g[i]
<1> DEFINE Differ == {i \in a .. b : h[i] # g[i]}
<1> SUFFICES ASSUME Differ # {} PROVE FALSE
  OBVIOUS
<1>1. Differ \in SUBSET Nat
  OBVIOUS
<1>2. PICK i \in Differ : \A j \in Differ : i <= j
  BY <1>1, SmallestOf
<1>3. i # a /\ i \in a + 1 .. b /\ i - 1 \in a .. b
  BY DEF GoesAs
<1>4. i - 1 \notin Differ
  BY <1>2, <1>3
<1>5. h[i - 1] = g[i - 1]
  BY <1>3, <1>4
<1>6. h[i] = g[i]
  BY <1>3, <1>5 DEF GoesAs
<1> QED BY <1>6

\* What a loop has read, and whether it goes on.
Going(routes) == [routes |-> routes, more |-> TRUE]
Left(routes) == [routes |-> routes, more |-> FALSE]

\* One turn of eigrp_update_receive, of eigrp_query_receive and eigrp_reply_receive.
LEMMA UpdateTurn ==
    ASSUME NEW v, NEW tlv, NEW r
    PROVE  /\ Outcome(v, tlv) = "skip" => Turn("update", v, Going(r), tlv) = Going(r)
           /\ Outcome(v, tlv) = "route" =>
                 Turn("update", v, Going(r), tlv) = Left(Append(r, Decode(v, tlv)))
           /\ Outcome(v, tlv) = "abort" => Turn("update", v, Going(r), tlv) = Left(r)
           /\ Turn("update", v, Left(r), tlv) = Left(r)
BY DEF Turn, Going, Left

LEMMA QueryTurn ==
    ASSUME NEW v, NEW tlv, NEW r
    PROVE  /\ Outcome(v, tlv) = "route" =>
                 Turn("query", v, Going(r), tlv) = Going(Append(r, Decode(v, tlv)))
           /\ Outcome(v, tlv) # "route" => Turn("query", v, Going(r), tlv) = Left(r)
           /\ Turn("query", v, Left(r), tlv) = Left(r)
BY DEF Turn, Going, Left

\* The first i TLVs of a packet as they are decoded.
First(v, packet, i) == [j \in 1 .. i |-> Decode(v, packet[j])]

LEMMA FirstAppend ==
    ASSUME NEW v, NEW packet, NEW i \in Nat, i > 0
    PROVE  Append(First(v, packet, i - 1), Decode(v, packet[i])) = First(v, packet, i)
<1> DEFINE D(j) == Decode(v, packet[j])
           S == {D(j) : j \in 1 .. i}
           q == [j \in 1 .. i - 1 |-> D(j)]
           t == Append(q, D(i))
<1>1. i - 1 \in Nat /\ D(i) \in S /\ \A j \in 1 .. i - 1 : D(j) \in S
  OBVIOUS
<1>2. q \in Seq(S) /\ Len(q) = i - 1
  <2> HIDE DEF S, D
  <2> QED BY <1>1, IsASeq, LenProperties
<1>3. /\ t \in Seq(S) /\ Len(t) = i /\ t[i] = D(i)
      /\ \A j \in 1 .. i - 1 : t[j] = q[j]
  <2> HIDE DEF S, D, q
  <2> QED BY <1>1, <1>2, AppendProperties
<1>4. \A j \in 1 .. i - 1 : q[j] = D(j)
  <2> HIDE DEF D
  <2> QED OBVIOUS
<1> HIDE DEF t, q
<1>5. DOMAIN t = 1 .. i /\ \A j \in 1 .. i : t[j] = D(j)
  <2>1. DOMAIN t = 1 .. i
    BY <1>3, LenProperties
  <2>2. ASSUME NEW j \in 1 .. i PROVE t[j] = D(j)
    <3> HIDE DEF D
    <3> QED BY <1>3, <1>4
  <2> QED BY <2>1, <2>2
<1>6. t = [j \in 1 .. i |-> D(j)]
  <2>1. t = [j \in DOMAIN t |-> t[j]]
    BY <1>3
  <2> HIDE DEF D
  <2> QED BY <1>5, <2>1
<1> QED BY <1>6 DEF t, q, First

LEMMA OneOutcome ==
    ASSUME NEW v, NEW tlv
    PROVE  Outcome(v, tlv) \in {"route", "skip", "abort"}
BY DEF Outcome

\* eigrp_update_receive goes on over what the decoder skips, up to the first TLV
\* it does not, which it hands over if it is a route.
LEMMA UpdateHandsOver ==
    ASSUME NEW v, NEW packet, NEW n \in Nat, DOMAIN packet = 1 .. n
    PROVE  UpdateLoop(v, packet) =
               IF Readable(v, packet) = {} THEN <<>>
               ELSE <<Decode(v, packet[Min(Readable(v, packet))])>>
<1> DEFINE own == Readable(v, packet)
           Stops == {i \in 1 .. n : Outcome(v, packet[i]) # "skip"}
<1>1. PICK h : /\ h[0] = Begin
               /\ \A i \in 1 .. n : h[i] = Turn("update", v, h[i - 1], packet[i])
               /\ UpdateLoop(v, packet) = h[n].routes
  <2>1. \E h : Runs("update", v, packet, n, h) /\ UpdateLoop(v, packet) = h[n].routes
    BY Turns
  <2> QED BY <2>1 DEF Runs
<1>2. UpdateLoop(v, packet) = h[n].routes
  BY <1>1
<1>3. /\ h[0] = Going(<<>>)
      /\ \A i \in 1 .. n : Outcome(v, packet[i]) = "skip" /\ h[i - 1] = Going(<<>>)
                               => h[i] = Going(<<>>)
  <2>1. h[0] = Going(<<>>)
    BY <1>1 DEF Begin, Going
  <2>2. ASSUME NEW i \in 1 .. n, Outcome(v, packet[i]) = "skip", h[i - 1] = Going(<<>>)
        PROVE  h[i] = Going(<<>>)
    <3>1. h[i] = Turn("update", v, Going(<<>>), packet[i])
      BY <1>1, <2>2
    <3> QED BY <2>2, <3>1, UpdateTurn
  <2> QED BY <2>1, <2>2
<1>4. CASE Stops = {}
  <2>1. \A i \in 1 .. n : Outcome(v, packet[i]) = "skip"
    BY <1>4
  <2> DEFINE g == [i \in 0 .. n |-> Going(<<>>)]
  <2>2. \A i \in 0 .. n : g[i] = Going(<<>>)
    OBVIOUS
  <2> HIDE DEF g, Stops, own
  <2>3. h[0] = g[0]
    BY <1>3, <2>2
  <2>4. GoesAs(h, g, 0, n)
    BY <1>3, <2>1, <2>2, <2>3 DEF GoesAs
  <2>5. \A i \in 0 .. n : h[i] = g[i]
    BY <2>4, Follow
  <2>6. h[n] = Going(<<>>)
    BY <2>2, <2>5
  <2>7. own = {}
    BY <2>1 DEF own, Readable
  <2> QED BY <1>2, <2>6, <2>7 DEF Going, own
<1>5. CASE Stops # {}
  <2>1. Stops \in SUBSET Nat
    OBVIOUS
  <2>2. PICK k \in Stops : \A j \in Stops : k <= j
    BY <1>5, <2>1, SmallestOf
  <2>3. k \in 1 .. n /\ Outcome(v, packet[k]) # "skip"
    OBVIOUS
  <2>4. \A i \in 1 .. n : i < k => Outcome(v, packet[i]) = "skip"
    BY <2>2
  <2> DEFINE g == [i \in 0 .. n |-> Going(<<>>)]
             x == IF Outcome(v, packet[k]) = "route" THEN <<Decode(v, packet[k])>> ELSE <<>>
             e == [i \in 0 .. n |-> Left(x)]
  <2>5. \A i \in 0 .. n : g[i] = Going(<<>>) /\ e[i] = Left(x)
    OBVIOUS
  <2> HIDE DEF g, e, x, Stops, own
  <2>6. h[0] = g[0]
    BY <1>3, <2>5
  <2>7. GoesAs(h, g, 0, k - 1)
    BY <1>3, <2>3, <2>4, <2>5, <2>6 DEF GoesAs
  <2>8. k - 1 \in Nat /\ k - 1 \in 0 .. k - 1
    BY <2>3
  <2>9. \A i \in 0 .. k - 1 : h[i] = g[i]
    <3> DEFINE b == k - 1
    <3> HIDE DEF b
    <3>1. b \in Nat /\ GoesAs(h, g, 0, b)
      BY <2>7, <2>8 DEF b
    <3>2. \A i \in 0 .. b : h[i] = g[i]
      BY <3>1, Follow
    <3> QED BY <3>2 DEF b
  <2>10. h[k - 1] = Going(<<>>)
    BY <2>3, <2>5, <2>8, <2>9
  <2>11. h[k] = Left(x)
    <3>1. h[k] = Turn("update", v, Going(<<>>), packet[k])
      BY <1>1, <2>3, <2>10
    <3>2. Append(<<>>, Decode(v, packet[k])) = <<Decode(v, packet[k])>>
      OBVIOUS
    <3>3. CASE Outcome(v, packet[k]) = "route"
      <4>1. h[k] = Left(Append(<<>>, Decode(v, packet[k])))
        <5> DEFINE r == <<>>
        <5>1. h[k] = Turn("update", v, Going(r), packet[k])
          BY <3>1
        <5> HIDE DEF r
        <5>2. h[k] = Left(Append(r, Decode(v, packet[k])))
          BY <3>3, <5>1, UpdateTurn
        <5> QED BY <5>2 DEF r
      <4> QED BY <3>2, <3>3, <4>1 DEF x
    <3>4. CASE Outcome(v, packet[k]) = "abort"
      <4>1. h[k] = Left(<<>>)
        BY <3>1, <3>4, UpdateTurn
      <4> QED BY <3>4, <4>1 DEF x
    <3> QED BY <2>3, <3>3, <3>4, OneOutcome
  <2>12. \A i \in k + 1 .. n : h[i - 1] = Left(x) => h[i] = Left(x)
    BY <1>1, <2>3, UpdateTurn
  <2>13. h[n] = Left(x)
    <3>1. h[k] = e[k]
      BY <2>3, <2>5, <2>11
    <3>2. GoesAs(h, e, k, n)
      BY <2>3, <2>5, <2>12, <3>1 DEF GoesAs
    <3>3. k \in Nat
      BY <2>3
    <3>4. \A i \in k .. n : h[i] = e[i]
      BY <3>2, <3>3, Follow
    <3> QED BY <2>3, <2>5, <3>4
  <2>14. UpdateLoop(v, packet) = x
    BY <1>2, <2>13 DEF Left
  <2>15. CASE Outcome(v, packet[k]) = "route"
    <3>1. k \in own
      BY <2>3, <2>4, <2>15 DEF own, Readable
    <3>2. \A i \in own : k <= i
      BY <2>3, <2>4 DEF own, Readable
    <3>3. own \in SUBSET Nat
      BY DEF own, Readable
    <3>4. Min(own) = k
      BY <3>1, <3>2, <3>3, MinIs
    <3>5. x = <<Decode(v, packet[k])>>
      BY <2>15 DEF x
    <3>6. own # {}
      BY <3>1
    <3> QED BY <2>14, <3>4, <3>5, <3>6 DEF own
  <2>16. CASE Outcome(v, packet[k]) = "abort"
    <3>1. own = {}
      BY <2>3, <2>4, <2>16 DEF own, Readable
    <3>2. x = <<>>
      BY <2>16 DEF x
    <3> QED BY <2>14, <3>1, <3>2 DEF own
  <2> QED BY <2>3, <2>15, <2>16, OneOutcome
<1> QED BY <1>4, <1>5

\* The routes a packet begins with.
Leading(v, packet) ==
    [i \in {j \in Readable(v, packet) : 1 .. j \subseteq Readable(v, packet)}
        |-> Decode(v, packet[i])]

\* eigrp_query_receive and eigrp_reply_receive hand over these and no other.
LEMMA QueryHandsOver ==
    ASSUME NEW v, NEW packet, NEW n \in Nat, DOMAIN packet = 1 .. n
    PROVE  QueryLoop(v, packet) = Leading(v, packet)
<1>1. PICK h : /\ h[0] = Begin
               /\ \A i \in 1 .. n : h[i] = Turn("query", v, h[i - 1], packet[i])
               /\ QueryLoop(v, packet) = h[n].routes
  <2>1. \E h : Runs("query", v, packet, n, h) /\ QueryLoop(v, packet) = h[n].routes
    BY Turns
  <2> QED BY <2>1 DEF Runs
<1>2. QueryLoop(v, packet) = h[n].routes
  BY <1>1
<1> DEFINE Stops == {i \in 1 .. n + 1 : i \in 1 .. n => Outcome(v, packet[i]) # "route"}
<1>3. n + 1 \in Stops /\ Stops \in SUBSET Nat
  OBVIOUS
<1>4. PICK s \in Stops : \A i \in Stops : s <= i
  BY <1>3, SmallestOf
<1> DEFINE m == s - 1
<1>5. /\ s \in 1 .. n + 1 /\ m \in 0 .. n /\ m \in Nat /\ s = m + 1
      /\ s \in 1 .. n => Outcome(v, packet[s]) # "route"
  OBVIOUS
<1>6. \A i \in 1 .. m : i \in 1 .. n /\ Outcome(v, packet[i]) = "route"
  BY <1>4
<1> HIDE DEF Stops, m
<1> DEFINE F(i) == First(v, packet, i)
           own == Readable(v, packet)
           g == [i \in 0 .. n |-> Going(F(i))]
           e == [i \in 0 .. n |-> Left(F(m))]
<1>7. \A i \in 0 .. n : g[i] = Going(F(i)) /\ e[i] = Left(F(m))
  OBVIOUS
<1>8. F(0) = <<>>
  BY DEF First
<1> HIDE DEF F
<1>9. h[0] = g[0]
  <2>1. h[0] = Going(F(0))
    BY <1>1, <1>8 DEF Begin, Going
  <2>2. 0 \in 0 .. n
    OBVIOUS
  <2> HIDE DEF g
  <2> QED BY <1>7, <2>1, <2>2
<1> HIDE DEF g, e, own
<1>10. ASSUME NEW i \in 1 .. m, h[i - 1] = g[i - 1] PROVE h[i] = g[i]
  <2>1. i \in 1 .. n /\ i - 1 \in 0 .. n /\ i \in 0 .. n /\ i \in Nat /\ i > 0
    BY <1>5
  <2>2. h[i] = Turn("query", v, Going(F(i - 1)), packet[i])
    BY <1>1, <1>7, <1>10, <2>1
  <2>3. h[i] = Going(Append(F(i - 1), Decode(v, packet[i])))
    BY <1>6, <2>2, QueryTurn
  <2>4. Append(F(i - 1), Decode(v, packet[i])) = F(i)
    BY <2>1, FirstAppend DEF F
  <2> QED BY <1>7, <2>1, <2>3, <2>4
<1>11. GoesAs(h, g, 0, m)
  BY <1>9, <1>10 DEF GoesAs
<1>12. \A i \in 0 .. m : h[i] = g[i]
  BY <1>5, <1>11, Follow
<1>13. h[m] = Going(F(m))
  BY <1>5, <1>7, <1>12
<1>14. h[n].routes = F(m)
  <2>1. CASE m = n
    BY <1>13, <2>1 DEF Going
  <2>2. CASE m # n
    <3>1. s \in 1 .. n /\ s \in 0 .. n /\ s \in Nat /\ s - 1 = m
      BY <1>5, <2>2
    <3>2. h[s] = Turn("query", v, Going(F(m)), packet[s])
      BY <1>1, <1>13, <3>1
    <3>3. h[s] = Left(F(m))
      BY <1>5, <3>1, <3>2, QueryTurn
    <3>4. ASSUME NEW i \in s + 1 .. n, h[i - 1] = e[i - 1] PROVE h[i] = e[i]
      <4>1. i \in 1 .. n /\ i - 1 \in 0 .. n /\ i \in 0 .. n
        BY <3>1
      <4>2. h[i] = Turn("query", v, Left(F(m)), packet[i])
        BY <1>1, <1>7, <3>4, <4>1
      <4> QED BY <1>7, <4>1, <4>2, QueryTurn
    <3>5. h[s] = e[s]
      BY <1>7, <3>1, <3>3
    <3>6. GoesAs(h, e, s, n)
      BY <3>4, <3>5 DEF GoesAs
    <3>7. \A i \in s .. n : h[i] = e[i]
      BY <3>1, <3>6, Follow
    <3>8. h[n] = Left(F(m))
      BY <1>7, <3>1, <3>7
    <3> QED BY <3>8 DEF Left
  <2> QED BY <2>1, <2>2
<1>15. {j \in own : 1 .. j \subseteq own} = 1 .. m
  <2>1. \A i \in 1 .. m : i \in own
    BY <1>5, <1>6 DEF own, Readable
  <2>2. s \notin own /\ own \subseteq 1 .. n
    BY <1>5 DEF own, Readable
  <2>3. ASSUME NEW j \in own, 1 .. j \subseteq own PROVE j \in 1 .. m
    BY <1>5, <2>2, <2>3
  <2>4. ASSUME NEW j \in 1 .. m PROVE j \in own /\ 1 .. j \subseteq own
    BY <1>5, <2>1
  <2> QED BY <2>3, <2>4
<1>16. F(m) = [i \in 1 .. m |-> Decode(v, packet[i])]
  BY DEF First, F
<1> QED BY <1>2, <1>14, <1>15, <1>16 DEF own, Leading

-------------------------------------------------------------------------------
(* The codecs.                                                                *)

\* Arithmetic that the word sizes need.
LEMMA Divides ==
    ASSUME NEW a \in Nat, NEW b \in Nat, b > 0
    PROVE  /\ a \div b \in Nat /\ a % b \in 0 .. b - 1
           /\ a = b * (a \div b) + (a % b)
OBVIOUS

LEMMA Times ==
    ASSUME NEW a \in Nat, NEW b \in Nat
    PROVE  a * b \in Nat
OBVIOUS

LEMMA Mono ==
    ASSUME NEW a \in Nat, NEW b \in Nat, NEW c \in Nat, a < b
    PROVE  a * c + c <= b * c
<1>1. a + 1 <= b
  OBVIOUS
<1>2. (a + 1) * c <= b * c
  BY <1>1
<1>3. (a + 1) * c = a * c + c
  OBVIOUS
<1> QED BY <1>2, <1>3

\* Quotient and remainder are unique.
LEMMA Unique ==
    ASSUME NEW b \in Nat, b > 0, NEW q \in Nat, NEW r \in 0 .. b - 1
    PROVE  (q * b + r) \div b = q /\ (q * b + r) % b = r
<1> DEFINE a == q * b + r
           x == a \div b
           y == a % b
<1>1. a \in Nat
  OBVIOUS
<1>2. x \in Nat /\ y \in 0 .. b - 1 /\ a = b * x + y
  BY <1>1, Divides
<1>3. b * x = x * b
  BY <1>2
<1> HIDE DEF x, y
<1>4. q * b + r = x * b + y
  BY <1>2, <1>3
<1>5. x * b \in Nat /\ q * b \in Nat
  BY <1>2
<1>6. ~ (x < q)
  <2> SUFFICES ASSUME x < q PROVE FALSE
    OBVIOUS
  <2>1. x * b + b <= q * b
    BY <1>2, Mono
  <2> QED BY <2>1, <1>2, <1>4, <1>5
<1>7. ~ (q < x)
  <2> SUFFICES ASSUME q < x PROVE FALSE
    OBVIOUS
  <2>1. q * b + b <= x * b
    BY <1>2, Mono
  <2> QED BY <2>1, <1>2, <1>4, <1>5
<1>8. x = q
  BY <1>2, <1>6, <1>7
<1>9. y = r
  BY <1>2, <1>4, <1>5, <1>8
<1> QED BY <1>8, <1>9 DEF x, y

\* d scaled by s is x.
ScaledBy(d, s, x) == x = d * s

\* A number that was scaled and cut to w, scaled back.
LEMMA LowBits ==
    ASSUME NEW d \in Nat, NEW s \in Nat, s > 0, NEW k \in Nat, k > 0,
           NEW x \in Nat, NEW w \in Nat, ScaledBy(d, s, x), ScaledBy(k, s, w)
    PROVE  (x % w) \div s = d % k
<1> USE DEF ScaledBy
<1> DEFINE q == d \div k
           r == d % k
<1>1. q \in Nat /\ r \in 0 .. k - 1 /\ d = k * q + r
  BY Divides
<1> HIDE DEF q, r
<1>2. d * s = q * (k * s) + r * s
  BY <1>1
<1>3. k * s \in Nat /\ r * s \in Nat
  BY <1>1
<1>4. r * s + s <= k * s
  BY <1>1, Mono
<1>5. k * s > 0 /\ r * s \in 0 .. k * s - 1
  BY <1>3, <1>4
<1>6. x % w = r * s
  <2> DEFINE z == r * s
  <2>1. w \in Nat /\ w > 0 /\ z \in 0 .. w - 1 /\ x = q * w + z
    BY <1>2, <1>3, <1>5
  <2> HIDE DEF z
  <2>2. (q * w + z) % w = z
    BY <1>1, <2>1, Unique
  <2>3. x % w = z
    BY <2>1, <2>2
  <2> QED BY <2>3 DEF z
<1>7. (r * s) \div s = r
  <2>1. (r * s + 0) \div s = r
    BY <1>1, Unique
  <2>2. r * s + 0 = r * s
    BY <1>3
  <2> QED BY <2>1, <2>2
<1>8. (r * s) \div s = d % k
  BY <1>7 DEF r
<1> QED BY <1>6, <1>8

\* One packet with one TLV, or with the two of a route for both versions.
LEMMA UpdateOfOne ==
    ASSUME NEW v, NEW tlv, Outcome(v, tlv) = "route"
    PROVE  UpdateLoop(v, <<tlv>>) = <<Decode(v, tlv)>>
<1> DEFINE p == <<tlv>>
           own == Readable(v, p)
<1>1. DOMAIN p = 1 .. 1 /\ p[1] = tlv
  OBVIOUS
<1> HIDE DEF p
<1>2. own = {1}
  BY <1>1 DEF Readable
<1>3. Min(own) = 1
  <2>1. \A y \in {1} : 1 <= y
    OBVIOUS
  <2>2. Min({1}) = 1
    BY <2>1, MinIs
  <2> QED BY <1>2, <2>2
<1>4. UpdateLoop(v, p) = IF own = {} THEN <<>> ELSE <<Decode(v, p[Min(own)])>>
  BY <1>1, UpdateHandsOver
<1> HIDE DEF own
<1>5. UpdateLoop(v, p) = <<Decode(v, tlv)>>
  BY <1>1, <1>2, <1>3, <1>4
<1> QED BY <1>5 DEF p

LEMMA UpdateOfTwo ==
    ASSUME NEW v, NEW a, NEW b
    PROVE  /\ Outcome(v, a) = "route" => UpdateLoop(v, <<a, b>>) = <<Decode(v, a)>>
           /\ Outcome(v, a) = "skip" /\ Outcome(v, b) = "route"
                => UpdateLoop(v, <<a, b>>) = <<Decode(v, b)>>
<1> DEFINE p == <<a, b>>
           own == Readable(v, p)
<1>1. DOMAIN p = 1 .. 2 /\ p[1] = a /\ p[2] = b
  OBVIOUS
<1> HIDE DEF p
<1>2. own \in SUBSET (1 .. 2) /\ own \in SUBSET Nat
  BY <1>1 DEF Readable
<1>3. UpdateLoop(v, p) = IF own = {} THEN <<>> ELSE <<Decode(v, p[Min(own)])>>
  BY <1>1, UpdateHandsOver
<1>4. ASSUME Outcome(v, a) = "route"
      PROVE  UpdateLoop(v, p) = <<Decode(v, a)>>
  <2>1. 1 \in own
    BY <1>1, <1>4 DEF Readable
  <2>2. Min(own) = 1
    <3>1. \A y \in own : 1 <= y
      BY <1>2
    <3> HIDE DEF own
    <3> QED BY <1>2, <2>1, <3>1, MinIs
  <2> HIDE DEF own
  <2> QED BY <1>1, <1>3, <2>1, <2>2
<1>5. ASSUME Outcome(v, a) = "skip", Outcome(v, b) = "route"
      PROVE  UpdateLoop(v, p) = <<Decode(v, b)>>
  <2>1. 2 \in own /\ 1 \notin own
    BY <1>1, <1>5 DEF Readable
  <2>2. Min(own) = 2
    <3>1. \A y \in own : 2 <= y
      BY <1>2, <2>1
    <3> HIDE DEF own
    <3> QED BY <1>2, <2>1, <3>1, MinIs
  <2> HIDE DEF own
  <2> QED BY <1>1, <1>3, <2>1, <2>2
<1> QED BY <1>4, <1>5 DEF p

\* A delay that eigrp_delay_to_scaled cut to 32 bits, and what its inverse makes
\* of it: the low bits, and 1 where they are 0.
LEMMA ScaledDelay ==
    ASSUME NEW d \in Nat
    PROVE  ScaledToDelay(DelayToScaled(d)) =
               LET low == d % (Word \div Scaler) IN IF low = 0 THEN 1 ELSE low
<1> DEFINE k == Word \div Scaler
           one == IF d = 0 THEN 1 ELSE d
<1>1. /\ Scaler \in Nat /\ Scaler > 1 /\ Word \in Nat /\ Scaler < Word
      /\ Word % Scaler = 0
  BY CodecAssumption
<1>2. k \in Nat /\ Word = Scaler * k
  BY <1>1, Divides
<1> HIDE DEF k
<1>3. Word = k * Scaler /\ k > 1
  <2>1. k # 0 /\ k # 1
    BY <1>1, <1>2
  <2> QED BY <1>1, <1>2, <2>1
<1>4. one \in Nat
  OBVIOUS
<1> HIDE DEF one
<1>5. ((one * Scaler) % Word) \div Scaler = one % k
  <2> DEFINE x == one * Scaler
  <2>1. Scaler \in Nat /\ Scaler > 0 /\ Word \in Nat
    BY <1>1
  <2>2. k \in Nat /\ k > 0 /\ ScaledBy(k, Scaler, Word)
    BY <1>2, <1>3 DEF ScaledBy
  <2>3. x \in Nat
    BY <1>4, <2>1, Times
  <2>4. ScaledBy(one, Scaler, x)
    BY DEF ScaledBy
  <2> HIDE DEF x
  <2>5. (x % Word) \div Scaler = one % k
    BY <1>4, <2>1, <2>2, <2>3, <2>4, LowBits
  <2> QED BY <2>5 DEF x
<1>6. one % k = IF d = 0 THEN 1 ELSE d % k
  BY <1>2, <1>3 DEF one
<1>7. d = 0 => d % k = 0
  BY <1>2, <1>3
<1>8. DelayToScaled(d) \div Scaler = IF d = 0 THEN 1 ELSE d % k
  BY <1>5, <1>6 DEF DelayToScaled, one
<1> QED BY <1>7, <1>8 DEF ScaledToDelay, k

\* What the two encoders write of a route, read at the places of its format, and
\* what the wide decoder makes of it (eigrp_tlv1.c, eigrp_tlv2.c).
LEMMA Codecs ==
    ASSUME NEW r, r.delay \in 0 .. WideWord - 2
    PROVE  /\ Tlv1Encode(r).format = "tlv1" /\ Written(Tlv1Encode(r)) = Carried(1, r)
           /\ Tlv2Encode(r).format = "tlv2" /\ Written(Tlv2Encode(r)) = Carried(2, r)
           /\ Outcome(2, Tlv2Encode(r)) = "route" /\ Outcome(2, Tlv1Encode(r)) = "skip"
           /\ Decode(2, Tlv2Encode(r)) = Carried(2, r)
<1>1. /\ Word \in Nat /\ WideWord \in Nat /\ Word < WideWord
  BY CodecAssumption
<1>2. FormatOf(1) = "tlv1" /\ FormatOf(2) = "tlv2"
  BY DEF FormatOf
<1>3. /\ Tlv1Encode(r).format = "tlv1" /\ Tlv2Encode(r).format = "tlv2"
      /\ Tlv2Encode(r).sound
  BY DEF Tlv1Encode, Tlv2Encode, Tlv
<1>4. Outcome(2, Tlv2Encode(r)) = "route" /\ Outcome(2, Tlv1Encode(r)) = "skip"
  BY <1>2, <1>3 DEF Outcome, MakesOut
<1>5. Written(Tlv1Encode(r)) = Carried(1, r)
  <2>1. r.delay \in Nat
    BY <1>1
  <2>2. ScaledToDelay(DelayToScaled(r.delay)) =
           LET low == r.delay % (Word \div Scaler) IN IF low = 0 THEN 1 ELSE low
    BY <2>1, ScaledDelay
  <2> QED BY <2>2 DEF Written, Decoded, Tlv1Encode, Tlv, Carried
<1>6. Written(Tlv2Encode(r)) = Carried(2, r) /\ Decode(2, Tlv2Encode(r)) = Carried(2, r)
  BY <1>1 DEF Written, Decode, Tlv2Decode, Decoded, Tlv2Encode, Tlv, NoExt, Carried,
              Inaccessible, MaxMetric
<1> QED BY <1>3, <1>4, <1>5, <1>6

\* Just one TLV of a packet is of a version's format, and it carries the route.
Serves(v, packet, r) ==
    \E i \in DOMAIN packet : Own(v, packet) = {i} /\ Written(packet[i]) = Carried(v, r)

\* Each encoder for the versions it serves (eigrp_packet_encoder_both is for both).
LEMMA Encoders ==
    ASSUME NEW r, r.delay \in 0 .. WideWord - 2, NEW e
    PROVE  /\ e \in {"tlv1", "both"} => Serves(1, Encode(e, r), r)
           /\ e \in {"tlv2", "both"} => /\ Serves(2, Encode(e, r), r)
                                        /\ UpdateLoop(2, Encode(e, r)) = <<Carried(2, r)>>
<1> DEFINE a == Tlv1Encode(r)
           b == Tlv2Encode(r)
<1>1. /\ Encode("tlv1", r) = <<a>> /\ Encode("tlv2", r) = <<b>>
      /\ Encode("both", r) = <<a, b>>
  BY DEF Encode
<1>2. /\ a.format = "tlv1" /\ Written(a) = Carried(1, r)
      /\ b.format = "tlv2" /\ Written(b) = Carried(2, r)
      /\ Outcome(2, b) = "route" /\ Outcome(2, a) = "skip" /\ Decode(2, b) = Carried(2, r)
  BY Codecs
<1>3. FormatOf(1) = "tlv1" /\ FormatOf(2) = "tlv2"
  BY DEF FormatOf
<1> HIDE DEF a, b
<1>4. Serves(1, <<a>>, r) /\ Serves(2, <<b>>, r)
  <2>1. /\ DOMAIN <<a>> = {1} /\ <<a>>[1] = a
        /\ DOMAIN <<b>> = {1} /\ <<b>>[1] = b
    OBVIOUS
  <2>2. Own(1, <<a>>) = {1} /\ Own(2, <<b>>) = {1}
    BY <1>2, <1>3, <2>1 DEF Own
  <2> QED BY <1>2, <2>1, <2>2 DEF Serves
<1>5. Serves(1, <<a, b>>, r) /\ Serves(2, <<a, b>>, r)
  <2>1. DOMAIN <<a, b>> = {1, 2} /\ <<a, b>>[1] = a /\ <<a, b>>[2] = b
    OBVIOUS
  <2>2. Own(1, <<a, b>>) = {1} /\ Own(2, <<a, b>>) = {2}
    BY <1>2, <1>3, <2>1 DEF Own
  <2> QED BY <1>2, <2>1, <2>2 DEF Serves
<1>6. UpdateLoop(2, <<b>>) = <<Carried(2, r)>>
  BY <1>2, UpdateOfOne
<1>7. UpdateLoop(2, <<a, b>>) = <<Carried(2, r)>>
  BY <1>2, UpdateOfTwo
<1> QED BY <1>1, <1>4, <1>5, <1>6, <1>7

\* A delay in the table, the filter's poison included, fits the wide format and
\* is not the one it writes for an infinite delay.
LEMMA FilteredDelay ==
    ASSUME TypeOK, NEW d \in Dest
    PROVE  Filtered(d).delay \in 0 .. WideWord - 2
<1>1. /\ Word \in Nat /\ WideWord \in Nat /\ Word < WideWord /\ Word > 0
      /\ Delay \subseteq 0 .. WideWord - 2
  BY CodecAssumption
<1>2. route[d] \in RouteType
  BY DEF TypeOK
<1>3. Filtered(d).delay = IF d \in denied THEN MaxMetric ELSE route[d].delay
  BY <1>2 DEF Filtered, RouteType
<1>4. route[d].delay \in Delay \cup {0, MaxMetric}
  BY <1>2 DEF RouteType
<1>5. MaxMetric \in 0 .. WideWord - 2 /\ 0 \in 0 .. WideWord - 2
  BY <1>1 DEF MaxMetric
<1> QED BY <1>1, <1>3, <1>4, <1>5

-------------------------------------------------------------------------------
\* Every UP neighbour that told its version finds just the one TLV of a route in a
\* multicast packet, in its own format, with what that format carries: the encoder
\* that the counts select covers the version of every UP neighbour
\* (eigrp_interface_encoder_select), and the wide decoder skips the other format.
THEOREM EncoderAlwaysServes == Spec => []EncoderServesPeers
<1>1. IInv => EncoderServesPeers
  <2> SUFFICES ASSUME IInv, ~ iface.rebound, NEW v \in Version, NEW d \in Dest,
                      UpWith(v) # {}
               PROVE  LET packet == Encode(iface.encoder, Filtered(d))
                          carried == Carried(v, Filtered(d))
                      IN  /\ \E i \in DOMAIN packet :
                                 Own(v, packet) = {i} /\ Written(packet[i]) = carried
                          /\ v = 2 => UpdateLoop(v, packet) = <<carried>>
    BY DEF EncoderServesPeers
  <2> DEFINE r == Filtered(d)
             packet == Encode(iface.encoder, r)
  <2> SUFFICES Serves(v, packet, r) /\ (v = 2 => UpdateLoop(v, packet) = <<Carried(v, r)>>)
    BY DEF Serves
  <2>1. /\ TypeOK /\ iface.tlv1 \in Nat /\ iface.tlv2 \in Nat
        /\ iface.encoder = EncoderOf(iface.tlv1, iface.tlv2)
    BY DEF IInv, TypeOK
  <2>2. UpWith(1) = Ups(nbr, 1) /\ UpWith(2) = Ups(nbr, 2)
    BY DEF UpWith, Ups
  <2>3. /\ iface.tlv1 = Cardinality(Ups(nbr, 1)) /\ iface.tlv2 = Cardinality(Ups(nbr, 2))
    BY <2>2 DEF IInv, CountsMatchPeers
  <2>4. r.delay \in 0 .. WideWord - 2
    BY <2>1, FilteredDelay
  <2> HIDE DEF r
  <2>5. CASE v = 1
    <3>1. Ups(nbr, 1) # {}
      BY <2>2, <2>5
    <3>2. iface.tlv1 > 0
      BY <2>1, <2>3, <3>1, UpsFinite, FS_EmptySet
    <3>3. iface.encoder \in {"tlv1", "both"}
      BY <2>1, <3>2 DEF EncoderOf
    <3> QED BY <2>4, <2>5, <3>3, Encoders
  <2>6. CASE v = 2
    <3>1. Ups(nbr, 2) # {}
      BY <2>2, <2>6
    <3>2. iface.tlv2 > 0
      BY <2>1, <2>3, <3>1, UpsFinite, FS_EmptySet
    <3>3. iface.encoder \in {"tlv2", "both"}
      BY <2>1, <3>2 DEF EncoderOf
    <3> QED BY <2>4, <2>6, <3>3, Encoders
  <2> QED BY <2>5, <2>6 DEF Version
<1> QED BY <1>1, Always, PTL

\* What the receive loops of UPDATE, QUERY and REPLY hand over to DUAL of a packet
\* of any length, for any version: an UPDATE the first route that the decoder makes
\* out, a QUERY and a REPLY those they begin with, and nothing behind a TLV at
\* which it gives up, such as a classic one of reliability 255.
THEOREM AlwaysHandedOver == Spec => []HandedOver
<1>1. HandedOver
  <2> SUFFICES ASSUME NEW v \in {nbr[p].version : p \in Peer}, NEW packet \in Packets
               PROVE  LET own == Readable(v, packet)
                      IN  /\ UpdateLoop(v, packet) =
                                 IF own = {} THEN <<>>
                                 ELSE <<Decode(v, packet[Min(own)])>>
                          /\ QueryLoop(v, packet) =
                                 [i \in {j \in own : 1 .. j \subseteq own} |->
                                     Decode(v, packet[i])]
    BY DEF HandedOver
  <2>1. PICK n \in Nat : DOMAIN packet = 1 .. n
    <3>1. MaxTlvs \in Nat /\ packet \in BoundedSeq(Tlvs, MaxTlvs)
      BY CodecAssumption DEF Packets
    <3>2. PICK m \in 0 .. MaxTlvs : packet \in [1 .. m -> Tlvs]
      <4> HIDE DEF Tlvs
      <4> QED BY <3>1 DEF BoundedSeq, SeqOf
    <3> QED BY <3>1, <3>2
  <2>2. UpdateLoop(v, packet) =
           IF Readable(v, packet) = {} THEN <<>>
           ELSE <<Decode(v, packet[Min(Readable(v, packet))])>>
    BY <2>1, UpdateHandsOver
  <2>3. QueryLoop(v, packet) = Leading(v, packet)
    BY <2>1, QueryHandsOver
  <2> QED BY <2>2, <2>3 DEF Leading
<1> QED BY <1>1, PTL
===============================================================================
