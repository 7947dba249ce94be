------------------------ MODULE EigrpDualBestProofs ------------------------
(***************************************************************************)
(* The list of routes and what PASSIVE stands for.  The handlers keep the  *)
(* list sorted by an insertion and a removal, read its head as the best    *)
(* route, and cut a tail of unreachable routes off.  The inductive         *)
(* invariant Good adds to Sound that the list is sorted and names a        *)
(* neighbour once (the insertion finds its place, and the purge cuts a     *)
(* tail, only in a sorted list), that the distance of a listed route is    *)
(* the composite of its total metric (so that a best route with the same   *)
(* metric has the same distance), and what PASSIVE stands for.             *)
(*                                                                         *)
(* The last part adds Aligned: what zebra has of a passive destination.    *)
(***************************************************************************)
EXTENDS EigrpDualProofs

\* The list of routes: sorted by distance, every neighbour once.
SortedList(l, rt) ==
    \A i, j \in DOMAIN l : i < j => /\ l[i] # l[j]
                                    /\ rt[l[i]].dist <= rt[l[j]].dist

\* The instance is sound, its list is sorted, and the distance of a listed
\* route is the composite of its metric.
Listed(s) ==
    /\ Sound(s)
    /\ SortedList(s.entries, s.route)
    /\ \A n \in ToSet(s.entries) : s.route[n].dist = Composite(s.route[n].total)

\* The routes that meet the feasibility condition.
FeasibleRoutes(s) == {n \in ToSet(s.entries) :
                         /\ s.route[n].rd < s.fdistance
                         /\ s.route[n].dist <= s.distance * Variance
                         /\ s.route[n].dist # MaxMetric}

\* The router stands for its best route.
StandsForBest(s) ==
    /\ s.distance = Best(s).dist /\ s.rdistance = s.distance
    /\ s.reported_metric = Best(s).total
    /\ s.fdistance <= s.distance

\* What holds of a passive destination when no handler is at work.
Settled(s) ==
    s.state = "passive" => StandsForBest(s) /\ s.succ = FeasibleRoutes(s)

\* What is left of it while a handler has changed the list and not yet looked
\* at the new best route.
Anchored(s) ==
    s.state = "passive" =>
        /\ s.distance = Composite(s.reported_metric)
        /\ s.rdistance = s.distance /\ s.fdistance <= s.distance

\* The inductive invariant, of an instance.
Good(s) == Listed(s) /\ Settled(s)

-----------------------------------------------------------------------------
(* Lists.                                                                  *)

\* A set of positions that holds every position below one of its own is the
\* interval that its size says.
LEMMA DownClosed ==
    ASSUME NEW N \in Nat, NEW S \in SUBSET (1 .. N),
           \A i \in S : \A j \in 1 .. i : j \in S
    PROVE  Cardinality(S) \in 0 .. N /\ S = 1 .. Cardinality(S)
<1>1. IsFiniteSet(1 .. N) /\ Cardinality(1 .. N) = N
  BY FS_Interval
<1>2. IsFiniteSet(S) /\ Cardinality(S) <= N /\ Cardinality(S) \in Nat
  BY <1>1, FS_Subset, FS_CardinalityType
<1>3. ASSUME NEW i \in S PROVE i <= Cardinality(S)
  <2>1. (1 .. i) \in SUBSET S /\ i \in Nat
    OBVIOUS
  <2>2. Cardinality(1 .. i) = i
    BY <2>1, FS_Interval
  <2>3. Cardinality(1 .. i) <= Cardinality(S)
    BY <1>2, <2>1, FS_Subset
  <2> QED BY <2>2, <2>3
<1> DEFINE k == Cardinality(S)
<1>4. S \in SUBSET (1 .. k)
  <2> HIDE DEF k
  <2>1. \A i \in S : i <= k
    BY <1>3 DEF k
  <2> QED BY <1>2, <2>1
<1>5. IsFiniteSet(1 .. k) /\ Cardinality(1 .. k) = k
  BY <1>2, FS_Interval
<1>6. S = 1 .. k
  BY <1>4, <1>5, FS_Subset
<1> QED BY <1>2, <1>6

\* The members of a list, by position.
LEMMA Members ==
    ASSUME NEW l \in Seq(Nbr)
    PROVE  ToSet(l) = {l[i] : i \in 1 .. Len(l)} /\ DOMAIN l = 1 .. Len(l)
BY DEF ToSet

\* What a concatenation holds.
LEMMA Concatenation ==
    ASSUME NEW a \in Seq(Nbr), NEW b \in Seq(Nbr)
    PROVE  /\ a \o b \in Seq(Nbr) /\ Len(a \o b) = Len(a) + Len(b)
           /\ \A j \in 1 .. Len(a) + Len(b) :
                 (a \o b)[j] = IF j <= Len(a) THEN a[j] ELSE b[j - Len(a)]
OBVIOUS

\* A sorted list stays sorted when the route of a neighbour that is not in it
\* changes.
LEMMA SortedElsewhere ==
    ASSUME NEW l \in Seq(Nbr), NEW rt \in [Nbr -> Route], SortedList(l, rt),
           NEW n \in Nbr, n \notin ToSet(l), NEW r
    PROVE  SortedList(l, [rt EXCEPT ![n] = r])
<1>1. \A i \in DOMAIN l : l[i] \in Nbr /\ l[i] # n
  BY Members
<1> QED BY <1>1 DEF SortedList

\* listnode_delete takes the neighbour out and keeps the order of the others.
LEMMA WithoutSorted ==
    ASSUME NEW l \in Seq(Nbr), NEW rt \in [Nbr -> Route], SortedList(l, rt),
           NEW n \in Nbr
    PROVE  /\ SortedList(Without(l, n), rt)
           /\ ToSet(Without(l, n)) = ToSet(l) \ {n}
<1>1. CASE n \notin ToSet(l)
  BY <1>1 DEF Without
<1>2. CASE n \in ToSet(l)
  <2> DEFINE i == CHOOSE k \in DOMAIN l : l[k] = n
             w == SubSeq(l, 1, i - 1) \o SubSeq(l, i + 1, Len(l))
  <2>1. i \in 1 .. Len(l) /\ l[i] = n
    BY <1>2 DEF ToSet
  <2>2. Without(l, n) = w
    BY <1>2 DEF Without, RemoveAt
  <2> HIDE DEF i
  <2>3. /\ w \in Seq(Nbr) /\ Len(w) = Len(l) - 1
        /\ \A j \in 1 .. Len(w) : w[j] = IF j < i THEN l[j] ELSE l[j + 1]
    <3> DEFINE a == SubSeq(l, 1, i - 1)
               b == SubSeq(l, i + 1, Len(l))
    <3>1. /\ a \in Seq(Nbr) /\ Len(a) = i - 1
          /\ \A j \in 1 .. i - 1 : a[j] = l[j]
      BY <2>1
    <3>2. /\ b \in Seq(Nbr) /\ Len(b) = Len(l) - i
          /\ \A j \in 1 .. Len(l) - i : b[j] = l[i + j]
      BY <2>1
    <3> HIDE DEF a, b
    <3>3. /\ a \o b \in Seq(Nbr) /\ Len(a \o b) = Len(l) - 1
          /\ \A j \in 1 .. Len(a \o b) :
                (a \o b)[j] = IF j <= Len(a) THEN a[j] ELSE b[j - Len(a)]
      <4>1. Len(a) + Len(b) = Len(l) - 1
        BY <2>1, <3>1, <3>2
      <4> QED BY <3>1, <3>2, <4>1, Concatenation
    <3>4. ASSUME NEW j \in 1 .. Len(a \o b)
          PROVE  (a \o b)[j] = IF j < i THEN l[j] ELSE l[j + 1]
      <4>1. CASE j < i
        BY <2>1, <3>1, <3>3, <4>1
      <4>2. CASE j >= i
        <5>1. j - (i - 1) \in 1 .. Len(l) - i /\ j > Len(a)
          BY <2>1, <3>1, <3>3, <4>2
        <5>2. b[j - (i - 1)] = l[j + 1]
          BY <2>1, <3>2, <5>1
        <5> QED BY <2>1, <3>1, <3>3, <4>2, <5>1, <5>2
      <4> QED BY <2>1, <4>1, <4>2
    <3> QED BY <3>3, <3>4 DEF a, b
  <2> HIDE DEF w
  <2>4. \A j, k \in 1 .. Len(l) : j # k => l[j] # l[k]
    BY DEF SortedList
  <2>5. SortedList(w, rt)
    <3> SUFFICES ASSUME NEW j \in 1 .. Len(w), NEW k \in 1 .. Len(w), j < k
                 PROVE  w[j] # w[k] /\ rt[w[j]].dist <= rt[w[k]].dist
      BY <2>3 DEF SortedList
    <3> DEFINE p(h) == IF h < i THEN h ELSE h + 1
    <3>1. p(j) \in 1 .. Len(l) /\ p(k) \in 1 .. Len(l) /\ p(j) < p(k)
      BY <2>1, <2>3
    <3>2. w[j] = l[p(j)] /\ w[k] = l[p(k)]
      BY <2>3
    <3> HIDE DEF p
    <3> QED BY <3>1, <3>2 DEF SortedList
  <2>6. ToSet(w) \subseteq ToSet(l) \ {n}
    <3> SUFFICES ASSUME NEW j \in 1 .. Len(w)
                 PROVE  w[j] \in ToSet(l) /\ w[j] # n
      BY <2>3, Members
    <3> DEFINE q == IF j < i THEN j ELSE j + 1
    <3>1. q \in 1 .. Len(l) /\ q # i /\ w[j] = l[q]
      BY <2>1, <2>3
    <3> HIDE DEF q
    <3> QED BY <2>1, <2>4, <3>1, Members
  <2>7. ToSet(l) \ {n} \subseteq ToSet(w)
    <3> SUFFICES ASSUME NEW q \in 1 .. Len(l), l[q] # n
                 PROVE  l[q] \in ToSet(w)
      BY Members
    <3> DEFINE j == IF q < i THEN q ELSE q - 1
    <3>1. j \in 1 .. Len(w) /\ w[j] = l[q]
      BY <2>1, <2>3
    <3> HIDE DEF j
    <3> QED BY <2>3, <3>1, Members
  <2> QED BY <2>2, <2>5, <2>6, <2>7
<1> QED BY <1>1, <1>2

\* The routes not longer than d are a head of a sorted list.
LEMMA ShortRoutes ==
    ASSUME NEW l \in Seq(Nbr), NEW rt \in [Nbr -> Route], SortedList(l, rt),
           NEW d \in Nat,
           NEW S, S = {i \in DOMAIN l : rt[l[i]].dist <= d}
    PROVE  Cardinality(S) \in 0 .. Len(l) /\ S = 1 .. Cardinality(S)
<1>1. S \in SUBSET (1 .. Len(l)) /\ Len(l) \in Nat
  OBVIOUS
<1>2. ASSUME NEW i \in S, NEW j \in 1 .. i PROVE j \in S
  <2>1. /\ i \in 1 .. Len(l) /\ j \in 1 .. Len(l) /\ (j = i \/ j < i)
        /\ l[i] \in Nbr /\ l[j] \in Nbr
    OBVIOUS
  <2>2. rt[l[j]].dist <= rt[l[i]].dist
    BY <2>1 DEF SortedList, Route, Distance
  <2>3. rt[l[j]].dist \in Int /\ rt[l[i]].dist \in Int
    BY <2>1, MetricAssumption DEF Route, Distance
  <2> QED BY <2>1, <2>2, <2>3
<1> QED BY <1>1, <1>2, DownClosed

\* listnode_add_sort puts a neighbour that is not in the list at its place.
LEMMA InsertSortedSorted ==
    ASSUME NEW l \in Seq(Nbr), NEW rt \in [Nbr -> Route], SortedList(l, rt),
           NEW n \in Nbr, n \notin ToSet(l)
    PROVE  /\ SortedList(InsertSorted(l, n, rt), rt)
           /\ ToSet(InsertSorted(l, n, rt)) = ToSet(l) \cup {n}
<1> DEFINE S == {i \in DOMAIN l : rt[l[i]].dist <= rt[n].dist}
           k == Cardinality(S)
           w == SubSeq(l, 1, k) \o <<n>> \o SubSeq(l, k + 1, Len(l))
<1>0. \A m \in Nbr : rt[m].dist \in Nat
  BY MetricAssumption DEF Route, Distance
<1>1. k \in 0 .. Len(l) /\ S = 1 .. k
  <2> DEFINE d == rt[n].dist
  <2>1. S = {i \in DOMAIN l : rt[l[i]].dist <= d} /\ d \in Nat
    BY <1>0
  <2> HIDE DEF S, d
  <2>2. \A c \in Nat : \A T : T = {i \in DOMAIN l : rt[l[i]].dist <= c} =>
                             Cardinality(T) \in 0 .. Len(l) /\ T = 1 .. Cardinality(T)
    BY ShortRoutes
  <2> QED BY <2>1, <2>2
<1>2. InsertSorted(l, n, rt) = w
  BY DEF InsertSorted, CountIn
<1>3. \A i \in 1 .. Len(l) : rt[l[i]].dist <= rt[n].dist <=> i <= k
  <2> HIDE DEF k
  <2> QED BY <1>1
<1> HIDE DEF k, S
<1>4. /\ w \in Seq(Nbr) /\ Len(w) = Len(l) + 1
      /\ \A j \in 1 .. Len(w) : w[j] = IF j <= k THEN l[j]
                                       ELSE IF j = k + 1 THEN n ELSE l[j - 1]
  <2> DEFINE a == SubSeq(l, 1, k)
             b == SubSeq(l, k + 1, Len(l))
             c == <<n>>
  <2>1. a \in Seq(Nbr) /\ Len(a) = k /\ \A j \in 1 .. k : a[j] = l[j]
    BY <1>1
  <2>2. /\ b \in Seq(Nbr) /\ Len(b) = Len(l) - k
        /\ \A j \in 1 .. Len(l) - k : b[j] = l[k + j]
    BY <1>1
  <2>3. c \in Seq(Nbr) /\ Len(c) = 1 /\ c[1] = n
    OBVIOUS
  <2> HIDE DEF a, b, c
  <2>4. /\ a \o c \in Seq(Nbr) /\ Len(a \o c) = k + 1
        /\ \A j \in 1 .. k + 1 : (a \o c)[j] = IF j <= k THEN l[j] ELSE n
    <3>1. /\ a \o c \in Seq(Nbr) /\ Len(a \o c) = k + 1
          /\ \A j \in 1 .. k + 1 : (a \o c)[j] = IF j <= k THEN a[j] ELSE c[j - k]
      <4>1. Len(a) + Len(c) = k + 1 /\ Len(a) = k
        BY <1>1, <2>1, <2>3
      <4>2. /\ a \o c \in Seq(Nbr) /\ Len(a \o c) = Len(a) + Len(c)
            /\ \A j \in 1 .. Len(a) + Len(c) :
                  (a \o c)[j] = IF j <= Len(a) THEN a[j] ELSE c[j - Len(a)]
        BY <2>1, <2>3, Concatenation
      <4> QED BY <4>1, <4>2
    <3>2. \A j \in 1 .. k + 1 : ~(j <= k) => j - k = 1
      BY <1>1
    <3> QED BY <1>1, <2>1, <2>3, <3>1, <3>2
  <2> DEFINE d == a \o c
  <2> HIDE DEF d
  <2>5. /\ d \o b \in Seq(Nbr) /\ Len(d \o b) = Len(l) + 1
        /\ \A j \in 1 .. Len(d \o b) :
              (d \o b)[j] = IF j <= Len(d) THEN d[j] ELSE b[j - Len(d)]
    <3>1. d \in Seq(Nbr) /\ Len(d) + Len(b) = Len(l) + 1
      BY <1>1, <2>2, <2>4 DEF d
    <3> QED BY <2>2, <3>1, Concatenation
  <2>6. ASSUME NEW j \in 1 .. Len(d \o b)
        PROVE  (d \o b)[j] = IF j <= k THEN l[j]
                             ELSE IF j = k + 1 THEN n ELSE l[j - 1]
    <3>1. CASE j <= k + 1
      BY <1>1, <2>4, <2>5, <3>1 DEF d
    <3>2. CASE j > k + 1
      <4>1. j - (k + 1) \in 1 .. Len(l) - k /\ Len(d) = k + 1
        BY <1>1, <2>4, <2>5, <3>2 DEF d
      <4>2. b[j - (k + 1)] = l[j - 1]
        BY <1>1, <2>2, <4>1
      <4> QED BY <1>1, <2>5, <3>2, <4>1, <4>2
    <3> QED BY <1>1, <3>1, <3>2
  <2>7. w = d \o b
    BY DEF a, b, c, d
  <2> HIDE DEF w
  <2> QED BY <2>5, <2>6, <2>7
<1> HIDE DEF w
<1>5. \A j \in 1 .. Len(l) : l[j] \in Nbr /\ l[j] # n
  BY Members
<1>6. SortedList(w, rt)
  <2> SUFFICES ASSUME NEW i \in 1 .. Len(w), NEW j \in 1 .. Len(w), i < j
               PROVE  w[i] # w[j] /\ rt[w[i]].dist <= rt[w[j]].dist
    BY <1>4 DEF SortedList
  <2>1. CASE j <= k
    <3>1. w[i] = l[i] /\ w[j] = l[j] /\ i \in 1 .. Len(l) /\ j \in 1 .. Len(l)
      BY <1>1, <1>4, <2>1
    <3> QED BY <3>1 DEF SortedList
  <2>2. CASE j = k + 1
    <3>1. w[i] = l[i] /\ w[j] = n /\ i \in 1 .. Len(l) /\ i <= k
      BY <1>1, <1>4, <2>2
    <3> QED BY <1>3, <1>5, <3>1
  <2>3. CASE j > k + 1 /\ i = k + 1
    <3>1. w[i] = n /\ w[j] = l[j - 1] /\ j - 1 \in 1 .. Len(l) /\ ~(j - 1 <= k)
      BY <1>1, <1>4, <2>3
    <3>2. ~(rt[l[j - 1]].dist <= rt[n].dist)
      BY <1>3, <3>1
    <3> QED BY <1>0, <1>5, <3>1, <3>2
  <2>4. CASE j > k + 1 /\ i # k + 1
    <3> DEFINE p == IF i <= k THEN i ELSE i - 1
    <3>1. /\ w[i] = l[p] /\ w[j] = l[j - 1] /\ j - 1 \in 1 .. Len(l)
          /\ p \in 1 .. Len(l) /\ p < j - 1
      BY <1>1, <1>4, <2>4
    <3> HIDE DEF p
    <3> QED BY <3>1 DEF SortedList
  <2> QED BY <1>1, <2>1, <2>2, <2>3, <2>4
<1>7. ToSet(w) \subseteq ToSet(l) \cup {n}
  <2> SUFFICES ASSUME NEW j \in 1 .. Len(w) PROVE w[j] \in ToSet(l) \cup {n}
    BY <1>4, Members
  <2>1. w[j] = n \/ \E i \in 1 .. Len(l) : w[j] = l[i]
    <3>1. CASE j <= k
      BY <1>1, <1>4, <3>1
    <3>2. CASE j > k + 1
      <4>1. j - 1 \in 1 .. Len(l) /\ w[j] = l[j - 1]
        BY <1>1, <1>4, <3>2
      <4> QED BY <4>1
    <3> QED BY <1>1, <1>4, <3>1, <3>2
  <2> QED BY <2>1, Members
<1>8. ToSet(l) \cup {n} \subseteq ToSet(w)
  <2>1. n \in ToSet(w)
    <3>1. k + 1 \in 1 .. Len(w) /\ w[k + 1] = n
      BY <1>1, <1>4
    <3> QED BY <1>4, <3>1, Members
  <2>2. ASSUME NEW q \in 1 .. Len(l) PROVE l[q] \in ToSet(w)
    <3>1. CASE q <= k
      <4>1. q \in 1 .. Len(w) /\ w[q] = l[q]
        BY <1>1, <1>4, <3>1
      <4> QED BY <1>4, <4>1, Members
    <3>2. CASE q > k
      <4>1. /\ q + 1 \in 1 .. Len(w) /\ ~(q + 1 <= k) /\ q + 1 # k + 1
            /\ (q + 1) - 1 = q
        BY <1>1, <1>4, <3>2
      <4>2. w[q + 1] = l[(q + 1) - 1]
        BY <1>4, <4>1
      <4> QED BY <1>4, <4>1, <4>2, Members
    <3> QED BY <1>1, <3>1, <3>2
  <2> QED BY <2>1, <2>2, Members
<1> QED BY <1>2, <1>6, <1>7, <1>8

\* A head of a sorted list is sorted, and keeps the routes up to the cut.
LEMMA HeadSorted ==
    ASSUME NEW l \in Seq(Nbr), NEW rt, SortedList(l, rt), NEW k \in 0 .. Len(l)
    PROVE  /\ SortedList(SubSeq(l, 1, k), rt)
           /\ ToSet(SubSeq(l, 1, k)) = {l[i] : i \in 1 .. k}
<1> DEFINE a == SubSeq(l, 1, k)
<1>1. a \in Seq(Nbr) /\ Len(a) = k /\ \A j \in 1 .. k : a[j] = l[j]
  OBVIOUS
<1> HIDE DEF a
<1>2. SortedList(a, rt)
  <2> SUFFICES ASSUME NEW i \in 1 .. k, NEW j \in 1 .. k, i < j
               PROVE  a[i] # a[j] /\ rt[a[i]].dist <= rt[a[j]].dist
    BY <1>1 DEF SortedList
  <2>1. a[i] = l[i] /\ a[j] = l[j] /\ i \in 1 .. Len(l) /\ j \in 1 .. Len(l)
    BY <1>1
  <2> QED BY <2>1 DEF SortedList
<1>3. ToSet(a) = {l[i] : i \in 1 .. k}
  BY <1>1, Members
<1> QED BY <1>2, <1>3 DEF a

-----------------------------------------------------------------------------
(* The handlers.                                                           *)

\* t has the books of s: what Good speaks of, the queues and rij aside.
Books(s, t) ==
    /\ t.state = s.state         /\ t.entries = s.entries
    /\ t.route = s.route         /\ t.succ = s.succ
    /\ t.fdistance = s.fdistance /\ t.rdistance = s.rdistance
    /\ t.distance = s.distance   /\ t.reported_metric = s.reported_metric

\* A sound instance with the books of a good one is good.
LEMMA BooksGood ==
    ASSUME NEW s, NEW t, Books(s, t), Sound(t)
    PROVE  /\ Listed(s) => Listed(t)
           /\ Anchored(s) => Anchored(t)
           /\ Good(s) => Good(t)
<1>1. Listed(s) => Listed(t)
  BY DEF Books, Listed
<1>2. Anchored(s) => Anchored(t)
  BY DEF Books, Anchored
<1>3. Settled(s) => Settled(t)
  BY DEF Books, Settled, StandsForBest, FeasibleRoutes, Best
<1> QED BY <1>1, <1>2, <1>3 DEF Good

\* A good descriptor has its distance from the metric it reports.
LEMMA GoodAnchored ==
    ASSUME NEW s, Good(s), s.state # "none"
    PROVE  Listed(s) /\ Anchored(s)
<1>1. s.entries \in Seq(Nbr) /\ s.entries # <<>> /\ Listed(s)
  BY DEF Good, Listed, Sound, Instance
<1>2. Head(s.entries) \in ToSet(s.entries)
  <2>1. Head(s.entries) = s.entries[1] /\ 1 \in 1 .. Len(s.entries)
    BY <1>1
  <2> QED BY <1>1, <2>1, Members
<1>3. Best(s).dist = Composite(Best(s).total)
  BY <1>1, <1>2 DEF Listed, Best
<1> QED BY <1>1, <1>3 DEF Good, Settled, StandsForBest, Anchored

\* An instance that is not passive has nothing to stand for.
LEMMA NotPassive ==
    ASSUME NEW s, Listed(s), s.state # "passive" PROVE Good(s) /\ Anchored(s)
BY DEF Good, Settled, Anchored

\* eigrp_topology_update_distance takes the route out of the list and sorts it
\* in again.
LEMMA UpdateDistanceListed ==
    ASSUME NEW s, Listed(s), Anchored(s), s.state # "none",
           NEW n \in Nbr, NEW m \in Metric
    PROVE  /\ Listed(UpdateDistance(s, n, m)) /\ Anchored(UpdateDistance(s, n, m))
           /\ UpdateDistance(s, n, m).state = s.state
<1>1. CASE m = s.route[n].reported
  BY <1>1 DEF UpdateDistance
<1>2. CASE m # s.route[n].reported
  <2> DEFINE rt == [s.route EXCEPT ![n] = HeardRoute(n, m)]
             w  == Without(s.entries, n)
             e  == InsertSorted(w, n, rt)
             u  == [s EXCEPT !.route = rt, !.entries = e]
  <2>1. UpdateDistance(s, n, m) = u
    BY <1>2 DEF UpdateDistance, Listed, Sound, Instance
  <2>2. Sound(u)
    BY <2>1, UpdateDistanceSound DEF Listed
  <2>3. /\ s.route \in [Nbr -> Route] /\ s.entries \in Seq(Nbr)
        /\ SortedList(s.entries, s.route)
    BY DEF Listed, Sound, Instance
  <2>4. rt \in [Nbr -> Route] /\ w \in Seq(Nbr)
    BY <2>3, HeardRouteType, WithoutType
  <2>5. SortedList(w, s.route) /\ ToSet(w) = ToSet(s.entries) \ {n}
    BY <2>3, WithoutSorted
  <2>6. SortedList(w, rt)
    <3> HIDE DEF w
    <3> QED BY <2>3, <2>4, <2>5, SortedElsewhere
  <2>7. SortedList(e, rt) /\ ToSet(e) = ToSet(s.entries) \cup {n}
    <3> HIDE DEF w, rt
    <3> QED BY <2>4, <2>5, <2>6, InsertSortedSorted
  <2>8. ASSUME NEW k \in ToSet(e) PROVE rt[k].dist = Composite(rt[k].total)
    <3>1. CASE k = n
      BY <2>3, <3>1 DEF HeardRoute
    <3>2. CASE k # n
      <4>1. k \in ToSet(s.entries) /\ k \in Nbr
        BY <2>3, <2>7, <2>8, <3>2, Members
      <4> QED BY <2>3, <3>2, <4>1 DEF Listed
    <3> QED BY <3>1, <3>2
  <2> HIDE DEF rt, e
  <2>9. /\ u.route = rt /\ u.entries = e /\ u.state = s.state
        /\ u.distance = s.distance /\ u.rdistance = s.rdistance
        /\ u.fdistance = s.fdistance /\ u.reported_metric = s.reported_metric
    BY DEF Listed, Sound, Instance
  <2> HIDE DEF u
  <2>10. Listed(u)
    BY <2>2, <2>7, <2>8, <2>9 DEF Listed
  <2>11. Anchored(u)
    BY <2>9 DEF Anchored
  <2> QED BY <2>1, <2>9, <2>10, <2>11
<1> QED BY <1>1, <1>2

\* eigrp_prefix_descriptor_delete leaves nothing to stand for.
LEMMA PrefixDeleteGood ==
    ASSUME NEW s, Sound(s) PROVE Good(PrefixDelete(s))
<1> DEFINE t == PrefixDelete(s)
<1>1. Sound(t)
  BY PrefixDeleteSound
<1>2. t.state = "none" /\ t.entries = <<>>
  BY DEF PrefixDelete, Sound, Instance
<1> HIDE DEF t
<1>3. DOMAIN t.entries = {} /\ ToSet(t.entries) = {}
  BY <1>2 DEF ToSet
<1>4. Listed(t)
  BY <1>1, <1>3 DEF Listed, SortedList
<1> QED BY <1>2, <1>4, NotPassive DEF t

\* Deleting the unreachable routes cuts a tail off the list: the best route, the
\* feasible ones and what the router stands for stay as they were.
LEMMA RoutesDeleteGood ==
    ASSUME NEW s, Good(s), s.entries # <<>>, Best(s).dist # MaxMetric
    PROVE  Good(RoutesDelete(s))
<1> DEFINE dead == {n \in ToSet(s.entries) : s.route[n].dist = MaxMetric}
           S    == {i \in DOMAIN s.entries : s.entries[i] \notin dead}
           live == Cardinality(S)
           rt   == [n \in Nbr |-> IF n \in dead THEN FreshRoute ELSE s.route[n]]
           e    == SubSeq(s.entries, 1, live)
           t    == RoutesDelete(s)
<1>1. /\ s.entries \in Seq(Nbr) /\ Len(s.entries) \in Nat /\ Len(s.entries) > 0
      /\ s.route \in [Nbr -> Route] /\ Sound(s) /\ SortedList(s.entries, s.route)
      /\ DOMAIN s.entries = 1 .. Len(s.entries)
      /\ MaxMetric \in Nat \ {0}
  BY MetricAssumption DEF Good, Listed, Sound, Instance
<1>2. /\ t.entries = e /\ t.route = rt /\ t.succ = s.succ \ dead
      /\ t.state = s.state /\ t.fdistance = s.fdistance
      /\ t.rdistance = s.rdistance /\ t.distance = s.distance
      /\ t.reported_metric = s.reported_metric
  BY DEF RoutesDelete, CountIn, Good, Listed, Sound, Instance
<1>3. Sound(t)
  BY <1>1, RoutesDeleteSound
<1>4. \A i \in 1 .. Len(s.entries) : s.entries[i] \in ToSet(s.entries) /\ s.entries[i] \in Nbr
  BY <1>1, Members
<1>5. S = {i \in DOMAIN s.entries : s.route[s.entries[i]].dist <= MaxMetric - 1}
  <2>1. ASSUME NEW i \in 1 .. Len(s.entries)
        PROVE  s.entries[i] \notin dead <=> s.route[s.entries[i]].dist <= MaxMetric - 1
    <3>1. s.route[s.entries[i]].dist \in 0 .. MaxMetric
      BY <1>1, <1>4 DEF Route, Distance
    <3> QED BY <1>1, <1>4, <3>1
  <2> HIDE DEF dead
  <2> QED BY <1>1, <2>1
<1>6. live \in 0 .. Len(s.entries) /\ S = 1 .. live
  <2> DEFINE d == MaxMetric - 1
  <2>1. S = {i \in DOMAIN s.entries : s.route[s.entries[i]].dist <= d} /\ d \in Nat
    BY <1>1, <1>5
  <2> HIDE DEF S, d
  <2>2. \A c \in Nat : \A T : T = {i \in DOMAIN s.entries : s.route[s.entries[i]].dist <= c} =>
             Cardinality(T) \in 0 .. Len(s.entries) /\ T = 1 .. Cardinality(T)
    BY <1>1, ShortRoutes
  <2> QED BY <2>1, <2>2
<1>7. 1 \in S
  <2>1. Head(s.entries) = s.entries[1] /\ 1 \in 1 .. Len(s.entries)
    BY <1>1
  <2> QED BY <1>1, <2>1 DEF Best
<1>8. \A i \in 1 .. Len(s.entries) : i <= live <=> s.entries[i] \notin dead
  <2>1. \A i \in 1 .. Len(s.entries) : i \in S <=> s.entries[i] \notin dead
    BY <1>1
  <2> HIDE DEF S, live, dead
  <2> QED BY <1>6, <2>1
<1>9. live \in 1 .. Len(s.entries)
  <2> HIDE DEF S, live
  <2> QED BY <1>6, <1>7
<1> HIDE DEF S, live
<1>10. ToSet(e) = ToSet(s.entries) \ dead
  <2>1. ToSet(e) = {s.entries[i] : i \in 1 .. live}
    BY <1>1, <1>6, HeadSorted
  <2>2. ToSet(s.entries) = {s.entries[i] : i \in 1 .. Len(s.entries)}
    BY <1>1, Members
  <2> HIDE DEF e, dead
  <2> QED BY <1>1, <1>6, <1>8, <2>1, <2>2
<1>11. \A n \in ToSet(e) : n \in Nbr /\ n \notin dead /\ rt[n] = s.route[n]
  <2>1. ToSet(s.entries) \subseteq Nbr
    BY <1>1, <1>4, Members
  <2> HIDE DEF e, dead
  <2> QED BY <1>10, <2>1
<1>12. SortedList(e, rt)
  <2>1. SortedList(e, s.route)
    BY <1>1, <1>6, HeadSorted
  <2>2. \A i \in DOMAIN e : e[i] \in ToSet(e)
    BY DEF ToSet
  <2> HIDE DEF e, rt, dead
  <2> QED BY <1>11, <2>1, <2>2 DEF SortedList
<1>13. Head(e) = Head(s.entries) /\ Head(e) \in ToSet(e)
  <2>1. /\ e \in Seq(Nbr) /\ Len(e) = live /\ e[1] = s.entries[1]
        /\ Head(e) = e[1] /\ Head(s.entries) = s.entries[1]
    BY <1>1, <1>9
  <2> HIDE DEF e
  <2> QED BY <1>9, <2>1, Members
<1>14. Listed(t)
  <2>1. \A n \in ToSet(e) : s.route[n].dist = Composite(s.route[n].total)
    BY <1>10 DEF Good, Listed
  <2> HIDE DEF e, rt, t, dead
  <2> QED BY <1>2, <1>3, <1>11, <1>12, <2>1 DEF Listed
<1>15. Best(t) = Best(s)
  <2> HIDE DEF e, rt, t, dead
  <2> QED BY <1>2, <1>11, <1>13 DEF Best
<1>16. FeasibleRoutes(t) = FeasibleRoutes(s) \ dead
  <2> HIDE DEF e, rt, t, dead
  <2> QED BY <1>2, <1>10, <1>11 DEF FeasibleRoutes
<1>17. Settled(t)
  <2> HIDE DEF e, rt, t, dead
  <2> QED BY <1>2, <1>15, <1>16 DEF Good, Settled, StandsForBest
<1> QED BY <1>14, <1>17 DEF Good

\* The end of a computation: flags, routing table and list agree afterwards.
LEMMA GoPassiveGood ==
    ASSUME NEW s, Listed(s), s.entries # <<>>, StandsForBest(s)
    PROVE  Good(GoPassive(s))
<1> DEFINE p == [s EXCEPT !.state = "passive"]
           c == AddChange(p, "update")
           f == UpdateNodeFlags(c)
           r == UpdateRoutingTable(f)
<1>1. Sound(p) /\ Sound(c) /\ Sound(f) /\ Sound(r)
  <2>1. Sound(p)
    BY DEF Listed, Sound, Instance, State
  <2> HIDE DEF p
  <2>2. Sound(c)
    BY <2>1, AddChangeSound
  <2> HIDE DEF c
  <2>3. Sound(f)
    BY <2>2, UpdateNodeFlagsSound
  <2> HIDE DEF f
  <2> QED BY <2>1, <2>2, <2>3, UpdateRoutingTableSound
<1>2. /\ p.state = "passive" /\ p.entries = s.entries /\ p.route = s.route
      /\ p.fdistance = s.fdistance /\ p.rdistance = s.rdistance
      /\ p.distance = s.distance /\ p.reported_metric = s.reported_metric
  BY DEF Listed, Sound, Instance
<1> HIDE DEF p
<1>3. Books(p, c)
  BY <1>1 DEF AddChange, Sound, Instance, Books
<1> HIDE DEF c
<1>4. /\ f.state = c.state /\ f.entries = c.entries /\ f.route = c.route
      /\ f.fdistance = c.fdistance /\ f.rdistance = c.rdistance
      /\ f.distance = c.distance /\ f.reported_metric = c.reported_metric
      /\ f.succ = FeasibleRoutes(c)
  BY <1>1 DEF UpdateNodeFlags, FeasibleRoutes, Sound, Instance
<1> HIDE DEF f
<1>5. Books(f, r)
  BY <1>1 DEF UpdateRoutingTable, Sound, Instance, Books
<1> HIDE DEF r
<1>6. /\ r.state = "passive" /\ r.entries = s.entries /\ r.route = s.route
      /\ r.fdistance = s.fdistance /\ r.rdistance = s.rdistance
      /\ r.distance = s.distance /\ r.reported_metric = s.reported_metric
      /\ r.succ = FeasibleRoutes(r)
  BY <1>2, <1>3, <1>4, <1>5 DEF Books, FeasibleRoutes
<1>7. Good(r)
  BY <1>1, <1>6 DEF Good, Listed, Settled, StandsForBest, Best
<1>8. GoPassive(s) = UpdateTopologyTablePrefix(r)
  BY DEF GoPassive, r, f, c, p
<1>9. r.distance = Best(r).dist
  BY <1>6 DEF StandsForBest, Best
<1> QED BY <1>1, <1>6, <1>7, <1>8, <1>9, PrefixDeleteGood, RoutesDeleteGood
        DEF UpdateTopologyTablePrefix

\* Taking over the best route, with a feasible distance not above it.
LEMMA AdoptBestListed ==
    ASSUME NEW s, Listed(s), s.entries # <<>>,
           NEW d \in Distance, d <= Best(s).dist
    PROVE  LET t == [AdoptBest(s) EXCEPT !.fdistance = d]
           IN  /\ Listed(t) /\ StandsForBest(t) /\ Best(t) = Best(s)
               /\ t.entries = s.entries /\ t.state = s.state
               /\ t.distance = Best(s).dist /\ t.fdistance = d
<1> DEFINE a == AdoptBest(s)
           t == [a EXCEPT !.fdistance = d]
<1>1. Sound(a)
  BY AdoptBestSound DEF Listed
<1>2. /\ a.entries = s.entries /\ a.route = s.route /\ a.state = s.state
      /\ a.distance = Best(s).dist /\ a.rdistance = Best(s).dist
      /\ a.reported_metric = Best(s).total
  BY DEF AdoptBest, Listed, Sound, Instance
<1> HIDE DEF a
<1>3. Sound(t)
  BY <1>1 DEF Sound, Instance
<1>4. /\ t.entries = s.entries /\ t.route = s.route /\ t.state = s.state
      /\ t.distance = Best(s).dist /\ t.rdistance = Best(s).dist
      /\ t.reported_metric = Best(s).total /\ t.fdistance = d
  BY <1>1, <1>2 DEF Sound, Instance
<1> HIDE DEF t
<1>5. Listed(t) /\ Best(t) = Best(s)
  BY <1>3, <1>4 DEF Listed, Best
<1>6. StandsForBest(t)
  BY <1>4, <1>5 DEF StandsForBest
<1> QED BY <1>4, <1>5, <1>6 DEF t, a

\* A reply in the queue is not in the books.
LEMMA ReplySendBooks ==
    ASSUME NEW s, Sound(s), NEW n \in Nbr
    PROVE  Books(s, ReplySend(s, n)) /\ Sound(ReplySend(s, n))
BY ReplySendSound DEF ReplySend, Sound, Instance, Books

\* eigrp_fsm_event_lr.
LEMMA LrGood ==
    ASSUME NEW s, Listed(s), s.entries # <<>> PROVE Good(Lr(s))
<1> DEFINE a == [AdoptBest(s) EXCEPT !.fdistance = Best(s).dist]
           r == FirstSuccessors(a, 1)
           n == CHOOSE k \in r : TRUE
<1>0. Best(s).dist \in Distance /\ Best(s).dist <= Best(s).dist
  BY BestType, MetricAssumption DEF Listed, Sound, Route, Distance
<1>1. /\ Listed(a) /\ StandsForBest(a) /\ a.entries # <<>> /\ a.state = s.state
  BY <1>0, AdoptBestListed
<1>2. Lr(s) = CASE a.state # "active3" -> GoPassive(a)
                [] a.state = "active3" /\ r = {} ->
                       [s EXCEPT !.fault = "assert_successors"]
                [] OTHER -> GoPassive(ReplySend(a, n))
  BY DEF Lr
<1> HIDE DEF a
<1>3. Good(GoPassive(a))
  BY <1>1, GoPassiveGood
<1>4. a.state = "active3" => Good([s EXCEPT !.fault = "assert_successors"])
  <2> DEFINE t == [s EXCEPT !.fault = "assert_successors"]
  <2>1. Sound(t)
    BY FaultSound DEF Listed, Fault
  <2>2. Books(s, t)
    BY DEF Listed, Sound, Instance, Books
  <2> HIDE DEF t
  <2>3. Listed(t)
    BY <2>1, <2>2, BooksGood
  <2> QED BY <1>1, <2>2, <2>3, NotPassive DEF Books, t
<1>5. ASSUME r # {} PROVE Good(GoPassive(ReplySend(a, n)))
  <2>1. n \in Nbr
    BY <1>1, <1>5, FirstSuccessorsType DEF Listed, Sound
  <2> DEFINE b == ReplySend(a, n)
  <2> HIDE DEF n
  <2>2. Books(a, b) /\ Sound(b)
    BY <1>1, <2>1, ReplySendBooks DEF Listed
  <2> HIDE DEF b
  <2>3. Listed(b)
    BY <1>1, <2>2, BooksGood
  <2>4. b.entries # <<>> /\ StandsForBest(b)
    BY <1>1, <2>2 DEF Books, StandsForBest, Best
  <2> QED BY <2>3, <2>4, GoPassiveGood DEF b
<1> HIDE DEF r, n
<1>6. CASE a.state # "active3"
  BY <1>2, <1>3, <1>6
<1>7. CASE a.state = "active3" /\ r = {}
  BY <1>2, <1>4, <1>7
<1>8. CASE a.state = "active3" /\ r # {}
  BY <1>2, <1>5, <1>8
<1> QED BY <1>6, <1>7, <1>8

\* eigrp_fsm_event_lr_fcs.
LEMMA LrFcsGood ==
    ASSUME NEW s, Listed(s), s.entries # <<>> PROVE Good(LrFcs(s))
<1> DEFINE a == AdoptBest(s)
           d == IF a.fdistance > a.distance THEN a.distance ELSE a.fdistance
           t == [a EXCEPT !.fdistance = d]
<1>1. LrFcs(s) = GoPassive(t)
  BY DEF LrFcs
<1>2. d \in Distance /\ d <= Best(s).dist
  <2>1. a.distance = Best(s).dist /\ a.fdistance = s.fdistance
    BY DEF AdoptBest, Listed, Sound, Instance
  <2>2. Best(s).dist \in 0 .. MaxMetric /\ s.fdistance \in 0 .. MaxMetric
    BY BestType DEF Listed, Sound, Instance, Route, Distance
  <2> HIDE DEF a
  <2> QED BY <2>1, <2>2, MetricAssumption DEF Distance
<1>3. Listed(t) /\ StandsForBest(t) /\ t.entries # <<>>
  <2> HIDE DEF d
  <2> QED BY <1>2, AdoptBestListed
<1> HIDE DEF t
<1> QED BY <1>1, <1>3, GoPassiveGood

\* nq_fcn, q_fcn and lr_fcn.
LEMMA StartQueryGood ==
    ASSUME NEW s, Listed(s), s.entries # <<>>, NEW active \in Active
    PROVE  Good(StartQuery(s, active))
<1> DEFINE a == [s EXCEPT !.state = active]
           c == AddChange(a, "query")
<1>1. /\ Sound(a) /\ a.entries = s.entries /\ a.route = s.route
      /\ a.state = active
  BY DEF Listed, Sound, Instance, State, Active
<1> HIDE DEF a
<1>2. Listed(a)
  BY <1>1 DEF Listed
<1>3. Good(Lr(a))
  BY <1>1, <1>2, LrGood
<1>4. Sound(c) /\ Books(a, c)
  BY <1>1, AddChangeSound DEF AddChange, Sound, Instance, Books
<1> HIDE DEF c
<1>5. Listed(c) /\ c.state # "passive"
  BY <1>1, <1>2, <1>4, BooksGood DEF Books, Active
<1> QED BY <1>3, <1>5, NotPassive DEF StartQuery, a, c

\* eigrp_fsm_event_lr_fcn.
LEMMA LrFcnGood ==
    ASSUME NEW s, Listed(s), s.entries # <<>> PROVE Good(LrFcn(s))
BY StartQueryGood DEF LrFcn, Active

\* eigrp_fsm_event_keep_state: a passive destination stands for its best route
\* also when the metric to report did not change.
LEMMA KeepStateGood ==
    ASSUME NEW s, Listed(s), Anchored(s), s.entries # <<>>,
           NEW n \in Nbr, NEW op
    PROVE  Good(KeepState(s, n, op))
<1> DEFINE changed == s.reported_metric # Best(s).total
           v == [AdoptBest(s) EXCEPT !.fdistance = Best(s).dist]
           w == AddChange(v, "update")
           a == IF changed THEN w ELSE s
           b == IF changed /\ op = "query" THEN ReplySend(a, n) ELSE a
           f == UpdateNodeFlags(b)
           g == UpdateRoutingTable(f)
           c == IF s.state = "passive" THEN g ELSE s
<1>1. KeepState(s, n, op) = IF op = "query" THEN ReplySend(c, n) ELSE c
  BY DEF KeepState
<1>2. CASE s.state # "passive"
  <2>1. c = s
    BY <1>2
  <2>2. Good(s) /\ Sound(s)
    BY <1>2, NotPassive DEF Listed
  <2> HIDE DEF c
  <2> QED BY <1>1, <2>1, <2>2, ReplySendBooks, BooksGood
<1>3. CASE s.state = "passive"
  <2>0. Best(s).dist \in Distance /\ Best(s).dist <= Best(s).dist
    BY BestType, MetricAssumption DEF Listed, Sound, Route, Distance
  <2>1. /\ Listed(v) /\ StandsForBest(v) /\ v.entries = s.entries
        /\ v.state = "passive"
    BY <1>3, <2>0, AdoptBestListed
  <2> HIDE DEF v
  <2>2. Sound(w) /\ Books(v, w)
    BY <2>1, AddChangeSound DEF AddChange, Listed, Sound, Instance, Books
  <2> HIDE DEF w
  <2>3. /\ Listed(w) /\ StandsForBest(w) /\ w.entries # <<>>
        /\ w.state = "passive"
    BY <2>1, <2>2, BooksGood DEF Books, StandsForBest, Best
  <2>4. ~changed => StandsForBest(s)
    <3>1. Best(s).dist = Composite(Best(s).total)
      <4>1. s.entries \in Seq(Nbr) /\ Head(s.entries) = s.entries[1]
            /\ 1 \in 1 .. Len(s.entries)
        BY DEF Listed, Sound, Instance
      <4>2. Head(s.entries) \in ToSet(s.entries)
        BY <4>1, Members
      <4> QED BY <4>2 DEF Listed, Best
    <3> QED BY <1>3, <3>1 DEF Anchored, StandsForBest
  <2>5. /\ Listed(a) /\ StandsForBest(a) /\ a.entries # <<>>
        /\ a.state = "passive"
    BY <1>3, <2>3, <2>4
  <2> HIDE DEF a
  <2>6. /\ Listed(b) /\ StandsForBest(b) /\ b.entries # <<>>
        /\ b.state = "passive"
    <3>1. Sound(a)
      BY <2>5 DEF Listed
    <3>2. Sound(b) /\ Books(a, b)
      BY <3>1, ReplySendBooks DEF Books
    <3> HIDE DEF b
    <3> QED BY <2>5, <3>2, BooksGood DEF Books, StandsForBest, Best
  <2> HIDE DEF b
  <2>7. Sound(f) /\ Sound(g)
    BY <2>6, UpdateNodeFlagsSound, UpdateRoutingTableSound DEF Listed
  <2>8. /\ f.state = b.state /\ f.entries = b.entries /\ f.route = b.route
        /\ f.fdistance = b.fdistance /\ f.rdistance = b.rdistance
        /\ f.distance = b.distance /\ f.reported_metric = b.reported_metric
        /\ f.succ = FeasibleRoutes(b)
    BY <2>6 DEF UpdateNodeFlags, FeasibleRoutes, Listed, Sound, Instance
  <2>9. Books(f, g)
    <3> HIDE DEF f
    <3> QED BY <2>7 DEF UpdateRoutingTable, Sound, Instance, Books
  <2> HIDE DEF f, g
  <2>10. Good(f)
    BY <2>6, <2>7, <2>8 DEF Good, Listed, Settled, StandsForBest, FeasibleRoutes, Best
  <2>11. Good(g)
    BY <2>7, <2>9, <2>10, BooksGood
  <2>12. c = g
    BY <1>3
  <2> HIDE DEF c
  <2> QED BY <1>1, <2>7, <2>11, <2>12, ReplySendBooks, BooksGood
<1> QED BY <1>2, <1>3

\* Counting a reply is not in the books.
LEMMA TakeReplyBooks ==
    ASSUME NEW s, Sound(s), NEW n \in Nbr, NEW op
    PROVE  Books(s, TakeReply(s, n, op)) /\ Sound(TakeReply(s, n, op))
BY TakeReplySound DEF TakeReply, Sound, Instance, Books

\* eigrp_fsm_event_dinc, which looks at the message again.
LEMMA DincGood ==
    ASSUME NEW s, Listed(s), s.state \in Active, s.entries # <<>>,
           NEW n \in Nbr, NEW op
    PROVE  Good(Dinc(s, n, op))
<1> DEFINE a == [s EXCEPT !.state = IF s.state = "active1" THEN "active0"
                                                           ELSE "active2"]
<1>1. /\ Sound(a) /\ a.entries = s.entries /\ a.route = s.route
      /\ a.state # "passive"
  BY DEF Listed, Sound, Instance, State, Active
<1>2. Dinc(s, n, op) =
        IF \E k \in Nbr : a.rij[k] > 0 THEN a
        ELSE CASE FsmEvent(a, n, op, "same") = "lr_fcs" -> LrFcs(a)
               [] FsmEvent(a, n, op, "same") = "lr_fcn" -> LrFcn(a)
               [] OTHER -> KeepState(a, n, op)
  BY DEF Dinc
<1> HIDE DEF a
<1>3. Listed(a)
  BY <1>1 DEF Listed
<1>4. Good(a) /\ Good(LrFcs(a)) /\ Good(LrFcn(a)) /\ Good(KeepState(a, n, op))
  BY <1>1, <1>3, NotPassive, LrFcsGood, LrFcnGood, KeepStateGood
<1> QED BY <1>2, <1>4

\* Only a destination that is active takes the arrow dinc or qact.
LEMMA EventWhenPassive ==
    ASSUME NEW s, s.state \notin Active, NEW n, NEW op, NEW change
    PROVE  FsmEvent(s, n, op, change) \notin {"dinc", "qact"}
BY DEF FsmEvent

\* Whatever the message and the state, eigrp_fsm_event ends with a sorted list
\* and, in PASSIVE, stands for its head.
LEMMA FsmGood ==
    ASSUME NEW s, Good(s), s.state # "none",
           NEW n \in Nbr, NEW op, NEW m \in Metric
    PROVE  Good(Fsm(s, n, op, m))
<1> DEFINE u  == UpdateDistance(s, n, m)
           a  == TakeReply(u, n, op)
           ev == FsmEvent(a, n, op, MetricChange(s, n, m))
<1>1. Listed(u) /\ Anchored(u) /\ u.state = s.state /\ Sound(u)
  BY GoodAnchored, UpdateDistanceListed DEF Listed
<1> HIDE DEF u
<1>2. Listed(a) /\ Anchored(a) /\ a.state = s.state /\ a.entries # <<>>
  <2>1. Books(u, a) /\ Sound(a)
    BY <1>1, TakeReplyBooks
  <2> HIDE DEF a
  <2> QED BY <1>1, <2>1, BooksGood DEF Books, Sound
<1>3. Fsm(s, n, op, m) =
        CASE ev = "nq_fcn" -> StartQuery(a, "active1")
          [] ev = "q_fcn"  -> StartQuery(a, "active3")
          [] ev = "lr"     -> Lr(a)
          [] ev = "dinc"   -> Dinc(a, n, op)
          [] ev = "qact"   -> Qact(a)
          [] ev = "lr_fcs" -> LrFcs(a)
          [] ev = "lr_fcn" -> LrFcn(a)
          [] OTHER         -> KeepState(a, n, op)
  BY DEF Fsm, u
<1>4. ev \in {"dinc", "qact"} => a.state \in Active
  BY EventWhenPassive
<1> HIDE DEF a, ev
<1>5. a.state \in Active => Good(Dinc(a, n, op))
  BY <1>2, DincGood
<1>6. a.state \in Active => Good(Qact(a))
  <2> DEFINE t == Qact(a)
  <2>1. /\ Sound(t) /\ t.entries = a.entries /\ t.route = a.route
        /\ t.state # "passive"
    BY <1>2 DEF Qact, Listed, Sound, Instance, State, Active
  <2> HIDE DEF t
  <2>2. Listed(t)
    BY <1>2, <2>1 DEF Listed
  <2> QED BY <2>1, <2>2, NotPassive DEF t
<1>7. /\ Good(StartQuery(a, "active1")) /\ Good(StartQuery(a, "active3"))
      /\ Good(Lr(a)) /\ Good(LrFcs(a)) /\ Good(LrFcn(a))
      /\ Good(KeepState(a, n, op))
  BY <1>2, StartQueryGood, LrGood, LrFcsGood, LrFcnGood, KeepStateGood DEF Active
<1> QED BY <1>3, <1>4, <1>5, <1>6, <1>7

\* query_send_all changes requests and the queue only.
LEMMA QuerySendAllBooks ==
    ASSUME NEW s, Sound(s)
    PROVE  QuerySendAll(s) \in Instance /\ Books(s, QuerySendAll(s))
<1> DEFINE d == Done(s, "query")
           w == [op |-> "query", to |-> NoNbr, prefix |-> "live"]
           q == [d EXCEPT !.work = Append(d.work, w)]
           f == [s EXCEPT !.fault = "freed_prefix"]
<1>1. Sound(f) /\ Books(s, f)
  <2>1. Sound(f)
    BY FaultSound DEF Fault
  <2>2. Books(s, f)
    BY DEF Sound, Instance, Books
  <2> QED BY <2>1, <2>2
<1>2. ASSUME "query" \in s.req_action PROVE Sound(q) /\ Books(s, q)
  <2>1. Sound(d) /\ w \in Work
    BY <1>2, DoneSound DEF Work
  <2>2. Books(s, d)
    BY DEF Done, Sound, Instance, Books
  <2> HIDE DEF d, w
  <2>3. Sound(q)
    BY <2>1, AppendWorkSound
  <2>4. Books(d, q)
    BY <2>1 DEF Sound, Instance, Books
  <2> QED BY <2>2, <2>3, <2>4 DEF Books
<1>3. [d EXCEPT !.work = Append(@, w)] = q
  BY DEF Done, Sound, Instance
<1>4. QuerySendAll(s) \in {s, f} \/ ("query" \in s.req_action /\ QuerySendAll(s) = q)
  <2> HIDE DEF q, f
  <2> QED BY <1>3 DEF QuerySendAll, q, f
<1>5. Books(s, s)
  BY DEF Books
<1> HIDE DEF q, f
<1> QED BY <1>1, <1>2, <1>4, <1>5 DEF Sound

\* The two calls that end a handler leave the books alone.
LEMMA SendAllGood ==
    ASSUME NEW s, Good(s) PROVE Good(SendAll(s))
<1> DEFINE q == QuerySendAll(s)
           t == SendAll(s)
<1>0. Sound(s)
  BY DEF Good, Listed
<1>1. Sound(t)
  BY <1>0, SendAllSound
<1>2. q \in Instance /\ Books(s, q)
  BY <1>0, QuerySendAllBooks
<1> HIDE DEF q
<1>3. t = [q EXCEPT !.work =
              Append(@, [op |-> "update", to |-> NoNbr, prefix |-> "no"])]
  BY DEF SendAll, UpdateSendAll, q
<1> HIDE DEF t
<1>4. Books(s, t)
  BY <1>2, <1>3 DEF Books, Instance
<1> QED BY <1>1, <1>4, BooksGood DEF t

\* So does an item of the work queue.
LEMMA WorkProcessGood ==
    ASSUME NEW s, Good(s), NEW w PROVE Good(WorkProcess(s, w))
<1> DEFINE t == WorkProcess(s, w)
<1>0. Sound(s)
  BY DEF Good, Listed
<1>1. Sound(t)
  BY <1>0, WorkProcessSound
<1>2. Books(s, PacketizeAll(s))
  BY <1>0 DEF PacketizeAll, Done, Sound, Instance, Books
<1>3. Books(s, QuerySend(s, w))
  BY <1>0 DEF QuerySend, Sound, Instance, Books
<1>4. Books(s, NeighborRouteSend(s, w))
  BY <1>0 DEF NeighborRouteSend, Sound, Instance, Books
<1>5. Books(s, t)
  BY <1>2, <1>3, <1>4 DEF WorkProcess
<1> HIDE DEF t
<1> QED BY <1>1, <1>5, BooksGood DEF t

\* The first UPDATE of a destination makes a list of one route.
LEMMA NewPrefixGood ==
    ASSUME NEW s, Sound(s), NEW n \in Nbr, NEW m \in Metric
    PROVE  Good(NewPrefix(s, n, m))
<1> DEFINE seen == IF n \in FilteredIn THEN [m EXCEPT !.delay = MaxMetric] ELSE m
           h    == HeardRoute(n, seen)
           r    == [h EXCEPT !.rd = Composite(m)]
           rt   == [s.route EXCEPT ![n] = r]
           a    == [s EXCEPT !.state = "passive", !.entries = <<n>>,
                             !.route = rt, !.fdistance = r.dist,
                             !.rdistance = r.dist, !.distance = r.dist,
                             !.reported_metric = r.total, !.rib = {n}]
           f    == UpdateNodeFlags(a)
           t    == AddChange(f, "update")
<1>1. NewPrefix(s, n, m) = t
  BY DEF NewPrefix, Sound, Instance
<1>2. Sound(t)
  BY <1>1, NewPrefixSound
<1>3. r.dist = Composite(r.total) /\ r.dist \in Distance
  <2>1. seen \in Metric
    BY MetricAssumption DEF Metric
  <2> HIDE DEF seen
  <2>2. h \in Route /\ h.dist = Composite(h.total)
    BY <2>1, HeardRouteType DEF HeardRoute
  <2> HIDE DEF h
  <2> QED BY <2>2 DEF Route
<1> HIDE DEF r
<1>4. rt[n] = r
  BY DEF Sound, Instance
<1> HIDE DEF rt
<1> DEFINE e == <<n>>
<1>5. /\ ToSet(e) = {n} /\ Head(e) = n /\ DOMAIN e = {1}
  BY DEF ToSet
<1> HIDE DEF e
<1>6. /\ a.state = "passive" /\ a.entries = e /\ a.route = rt
      /\ a.fdistance = r.dist /\ a.rdistance = r.dist /\ a.distance = r.dist
      /\ a.reported_metric = r.total /\ DOMAIN a = DOMAIN s
  BY DEF Sound, Instance, e
<1>7. /\ f.state = a.state /\ f.entries = a.entries /\ f.route = a.route
      /\ f.fdistance = a.fdistance /\ f.rdistance = a.rdistance
      /\ f.distance = a.distance /\ f.reported_metric = a.reported_metric
      /\ f.succ = FeasibleRoutes(a)
  BY DEF UpdateNodeFlags, FeasibleRoutes, Sound, Instance
<1>8. Books(f, t)
  BY DEF AddChange, UpdateNodeFlags, Sound, Instance, Books
<1> HIDE DEF a, f, t
<1>9. /\ t.state = "passive" /\ t.entries = e /\ t.route = rt
      /\ t.fdistance = r.dist /\ t.rdistance = r.dist /\ t.distance = r.dist
      /\ t.reported_metric = r.total /\ t.succ = FeasibleRoutes(t)
  BY <1>6, <1>7, <1>8 DEF Books, FeasibleRoutes
<1>10. Listed(t)
  BY <1>2, <1>3, <1>4, <1>5, <1>9 DEF Listed, SortedList
<1>11. StandsForBest(t)
  <2>1. r.dist <= r.dist
    BY <1>3, MetricAssumption DEF Distance
  <2> QED BY <1>4, <1>5, <1>9, <2>1 DEF StandsForBest, Best
<1> QED BY <1>1, <1>9, <1>10, <1>11 DEF Good, Settled

\* eigrp_topology_neighbor_down, whose walk may meet the route twice.
LEMMA NeighborDownGood ==
    ASSUME NEW s, Good(s), NEW n \in Nbr, NEW bw \in StackBw
    PROVE  Good(NeighborDown(s, n, bw))
<1> DEFINE m    == [bw |-> bw, delay |-> MaxMetric]
           once == Fsm(s, n, "update", m)
           pos(t) == CHOOSE i \in DOMAIN t.entries : t.entries[i] = n
           next == {k \in ToSet(s.entries) :
                      pos(s) < Len(s.entries) /\ k = s.entries[pos(s) + 1]}
           back == /\ n \in ToSet(once.entries)
                   /\ \E k \in next : \E i \in DOMAIN once.entries :
                          once.entries[i] = k /\ i < pos(once)
           lost == ~(next \subseteq ToSet(once.entries))
           freed == [once EXCEPT !.fault = "freed_entry"]
           walked == CASE once.fault # "none" -> once
                       [] once.fault = "none" /\ lost -> freed
                       [] once.fault = "none" /\ ~lost /\ back ->
                              Fsm(once, n, "update", m)
                       [] OTHER -> once
<1>1. NeighborDown(s, n, bw) = SendAll(IF n \in ToSet(s.entries) THEN walked ELSE s)
  BY DEF NeighborDown
<1>2. m \in Metric
  BY MetricAssumption DEF Metric
<1> HIDE DEF m
<1>3. ASSUME n \in ToSet(s.entries) PROVE Good(walked)
  <2>1. s.state # "none"
    BY <1>3 DEF ToSet, Good, Listed, Sound
  <2>2. Good(once)
    BY <1>2, <2>1, FsmGood
  <2>3. back => once.entries # <<>>
    BY DEF ToSet
  <2> HIDE DEF once
  <2>4. back => Good(Fsm(once, n, "update", m))
    <3>1. back => once.state # "none"
      BY <2>2, <2>3 DEF Good, Listed, Sound
    <3> QED BY <1>2, <2>2, <3>1, FsmGood
  <2>5. Good(freed)
    <3>1. Sound(once)
      BY <2>2 DEF Good, Listed
    <3>2. Sound(freed)
      BY <3>1, FaultSound DEF Fault
    <3>3. Books(once, freed)
      BY <3>1 DEF Sound, Instance, Books
    <3> HIDE DEF freed
    <3> QED BY <2>2, <3>2, <3>3, BooksGood
  <2> HIDE DEF back, lost, freed
  <2> QED BY <2>2, <2>4, <2>5
<1> HIDE DEF walked
<1> QED BY <1>1, <1>3, SendAllGood

-----------------------------------------------------------------------------
\* The inductive invariant of the specification.
BestInv == Good(Now)

\* A handler that ends in a good instance establishes the invariant.
LEMMA BecomesGood ==
    ASSUME NEW s, Good(s), Becomes(s) PROVE BestInv'
<1>1. IInv'
  BY BecomesSound DEF Good, Listed
<1>2. Books(s, Now')
  BY DEF Becomes, Now, Books
<1>3. Sound(Now')
  BY <1>1 DEF IInv
<1> DEFINE t == Now'
<1> HIDE DEF t
<1>4. Books(s, t) /\ Sound(t)
  BY <1>2, <1>3 DEF t
<1>5. Good(t)
  BY <1>4, BooksGood
<1> QED BY <1>5 DEF BestInv, t

\* A step that leaves the books alone keeps the invariant.
LEMMA StepKeepsBooks ==
    ASSUME BestInv, IInv',
           UNCHANGED <<state, entries, route, succ, fdistance, rdistance,
                       distance, reported_metric>>
    PROVE  BestInv'
<1>1. Books(Now, Now')
  BY DEF Now, Books
<1>2. Sound(Now') /\ Good(Now)
  BY DEF IInv, BestInv
<1> QED BY <1>1, <1>2, BooksGood DEF BestInv

\* A daemon that was just started has no descriptor.
LEMMA InitGood == Init => BestInv
<1> SUFFICES ASSUME Init PROVE BestInv
  OBVIOUS
<1>1. Sound(Now)
  BY InitSound DEF IInv
<1>2. Now.state = "none" /\ Now.entries = <<>>
  BY DEF Init, Now
<1>3. DOMAIN Now.entries = {} /\ ToSet(Now.entries) = {}
  BY <1>2 DEF ToSet
<1>4. Listed(Now)
  BY <1>1, <1>3 DEF Listed, SortedList
<1> QED BY <1>2, <1>4, NotPassive DEF BestInv

\* Every event keeps the invariant.
LEMMA NextGood == BestInv /\ [Next]_vars => BestInv'
<1> SUFFICES ASSUME BestInv, [Next]_vars PROVE BestInv'
  OBVIOUS
<1>0. Good(Now) /\ Sound(Now) /\ Heard \subseteq Metric /\ IInv /\ IInv'
  BY MetricAssumption, NextSound DEF BestInv, Good, Listed, IInv
<1>2. ASSUME NEW n \in Nbr, NEW to \in NbrState
      PROVE  Good([Now EXCEPT !.nbr[n] = to])
  <2> DEFINE t == [Now EXCEPT !.nbr[n] = to]
  <2>1. t = [Now EXCEPT !.nbr = [nbr EXCEPT ![n] = to]]
    BY DEF Now
  <2>2. [nbr EXCEPT ![n] = to] \in [Nbr -> NbrState]
    BY <1>0 DEF Sound, Instance, Now
  <2>3. Sound(t) /\ Books(Now, t)
    BY <1>0, <2>1, <2>2 DEF Sound, Instance, Books
  <2> HIDE DEF t
  <2> QED BY <1>0, <2>3, BooksGood DEF t
<1>3. ASSUME NEW s, Good(s), NEW n \in Nbr, NEW to \in NbrState
      PROVE  Good([s EXCEPT !.nbr[n] = to, !.queried = @ \ {n}])
  <2> DEFINE t == [s EXCEPT !.nbr[n] = to, !.queried = @ \ {n}]
  <2>0. Sound(s)
    BY <1>3 DEF Good, Listed
  <2>1. /\ [s.nbr EXCEPT ![n] = to] \in [Nbr -> NbrState]
        /\ s.queried \ {n} \in SUBSET Nbr
    BY <2>0 DEF Sound, Instance
  <2>2. t = [s EXCEPT !.nbr = [s.nbr EXCEPT ![n] = to], !.queried = s.queried \ {n}]
    BY <2>0 DEF Sound, Instance
  <2>3. Sound(t) /\ Books(s, t)
    BY <2>0, <2>1, <2>2 DEF Sound, Instance, Books
  <2> HIDE DEF t
  <2> QED BY <1>3, <2>3, BooksGood DEF t
<1>4. ASSUME NEW n \in Nbr, NEW bw \in StackBw, NeighborLost(n, bw) PROVE BestInv'
  <2> DEFINE s == NeighborDown([Now EXCEPT !.nbr[n] = "down"], n, bw)
  <2>1. Good(s)
    BY <1>2, NeighborDownGood DEF NbrState
  <2>2. Becomes([s EXCEPT !.nbr[n] = "gone", !.queried = @ \ {n}])
    BY <1>4 DEF NeighborLost
  <2> HIDE DEF s
  <2>3. Good([s EXCEPT !.nbr[n] = "gone", !.queried = @ \ {n}])
    BY <1>3, <2>1 DEF NbrState
  <2> QED BY <2>2, <2>3, BecomesGood
<1>5. ASSUME NEW n \in Nbr, NEW bw \in StackBw, PeerRestarted(n, bw) PROVE BestInv'
  <2> DEFINE s == NeighborDown([Now EXCEPT !.nbr[n] = "down"], n, bw)
  <2>1. Good(s)
    BY <1>2, NeighborDownGood DEF NbrState
  <2>2. Becomes(SendAll([s EXCEPT !.nbr[n] = "down", !.queried = @ \ {n}]))
    BY <1>5 DEF PeerRestarted
  <2> HIDE DEF s
  <2>3. Good([s EXCEPT !.nbr[n] = "down", !.queried = @ \ {n}])
    BY <1>3, <2>1 DEF NbrState
  <2> QED BY <2>2, <2>3, SendAllGood, BecomesGood
<1>6. ASSUME NEW n \in Nbr, NEW op, NEW m \in Metric, state # "none"
      PROVE  Good(Fsm(Now, n, op, m)) /\ Good(SendAll(Fsm(Now, n, op, m)))
  <2>1. Now.state # "none"
    BY <1>6 DEF Now
  <2> QED BY <1>0, <2>1, FsmGood, SendAllGood
<1>7. ASSUME NEW n \in Nbr, NEW m \in Heard, ReceiveUpdate(n, m) PROVE BestInv'
  <2>1. CASE state = "none"
    BY <1>0, <1>7, <2>1, NewPrefixGood, SendAllGood, BecomesGood DEF ReceiveUpdate
  <2>2. CASE state # "none"
    BY <1>0, <1>6, <1>7, <2>2, BecomesGood DEF ReceiveUpdate
  <2> QED BY <2>1, <2>2
<1>8. ASSUME NEW n \in Nbr, NEW m \in Heard, ReceiveQuery(n, m) PROVE BestInv'
  <2>1. CASE state = "none"
    <3> DEFINE w == [op |-> "reply", to |-> n, prefix |-> "own"]
               t == [Now EXCEPT !.work = Append(@, w)]
    <3>1. t = [Now EXCEPT !.work = Append(Now.work, w)] /\ w \in Work
      BY DEF Now, Work
    <3>2. Sound(t)
      BY <1>0, <3>1, AppendWorkSound
    <3>3. Books(Now, t)
      BY <3>1 DEF Now, Books
    <3>4. Becomes(SendAll(t))
      BY <1>8, <2>1 DEF ReceiveQuery
    <3> HIDE DEF t
    <3> QED BY <1>0, <3>2, <3>3, <3>4, BooksGood, SendAllGood, BecomesGood
  <2>2. CASE state # "none"
    BY <1>0, <1>6, <1>8, <2>2, BecomesGood DEF ReceiveQuery
  <2> QED BY <2>1, <2>2
<1>9. ASSUME NEW n \in Nbr, NEW m \in Heard, ReceiveReply(n, m) PROVE BestInv'
  BY <1>0, <1>6, <1>9, BecomesGood DEF ReceiveReply
<1>10. CASE UNCHANGED <<state, entries, route, succ, fdistance, rdistance,
                        distance, reported_metric>>
  BY <1>0, <1>10, StepKeepsBooks
<1>11. CASE Packetize
  <2> DEFINE s == [Now EXCEPT !.work = Tail(@)]
  <2>1. Tail(work) \in Seq(Work) /\ s = [Now EXCEPT !.work = Tail(work)]
    BY <1>0, <1>11 DEF Packetize, Sound, Instance, Now
  <2>2. Sound(s) /\ Books(Now, s)
    BY <1>0, <2>1 DEF Sound, Instance, Books
  <2>3. Becomes(WorkProcess(s, Head(work)))
    BY <1>11 DEF Packetize
  <2> HIDE DEF s
  <2> QED BY <1>0, <2>2, <2>3, BooksGood, WorkProcessGood, BecomesGood
<1> QED BY <1>4, <1>5, <1>7, <1>8, <1>9, <1>10, <1>11
        DEF Next, NeighborUp, KValueMismatch, vars

\* Good holds at every moment.
LEMMA AlwaysGood == Spec => []BestInv
<1>1. Init => BestInv
  BY InitGood
<1>2. BestInv /\ [Next]_vars => BestInv'
  BY NextGood
<1> QED BY <1>1, <1>2, PTL DEF Spec

\* listnode_head(prefix->entries) is the best route whenever a descriptor
\* exists, for any number of neighbours and any order of messages, although
\* every metric moves its route and unreachable routes are cut off.
THEOREM HeadIsBest == Spec => []BestRouteFirst
<1>1. BestInv => BestRouteFirst
  BY DEF BestInv, Good, Listed, Sound, SortedList, Now, BestRouteFirst
<1> QED BY <1>1, AlwaysGood, PTL

\* In PASSIVE the distance, the reported metric and the feasible distance are
\* those of the best route, whichever of lr, lr_fcs and keep_state came last:
\* keep_state leaves them alone only when the best metric is the old one.
THEOREM PassiveIsBest == Spec => []PassiveStandsForBest
<1>1. BestInv => PassiveStandsForBest
  BY DEF BestInv, Good, Settled, StandsForBest, Best, Now, PassiveStandsForBest
<1> QED BY <1>1, AlwaysGood, PTL

\* In PASSIVE the SUCCESSOR flag is on exactly the feasible routes: the flags
\* frozen during a computation do not outlive it.
THEOREM SuccessorsAreFeasible == Spec => []SuccessorsFeasible
<1>1. BestInv => SuccessorsFeasible
  BY DEF BestInv, Good, Settled, FeasibleRoutes, Now, SuccessorsFeasible
<1> QED BY <1>1, AlwaysGood, PTL

-----------------------------------------------------------------------------
(* The routing table.                                                      *)

\* The metric of the first message about the destination, after the filter.
Seen(n, m) == IF n \in FilteredIn THEN [m EXCEPT !.delay = MaxMetric] ELSE m

\* No sum of a metric and a link, of those that messages, the filter and the
\* loss of a neighbour make, is the one number that is taken for unreachable,
\* and a link makes the first metric of a destination larger, so that its
\* route is feasible (a sum that wraps may be smaller).
Ordinary ==
    \A n \in Nbr :
        /\ \A m \in Heard :
               /\ Composite(TotalMetric(n, m)) # MaxMetric
               /\ Composite(TotalMetric(n, Seen(n, m))) # MaxMetric
               /\ Composite(m) < Composite(TotalMetric(n, Seen(n, m)))
        /\ \A bw \in StackBw :
               Composite(TotalMetric(n, [bw |-> bw, delay |-> MaxMetric])) # MaxMetric

\* Among ordinary metrics no route is unreachable.
Alive(s) == Ordinary => \A n \in ToSet(s.entries) : s.route[n].dist # MaxMetric

\* What zebra has in PASSIVE: the first successors; nothing, after a purge; or
\* the only route of a destination that was just created.
HopsFollow(s) ==
    s.state = "passive" /\ s.fault = "none" =>
        \/ s.rib = FirstSuccessors(s, MaxPaths)
        \/ ~Ordinary /\ s.rib = {}
        \/ ~Ordinary /\ \E n \in Nbr : s.entries = <<n>> /\ s.rib = {n}

\* The inductive invariant about the routing table, of an instance.
Aligned(s) == Alive(s) /\ HopsFollow(s)

\* Neither the routes nor what zebra has of them is touched.
SameHops(s, t) ==
    /\ t.state = s.state /\ t.entries = s.entries /\ t.route = s.route
    /\ t.succ = s.succ /\ t.rib = s.rib
    /\ t.fault = "none" => s.fault = "none"

\* Such a step keeps the invariant.
LEMMA SameHopsAligned ==
    ASSUME NEW s, NEW t, SameHops(s, t)
    PROVE  (Alive(s) => Alive(t)) /\ (Aligned(s) => Aligned(t))
BY DEF SameHops, Alive, HopsFollow, Aligned, FirstSuccessors

\* Outside PASSIVE only the routes count.
LEMMA NotPassiveAligned ==
    ASSUME NEW s, Alive(s), s.state # "passive" PROVE Aligned(s)
BY DEF Aligned, HopsFollow

\* A descriptor that is gone has no routes.
LEMMA PrefixDeleteAligned ==
    ASSUME NEW s, Sound(s) PROVE Aligned(PrefixDelete(s))
<1> DEFINE t == PrefixDelete(s)
<1>1. t.state = "none" /\ t.entries = <<>>
  BY DEF PrefixDelete, Sound, Instance
<1> HIDE DEF t
<1>2. ToSet(t.entries) = {}
  BY <1>1 DEF ToSet
<1> QED BY <1>1, <1>2 DEF Aligned, Alive, HopsFollow, t

\* The purge leaves the routing table alone, or withdraws the destination
\* because a route is unreachable.
LEMMA RoutesDeleteAligned ==
    ASSUME NEW s, Sound(s), Alive(s), s.rib = FirstSuccessors(s, MaxPaths)
    PROVE  Aligned(RoutesDelete(s))
<1> DEFINE dead == {n \in ToSet(s.entries) : s.route[n].dist = MaxMetric}
           S    == {i \in DOMAIN s.entries : s.entries[i] \notin dead}
           live == Cardinality(S)
           t    == RoutesDelete(s)
<1>1. /\ s.entries \in Seq(Nbr) /\ Len(s.entries) \in Nat
      /\ DOMAIN s.entries = 1 .. Len(s.entries) /\ s.route \in [Nbr -> Route]
  BY DEF Sound, Instance
<1>2. /\ t.entries = SubSeq(s.entries, 1, live)
      /\ t.route = [n \in Nbr |-> IF n \in dead THEN FreshRoute ELSE s.route[n]]
      /\ t.succ = s.succ \ dead /\ t.rib = IF dead = {} THEN s.rib ELSE {}
  BY DEF RoutesDelete, CountIn, Sound, Instance
<1> HIDE DEF t
<1>3. CASE dead = {}
  <2>1. S = 1 .. Len(s.entries)
    BY <1>1, <1>3
  <2> HIDE DEF S
  <2>2. live = Len(s.entries)
    <3>1. 1 \in Int /\ Len(s.entries) \in Int /\ ~(1 > Len(s.entries) + 1)
      BY <1>1
    <3>2. Cardinality(1 .. Len(s.entries)) = Len(s.entries)
      BY <1>1, <3>1, FS_Interval
    <3> QED BY <2>1, <3>2
  <2> HIDE DEF live
  <2>3. t.entries = s.entries
    BY <1>1, <1>2, <2>2
  <2> HIDE DEF dead
  <2>4. t.route = s.route /\ t.succ = s.succ /\ t.rib = s.rib
    BY <1>1, <1>2, <1>3
  <2>5. FirstSuccessors(t, MaxPaths) = FirstSuccessors(s, MaxPaths)
    BY <2>3, <2>4 DEF FirstSuccessors
  <2> QED BY <2>3, <2>4, <2>5 DEF Aligned, Alive, HopsFollow, t
<1>4. CASE dead # {}
  <2>1. ~Ordinary
    BY <1>4 DEF Alive
  <2> HIDE DEF dead
  <2> QED BY <1>2, <1>4, <2>1 DEF Aligned, Alive, HopsFollow, t
<1> QED BY <1>3, <1>4

\* eigrp_topology_update_node_flags and eigrp_update_routing_table: zebra has
\* the first successors afterwards.
LEMMA InstallHops ==
    ASSUME NEW s, Sound(s)
    PROVE  LET r == UpdateRoutingTable(UpdateNodeFlags(s))
           IN  /\ Sound(r) /\ r.rib = FirstSuccessors(r, MaxPaths)
               /\ r.state = s.state /\ r.entries = s.entries /\ r.route = s.route
               /\ r.distance = s.distance
<1> DEFINE f == UpdateNodeFlags(s)
           r == UpdateRoutingTable(f)
<1>1. Sound(f)
  BY UpdateNodeFlagsSound
<1>2. /\ f.state = s.state /\ f.entries = s.entries /\ f.route = s.route
      /\ f.distance = s.distance
  BY DEF UpdateNodeFlags, Sound, Instance
<1> HIDE DEF f
<1>3. Sound(r)
  BY <1>1, UpdateRoutingTableSound
<1>4. /\ r.state = f.state /\ r.entries = f.entries /\ r.route = f.route
      /\ r.distance = f.distance /\ r.succ = f.succ
      /\ r.rib = FirstSuccessors(f, MaxPaths)
  BY <1>1 DEF UpdateRoutingTable, Sound, Instance
<1> HIDE DEF r
<1>5. r.rib = FirstSuccessors(r, MaxPaths)
  BY <1>4 DEF FirstSuccessors
<1> QED BY <1>2, <1>3, <1>4, <1>5 DEF r, f

\* The end of a computation.
LEMMA GoPassiveAligned ==
    ASSUME NEW s, Sound(s), Alive(s), s.entries # <<>>
    PROVE  Aligned(GoPassive(s))
<1> DEFINE p == [s EXCEPT !.state = "passive"]
           c == AddChange(p, "update")
           r == UpdateRoutingTable(UpdateNodeFlags(c))
<1>1. Sound(p) /\ p.entries = s.entries /\ p.route = s.route
  BY DEF Sound, Instance, State
<1> HIDE DEF p
<1>2. Sound(c) /\ c.entries = p.entries /\ c.route = p.route
  BY <1>1, AddChangeSound DEF AddChange, Sound, Instance
<1> HIDE DEF c
<1>3. Sound(r) /\ r.rib = FirstSuccessors(r, MaxPaths) /\ Alive(r)
  BY <1>1, <1>2, InstallHops DEF Alive
<1>4. GoPassive(s) = UpdateTopologyTablePrefix(r)
  BY DEF GoPassive, c, p
<1> HIDE DEF r
<1> QED BY <1>3, <1>4, PrefixDeleteAligned, RoutesDeleteAligned
        DEF UpdateTopologyTablePrefix

\* eigrp_fsm_event_lr.
LEMMA LrAligned ==
    ASSUME NEW s, Sound(s), Alive(s), s.entries # <<>> PROVE Aligned(Lr(s))
<1> DEFINE a == [AdoptBest(s) EXCEPT !.fdistance = Best(s).dist]
           r == FirstSuccessors(a, 1)
           n == CHOOSE k \in r : TRUE
           b == ReplySend(a, n)
           f == [s EXCEPT !.fault = "assert_successors"]
<1>1. Sound(a)
  BY AdoptBestSound
<1>2. a.entries = s.entries /\ a.route = s.route /\ a.state = s.state
  BY DEF AdoptBest, Sound, Instance
<1>3. Lr(s) = CASE a.state # "active3" -> GoPassive(a)
                [] a.state = "active3" /\ r = {} -> f
                [] OTHER -> GoPassive(b)
  BY DEF Lr
<1> HIDE DEF a
<1>4. Alive(a) /\ a.entries # <<>>
  BY <1>2 DEF Alive
<1>5. r # {} => Sound(b) /\ Alive(b) /\ b.entries # <<>>
  <2> SUFFICES ASSUME r # {} PROVE Sound(b) /\ Alive(b) /\ b.entries # <<>>
    OBVIOUS
  <2>1. n \in Nbr
    BY <1>1, FirstSuccessorsType DEF Sound
  <2> HIDE DEF n
  <2>2. Sound(b)
    BY <1>1, <2>1, ReplySendSound
  <2>3. b.entries = a.entries /\ b.route = a.route
    BY <1>1 DEF ReplySend, Sound, Instance
  <2> QED BY <1>4, <2>2, <2>3 DEF Alive
<1>6. Alive(f) /\ f.state = s.state
  BY DEF Alive, Sound, Instance
<1> HIDE DEF r, b, f
<1>7. CASE a.state # "active3"
  BY <1>1, <1>3, <1>4, <1>7, GoPassiveAligned
<1>8. CASE a.state = "active3" /\ r = {}
  BY <1>2, <1>3, <1>6, <1>8, NotPassiveAligned
<1>9. CASE a.state = "active3" /\ r # {}
  BY <1>3, <1>5, <1>9, GoPassiveAligned
<1> QED BY <1>7, <1>8, <1>9

\* eigrp_fsm_event_lr_fcs.
LEMMA LrFcsAligned ==
    ASSUME NEW s, Sound(s), Alive(s), s.entries # <<>> PROVE Aligned(LrFcs(s))
<1> DEFINE a == AdoptBest(s)
           d == IF a.fdistance > a.distance THEN a.distance ELSE a.fdistance
           t == [a EXCEPT !.fdistance = d]
<1>1. LrFcs(s) = GoPassive(t)
  BY DEF LrFcs
<1>2. Sound(a) /\ a.entries = s.entries /\ a.route = s.route
  BY AdoptBestSound DEF AdoptBest, Sound, Instance
<1> HIDE DEF a
<1>3. d \in Distance
  BY <1>2 DEF Sound, Instance
<1> HIDE DEF d
<1>4. Sound(t) /\ t.entries = a.entries /\ t.route = a.route
  BY <1>2, <1>3 DEF Sound, Instance
<1> HIDE DEF t
<1>5. Alive(t)
  BY <1>2, <1>4 DEF Alive
<1> QED BY <1>1, <1>2, <1>4, <1>5, GoPassiveAligned

\* nq_fcn, q_fcn and lr_fcn.
LEMMA StartQueryAligned ==
    ASSUME NEW s, Sound(s), Alive(s), s.entries # <<>>, NEW active \in Active
    PROVE  Aligned(StartQuery(s, active))
<1> DEFINE a == [s EXCEPT !.state = active]
           c == AddChange(a, "query")
<1>1. /\ Sound(a) /\ a.entries = s.entries /\ a.route = s.route
      /\ a.state = active
  BY DEF Sound, Instance, State, Active
<1> HIDE DEF a
<1>2. Alive(a) /\ Aligned(Lr(a))
  BY <1>1, LrAligned DEF Alive
<1>3. /\ c.entries = a.entries /\ c.route = a.route /\ c.state = a.state
  BY <1>1 DEF AddChange, Sound, Instance
<1> HIDE DEF c
<1>4. Aligned(c)
  BY <1>1, <1>2, <1>3, NotPassiveAligned DEF Alive, Active
<1> QED BY <1>2, <1>4 DEF StartQuery, a, c

\* eigrp_fsm_event_lr_fcn.
LEMMA LrFcnAligned ==
    ASSUME NEW s, Sound(s), Alive(s), s.entries # <<>> PROVE Aligned(LrFcn(s))
BY StartQueryAligned DEF LrFcn, Active

\* A reply in the queue touches no route.
LEMMA ReplySendHops ==
    ASSUME NEW s, Sound(s), NEW n \in Nbr
    PROVE  SameHops(s, ReplySend(s, n)) /\ Sound(ReplySend(s, n))
BY ReplySendSound DEF ReplySend, Sound, Instance, SameHops

\* eigrp_fsm_event_keep_state installs the successors whenever the destination
\* is passive, also when the metric did not change.
LEMMA KeepStateAligned ==
    ASSUME NEW s, Sound(s), Alive(s), s.entries # <<>>, NEW n \in Nbr, NEW op
    PROVE  Aligned(KeepState(s, n, op))
<1> DEFINE changed == s.reported_metric # Best(s).total
           v == [AdoptBest(s) EXCEPT !.fdistance = Best(s).dist]
           w == AddChange(v, "update")
           a == IF changed THEN w ELSE s
           b == IF changed /\ op = "query" THEN ReplySend(a, n) ELSE a
           g == UpdateRoutingTable(UpdateNodeFlags(b))
           c == IF s.state = "passive" THEN g ELSE s
<1>1. KeepState(s, n, op) = IF op = "query" THEN ReplySend(c, n) ELSE c
  BY DEF KeepState
<1>2. Sound(v) /\ v.entries = s.entries /\ v.route = s.route
  BY AdoptBestSound DEF AdoptBest, Sound, Instance
<1> HIDE DEF v
<1>3. Sound(w) /\ w.entries = v.entries /\ w.route = v.route
  BY <1>2, AddChangeSound DEF AddChange, Sound, Instance
<1> HIDE DEF w
<1>4. Sound(a) /\ a.entries = s.entries /\ a.route = s.route
  BY <1>2, <1>3
<1> HIDE DEF a
<1>5. Sound(b) /\ b.entries = s.entries /\ b.route = s.route
  BY <1>4, ReplySendHops DEF SameHops
<1> HIDE DEF b
<1>6. Sound(g) /\ Aligned(g)
  BY <1>5, InstallHops DEF Aligned, Alive, HopsFollow
<1> HIDE DEF g
<1>7. Sound(c) /\ Aligned(c)
  BY <1>6, NotPassiveAligned
<1> HIDE DEF c
<1> QED BY <1>1, <1>7, ReplySendHops, SameHopsAligned

\* eigrp_fsm_event_dinc.
LEMMA DincAligned ==
    ASSUME NEW s, Sound(s), Alive(s), s.entries # <<>>, NEW n \in Nbr, NEW op
    PROVE  Aligned(Dinc(s, n, op))
<1> DEFINE a == [s EXCEPT !.state = IF s.state = "active1" THEN "active0"
                                                           ELSE "active2"]
<1>1. /\ Sound(a) /\ a.entries = s.entries /\ a.route = s.route
      /\ a.state # "passive"
  BY DEF Sound, Instance, State, Active
<1>2. Dinc(s, n, op) =
        IF \E k \in Nbr : a.rij[k] > 0 THEN a
        ELSE CASE FsmEvent(a, n, op, "same") = "lr_fcs" -> LrFcs(a)
               [] FsmEvent(a, n, op, "same") = "lr_fcn" -> LrFcn(a)
               [] OTHER -> KeepState(a, n, op)
  BY DEF Dinc
<1> HIDE DEF a
<1>3. Alive(a)
  BY <1>1 DEF Alive
<1>4. Aligned(a)
  BY <1>1, <1>3, NotPassiveAligned
<1>5. Aligned(LrFcs(a)) /\ Aligned(LrFcn(a)) /\ Aligned(KeepState(a, n, op))
  BY <1>1, <1>3, LrFcsAligned, LrFcnAligned, KeepStateAligned
<1> QED BY <1>2, <1>4, <1>5

\* A message that is not unreachable leaves no unreachable route.
LEMMA UpdateDistanceAlive ==
    ASSUME NEW s, Listed(s), Alive(s), NEW n \in Nbr, NEW m \in Metric,
           Ordinary => Composite(TotalMetric(n, m)) # MaxMetric
    PROVE  Alive(UpdateDistance(s, n, m))
<1>1. CASE m = s.route[n].reported
  BY <1>1 DEF UpdateDistance
<1>2. CASE m # s.route[n].reported
  <2> DEFINE rt == [s.route EXCEPT ![n] = HeardRoute(n, m)]
             w  == Without(s.entries, n)
             e  == InsertSorted(w, n, rt)
             u  == UpdateDistance(s, n, m)
  <2>1. u.entries = e /\ u.route = rt
    BY <1>2 DEF UpdateDistance, Listed, Sound, Instance
  <2>2. /\ s.entries \in Seq(Nbr) /\ s.route \in [Nbr -> Route]
        /\ SortedList(s.entries, s.route)
    BY DEF Listed, Sound, Instance
  <2>3. SortedList(w, s.route) /\ ToSet(w) = ToSet(s.entries) \ {n}
    BY <2>2, WithoutSorted
  <2>4. w \in Seq(Nbr)
    BY <2>2, WithoutType
  <2> HIDE DEF w
  <2>5. SortedList(w, rt)
    BY <2>2, <2>3, <2>4, SortedElsewhere
  <2>6. rt \in [Nbr -> Route]
    BY <2>2, HeardRouteType
  <2>7. /\ rt[n].dist = Composite(TotalMetric(n, m))
        /\ \A k \in Nbr \ {n} : rt[k] = s.route[k]
    BY <2>2 DEF HeardRoute
  <2> HIDE DEF rt
  <2>8. ToSet(e) = ToSet(w) \cup {n}
    BY <2>3, <2>4, <2>5, <2>6, InsertSortedSorted
  <2> HIDE DEF e, u
  <2>9. ToSet(s.entries) \subseteq Nbr
    BY <2>2, Members
  <2> QED BY <2>1, <2>3, <2>7, <2>8, <2>9 DEF Alive, u
<1> QED BY <1>1, <1>2

\* Whatever the message and the state, eigrp_fsm_event leaves zebra with the
\* successors of a destination that is passive.
LEMMA FsmAligned ==
    ASSUME NEW s, Good(s), Alive(s), s.state # "none",
           NEW n \in Nbr, NEW op, NEW m \in Metric,
           Ordinary => Composite(TotalMetric(n, m)) # MaxMetric
    PROVE  Aligned(Fsm(s, n, op, m))
<1> DEFINE u  == UpdateDistance(s, n, m)
           a  == TakeReply(u, n, op)
           ev == FsmEvent(a, n, op, MetricChange(s, n, m))
<1>1. Sound(u) /\ u.state = s.state /\ Alive(u)
  BY GoodAnchored, UpdateDistanceListed, UpdateDistanceAlive DEF Listed
<1> HIDE DEF u
<1>2. Sound(a) /\ Alive(a) /\ a.state = s.state /\ a.entries # <<>>
  <2>1. Books(u, a) /\ Sound(a)
    BY <1>1, TakeReplyBooks
  <2> HIDE DEF a
  <2> QED BY <1>1, <2>1 DEF Alive, Books, Sound
<1>3. Fsm(s, n, op, m) =
        CASE ev = "nq_fcn" -> StartQuery(a, "active1")
          [] ev = "q_fcn"  -> StartQuery(a, "active3")
          [] ev = "lr"     -> Lr(a)
          [] ev = "dinc"   -> Dinc(a, n, op)
          [] ev = "qact"   -> Qact(a)
          [] ev = "lr_fcs" -> LrFcs(a)
          [] ev = "lr_fcn" -> LrFcn(a)
          [] OTHER         -> KeepState(a, n, op)
  BY DEF Fsm, u
<1> HIDE DEF a, ev
<1>4. Aligned(Qact(a))
  <2> DEFINE t == Qact(a)
  <2>1. t.entries = a.entries /\ t.route = a.route /\ t.state # "passive"
    BY <1>2 DEF Qact, Sound, Instance
  <2> HIDE DEF t
  <2> QED BY <1>2, <2>1, NotPassiveAligned DEF Alive, t
<1>5. /\ Aligned(StartQuery(a, "active1")) /\ Aligned(StartQuery(a, "active3"))
      /\ Aligned(Lr(a)) /\ Aligned(LrFcs(a)) /\ Aligned(LrFcn(a))
      /\ Aligned(Dinc(a, n, op)) /\ Aligned(KeepState(a, n, op))
  BY <1>2, StartQueryAligned, LrAligned, LrFcsAligned, LrFcnAligned,
     DincAligned, KeepStateAligned DEF Active
<1> QED BY <1>3, <1>4, <1>5

\* The two calls that end a handler, and an item of the work queue, do not
\* touch the routes.
LEMMA CallsKeepHops ==
    ASSUME NEW s, Sound(s), NEW w
    PROVE  SameHops(s, SendAll(s)) /\ SameHops(s, WorkProcess(s, w))
<1>1. SameHops(s, PacketizeAll(s))
  BY DEF PacketizeAll, Done, Sound, Instance, SameHops
<1>2. SameHops(s, QuerySend(s, w))
  BY DEF QuerySend, Sound, Instance, SameHops
<1>3. SameHops(s, NeighborRouteSend(s, w))
  BY DEF NeighborRouteSend, Sound, Instance, SameHops
<1>4. SameHops(s, QuerySendAll(s)) /\ QuerySendAll(s) \in Instance
  BY QuerySendAllBooks DEF QuerySendAll, Done, Sound, Instance, SameHops
<1> DEFINE q == QuerySendAll(s)
<1> HIDE DEF q
<1>5. SameHops(q, UpdateSendAll(q))
  BY <1>4 DEF UpdateSendAll, Instance, SameHops, q
<1>6. SameHops(s, SendAll(s))
  BY <1>4, <1>5 DEF SendAll, SameHops, q
<1> QED BY <1>1, <1>2, <1>3, <1>6 DEF WorkProcess

\* The next hop of a destination that is created is its only route, which is
\* the only successor when the metrics are ordinary.
LEMMA NewPrefixAligned ==
    ASSUME NEW s, Sound(s), NEW n \in Nbr, NEW m \in Heard
    PROVE  Aligned(NewPrefix(s, n, m))
<1> DEFINE h    == HeardRoute(n, Seen(n, m))
           r    == [h EXCEPT !.rd = Composite(m)]
           rt   == [s.route EXCEPT ![n] = r]
           a    == [s EXCEPT !.state = "passive", !.entries = <<n>>,
                             !.route = rt, !.fdistance = r.dist,
                             !.rdistance = r.dist, !.distance = r.dist,
                             !.reported_metric = r.total, !.rib = {n}]
           f    == UpdateNodeFlags(a)
           t    == AddChange(f, "update")
           d    == Composite(TotalMetric(n, Seen(n, m)))
<1>1. NewPrefix(s, n, m) = t
  BY DEF NewPrefix, Seen, Sound, Instance
<1>2. r.dist = d /\ r.rd = Composite(m)
  BY DEF HeardRoute
<1>3. d \in Nat
  <2>1. Seen(n, m) \in Metric
    BY MetricAssumption DEF Seen, Metric
  <2> QED BY <2>1, HeardRouteType, MetricAssumption DEF HeardRoute, Route, Distance
<1> HIDE DEF r, d
<1>4. rt[n] = r
  BY DEF Sound, Instance
<1> HIDE DEF rt
<1> DEFINE e == <<n>>
<1>5. ToSet(e) = {n} /\ DOMAIN e = {1} /\ e[1] = n
  BY DEF ToSet
<1> HIDE DEF e
<1>6. /\ a.entries = e /\ a.route = rt /\ a.fdistance = r.dist
      /\ a.distance = r.dist /\ a.rib = {n} /\ DOMAIN a = DOMAIN s
  BY DEF Sound, Instance, e
<1>7. /\ f.entries = a.entries /\ f.route = a.route /\ f.rib = a.rib
      /\ f.succ = FeasibleRoutes(a) /\ DOMAIN f = DOMAIN a
  BY DEF UpdateNodeFlags, FeasibleRoutes, Sound, Instance
<1>8. /\ t.entries = f.entries /\ t.route = f.route /\ t.rib = f.rib
      /\ t.succ = f.succ
  BY DEF AddChange, UpdateNodeFlags, Sound, Instance
<1> HIDE DEF a, f, t
<1>9. CASE ~Ordinary
  BY <1>1, <1>6, <1>7, <1>8, <1>9 DEF Aligned, Alive, HopsFollow, e
<1>10. CASE Ordinary
  <2>1. d # MaxMetric /\ Composite(m) < d
    BY <1>10 DEF Ordinary, d
  <2>2. d <= d * Variance
    BY <1>3, ConfigAssumption
  <2>3. t.succ = {n}
    BY <1>2, <1>4, <1>5, <1>6, <1>7, <1>8, <2>1, <2>2 DEF FeasibleRoutes
  <2>4. FirstSuccessors(t, MaxPaths) = {n}
    <3> DEFINE H(j) == {i \in 1 .. j : t.entries[i] \in t.succ}
               J == {j \in DOMAIN t.entries :
                       t.entries[j] \in t.succ /\ Cardinality(H(j)) <= MaxPaths}
    <3>1. t.entries = e
      BY <1>6, <1>7, <1>8
    <3>2. H(1) = {1}
      <4>1. 1 .. 1 = {1}
        OBVIOUS
      <4> QED BY <1>5, <2>3, <3>1, <4>1
    <3>3. Cardinality(H(1)) = 1
      BY <3>2, FS_Singleton
    <3>4. 1 <= MaxPaths
      BY ConfigAssumption
    <3> HIDE DEF H
    <3>5. J = {1}
      BY <1>5, <2>3, <3>1, <3>3, <3>4
    <3>6. FirstSuccessors(t, MaxPaths) = {t.entries[j] : j \in J}
      BY DEF FirstSuccessors, H
    <3> HIDE DEF J
    <3> QED BY <1>5, <3>1, <3>5, <3>6
  <2>5. Alive(t)
    BY <1>2, <1>4, <1>5, <1>6, <1>7, <1>8, <2>1 DEF Alive
  <2> QED BY <1>1, <1>6, <1>7, <1>8, <2>4, <2>5 DEF Aligned, HopsFollow
<1> QED BY <1>9, <1>10

\* eigrp_topology_neighbor_down runs the state machine, perhaps twice, or walks
\* on through a freed node.
LEMMA NeighborDownAligned ==
    ASSUME NEW s, Good(s), Aligned(s), NEW n \in Nbr, NEW bw \in StackBw
    PROVE  Aligned(NeighborDown(s, n, bw))
<1> DEFINE m    == [bw |-> bw, delay |-> MaxMetric]
           once == Fsm(s, n, "update", m)
           pos(t) == CHOOSE i \in DOMAIN t.entries : t.entries[i] = n
           next == {k \in ToSet(s.entries) :
                      pos(s) < Len(s.entries) /\ k = s.entries[pos(s) + 1]}
           back == /\ n \in ToSet(once.entries)
                   /\ \E k \in next : \E i \in DOMAIN once.entries :
                          once.entries[i] = k /\ i < pos(once)
           lost == ~(next \subseteq ToSet(once.entries))
           freed == [once EXCEPT !.fault = "freed_entry"]
           walked == CASE once.fault # "none" -> once
                       [] once.fault = "none" /\ lost -> freed
                       [] once.fault = "none" /\ ~lost /\ back ->
                              Fsm(once, n, "update", m)
                       [] OTHER -> once
<1>1. NeighborDown(s, n, bw) = SendAll(IF n \in ToSet(s.entries) THEN walked ELSE s)
  BY DEF NeighborDown
<1>2. m \in Metric /\ (Ordinary => Composite(TotalMetric(n, m)) # MaxMetric)
  BY MetricAssumption DEF Metric, Ordinary
<1> HIDE DEF m
<1>3. ASSUME n \in ToSet(s.entries) PROVE Aligned(walked) /\ Sound(walked)
  <2>1. s.state # "none"
    BY <1>3 DEF ToSet, Good, Listed, Sound
  <2>2. Good(once) /\ Aligned(once)
    BY <1>2, <2>1, FsmGood, FsmAligned DEF Aligned
  <2>3. back => once.entries # <<>>
    BY DEF ToSet
  <2> HIDE DEF once
  <2>4. back => /\ Sound(Fsm(once, n, "update", m))
                /\ Aligned(Fsm(once, n, "update", m))
    <3>1. back => once.state # "none"
      BY <2>2, <2>3 DEF Good, Listed, Sound
    <3> HIDE DEF back
    <3> QED BY <1>2, <2>2, <3>1, FsmGood, FsmAligned DEF Aligned, Good, Listed
  <2>5. Sound(freed) /\ Aligned(freed)
    <3>1. Sound(once)
      BY <2>2 DEF Good, Listed
    <3>2. Sound(freed)
      BY <3>1, FaultSound DEF Fault
    <3>3. /\ freed.entries = once.entries /\ freed.route = once.route
          /\ freed.fault # "none"
      BY <3>1 DEF Sound, Instance
    <3> HIDE DEF freed
    <3> QED BY <2>2, <3>2, <3>3 DEF Aligned, Alive, HopsFollow
  <2> HIDE DEF back, lost, freed
  <2> QED BY <2>2, <2>4, <2>5 DEF Good, Listed
<1> HIDE DEF walked
<1>4. Sound(s)
  BY DEF Good, Listed
<1> QED BY <1>1, <1>3, <1>4, CallsKeepHops, SameHopsAligned

-----------------------------------------------------------------------------
(* The routing table at every moment.                                      *)

AlignedInv == BestInv /\ Aligned(Now)

\* A handler that ends in an aligned instance establishes its part.
LEMMA BecomesAligned ==
    ASSUME NEW s, Aligned(s), Becomes(s) PROVE Aligned(Now)'
<1>1. SameHops(s, Now')
  BY DEF Becomes, Now, SameHops
<1> DEFINE t == Now'
<1> HIDE DEF t
<1>2. Aligned(t)
  BY <1>1, SameHopsAligned DEF t
<1> QED BY <1>2 DEF t, Aligned, Alive, HopsFollow, FirstSuccessors, Now

\* One step: each event ends in a handler, or touches no route.
LEMMA NextAligned == AlignedInv /\ [Next]_vars => Aligned(Now)'
<1> SUFFICES ASSUME AlignedInv, [Next]_vars PROVE Aligned(Now)'
  OBVIOUS
<1>0. /\ Good(Now) /\ Sound(Now) /\ Aligned(Now) /\ Alive(Now)
      /\ Heard \subseteq Metric
  BY MetricAssumption DEF AlignedInv, BestInv, Good, Listed, Aligned
<1>1. ASSUME NEW s, NEW n \in Nbr, NEW to \in NbrState, Good(s), Aligned(s)
      PROVE  /\ Sound([s EXCEPT !.nbr[n] = to, !.queried = @ \ {n}])
             /\ Aligned([s EXCEPT !.nbr[n] = to, !.queried = @ \ {n}])
  <2> DEFINE t == [s EXCEPT !.nbr[n] = to, !.queried = @ \ {n}]
  <2>0. Sound(s)
    BY <1>1 DEF Good, Listed
  <2>1. /\ [s.nbr EXCEPT ![n] = to] \in [Nbr -> NbrState]
        /\ s.queried \ {n} \in SUBSET Nbr
    BY <2>0 DEF Sound, Instance
  <2>2. t = [s EXCEPT !.nbr = [s.nbr EXCEPT ![n] = to], !.queried = s.queried \ {n}]
    BY <2>0 DEF Sound, Instance
  <2>3. Sound(t) /\ SameHops(s, t)
    BY <2>0, <2>1, <2>2 DEF Sound, Instance, SameHops
  <2> HIDE DEF t
  <2> QED BY <1>1, <2>3, SameHopsAligned DEF t
<1>2. ASSUME NEW n \in Nbr, NEW bw \in StackBw
      PROVE  /\ Good(NeighborDown([Now EXCEPT !.nbr[n] = "down"], n, bw))
             /\ Aligned(NeighborDown([Now EXCEPT !.nbr[n] = "down"], n, bw))
  <2> DEFINE t == [Now EXCEPT !.nbr[n] = "down"]
  <2>1. t = [Now EXCEPT !.nbr = [nbr EXCEPT ![n] = "down"]]
    BY DEF Now
  <2>2. [nbr EXCEPT ![n] = "down"] \in [Nbr -> NbrState]
    BY <1>0 DEF Sound, Instance, Now, NbrState
  <2>3. Sound(t) /\ Books(Now, t) /\ SameHops(Now, t)
    BY <1>0, <2>1, <2>2 DEF Sound, Instance, Books, SameHops
  <2> HIDE DEF t
  <2>4. Good(t) /\ Aligned(t)
    BY <1>0, <2>3, BooksGood, SameHopsAligned
  <2> QED BY <2>4, NeighborDownGood, NeighborDownAligned DEF t
<1>3. ASSUME NEW n \in Nbr, NEW bw \in StackBw, NeighborLost(n, bw)
      PROVE  Aligned(Now)'
  <2> DEFINE s == NeighborDown([Now EXCEPT !.nbr[n] = "down"], n, bw)
  <2>1. Becomes([s EXCEPT !.nbr[n] = "gone", !.queried = @ \ {n}])
    BY <1>3 DEF NeighborLost
  <2>2. Good(s) /\ Aligned(s)
    BY <1>2
  <2> HIDE DEF s
  <2>3. Aligned([s EXCEPT !.nbr[n] = "gone", !.queried = @ \ {n}])
    BY <1>1, <2>2 DEF NbrState
  <2> QED BY <2>1, <2>3, BecomesAligned
<1>4. ASSUME NEW n \in Nbr, NEW bw \in StackBw, PeerRestarted(n, bw)
      PROVE  Aligned(Now)'
  <2> DEFINE s == NeighborDown([Now EXCEPT !.nbr[n] = "down"], n, bw)
             t == [s EXCEPT !.nbr[n] = "down", !.queried = @ \ {n}]
  <2>1. Becomes(SendAll(t))
    BY <1>4 DEF PeerRestarted
  <2>2. Good(s) /\ Aligned(s)
    BY <1>2
  <2> HIDE DEF s
  <2>3. Sound(t) /\ Aligned(t)
    BY <1>1, <2>2 DEF NbrState
  <2> HIDE DEF t
  <2> QED BY <2>1, <2>3, CallsKeepHops, SameHopsAligned, BecomesAligned
<1>5. ASSUME NEW n \in Nbr, NEW op, NEW m \in Heard, state # "none"
      PROVE  /\ Sound(Fsm(Now, n, op, m)) /\ Aligned(Fsm(Now, n, op, m))
             /\ Aligned(SendAll(Fsm(Now, n, op, m)))
  <2>1. Now.state # "none" /\ m \in Metric
    BY <1>0, <1>5 DEF Now
  <2>2. Ordinary => Composite(TotalMetric(n, m)) # MaxMetric
    BY DEF Ordinary
  <2>3. Sound(Fsm(Now, n, op, m)) /\ Aligned(Fsm(Now, n, op, m))
    BY <1>0, <2>1, <2>2, FsmSound, FsmAligned
  <2> QED BY <2>3, CallsKeepHops, SameHopsAligned
<1>6. ASSUME NEW n \in Nbr, NEW m \in Heard, ReceiveUpdate(n, m)
      PROVE  Aligned(Now)'
  <2>1. CASE state = "none"
    <3> DEFINE t == NewPrefix(Now, n, m)
    <3>1. Sound(t) /\ Aligned(t)
      BY <1>0, NewPrefixSound, NewPrefixAligned
    <3>2. Becomes(SendAll(t))
      BY <1>6, <2>1 DEF ReceiveUpdate
    <3> HIDE DEF t
    <3> QED BY <3>1, <3>2, CallsKeepHops, SameHopsAligned, BecomesAligned
  <2>2. CASE state # "none"
    BY <1>5, <1>6, <2>2, BecomesAligned DEF ReceiveUpdate
  <2> QED BY <2>1, <2>2
<1>7. ASSUME NEW n \in Nbr, NEW m \in Heard, ReceiveQuery(n, m)
      PROVE  Aligned(Now)'
  <2>1. CASE state = "none"
    <3> DEFINE w == [op |-> "reply", to |-> n, prefix |-> "own"]
               t == [Now EXCEPT !.work = Append(@, w)]
    <3>1. t = [Now EXCEPT !.work = Append(Now.work, w)] /\ w \in Work
      BY DEF Now, Work
    <3>2. Sound(t)
      BY <1>0, <3>1, AppendWorkSound
    <3>3. SameHops(Now, t)
      BY <3>1 DEF Now, SameHops
    <3>4. Becomes(SendAll(t))
      BY <1>7, <2>1 DEF ReceiveQuery
    <3> HIDE DEF t
    <3> QED BY <1>0, <3>2, <3>3, <3>4, CallsKeepHops, SameHopsAligned, BecomesAligned
  <2>2. CASE state # "none"
    BY <1>5, <1>7, <2>2, BecomesAligned DEF ReceiveQuery
  <2> QED BY <2>1, <2>2
<1>8. ASSUME NEW n \in Nbr, NEW m \in Heard, ReceiveReply(n, m)
      PROVE  Aligned(Now)'
  BY <1>5, <1>8, BecomesAligned DEF ReceiveReply
<1>9. CASE UNCHANGED <<state, entries, route, succ, rib, fault>>
  <2>1. SameHops(Now, Now')
    BY <1>9 DEF Now, SameHops
  <2> DEFINE t == Now'
  <2> HIDE DEF t
  <2>2. Aligned(t)
    BY <1>0, <2>1, SameHopsAligned DEF t
  <2> QED BY <2>2 DEF t, Aligned, Alive, HopsFollow, FirstSuccessors, Now
<1>10. CASE Packetize
  <2> DEFINE s == [Now EXCEPT !.work = Tail(@)]
  <2>1. Tail(work) \in Seq(Work) /\ s = [Now EXCEPT !.work = Tail(work)]
    BY <1>0, <1>10 DEF Packetize, Sound, Instance, Now
  <2>2. Sound(s) /\ SameHops(Now, s)
    BY <1>0, <2>1 DEF Sound, Instance, SameHops
  <2>3. Becomes(WorkProcess(s, Head(work)))
    BY <1>10 DEF Packetize
  <2> HIDE DEF s
  <2> QED BY <1>0, <2>2, <2>3, CallsKeepHops, SameHopsAligned, BecomesAligned
<1> QED BY <1>3, <1>4, <1>6, <1>7, <1>8, <1>9, <1>10
        DEF Next, NeighborUp, KValueMismatch, vars

\* The invariant holds at every moment.
LEMMA AlwaysAligned == Spec => []AlignedInv
<1>1. Init => AlignedInv
  <2>1. Init => Now.state = "none" /\ Now.entries = <<>>
    BY DEF Init, Now
  <2>2. Init => ToSet(Now.entries) = {}
    BY <2>1 DEF ToSet
  <2> QED BY <2>1, <2>2, InitGood DEF AlignedInv, Aligned, Alive, HopsFollow
<1>2. AlignedInv /\ [Next]_vars => AlignedInv'
  BY NextGood, NextAligned DEF AlignedInv
<1> QED BY <1>1, <1>2, PTL DEF Spec

\* Next hops frozen during a computation, or those of a route that moved in
\* the list, are never left behind: in PASSIVE zebra has the first successors
\* of the list or one of two exceptions, a purge and a new destination.
THEOREM HopsAlwaysAccounted == Spec => []HopsAccounted
<1>1. AlignedInv => HopsAccounted
  BY DEF AlignedInv, Aligned, HopsFollow, HopsAccounted, Now
<1> QED BY <1>1, AlwaysAligned, PTL

\* When no metric that occurs is taken for unreachable and a first route is
\* feasible, neither exception occurs: in PASSIVE zebra has exactly the first
\* successors of the list.
THEOREM ZebraHasSuccessors ==
    ASSUME Ordinary PROVE Spec => []RibHoldsSuccessors
<1>1. AlignedInv => RibHoldsSuccessors
  BY DEF AlignedInv, Aligned, HopsFollow, RibHoldsSuccessors, Now
<1> QED BY <1>1, AlwaysAligned, PTL
=============================================================================
