------------------------ MODULE HashProvidersProofs ------------------------
(***************************************************************************)
(* Theorems about the hash providers, for every hash function, all weights *)
(* and any number of nodes, keys and points, collisions included.          *)
(***************************************************************************)
EXTENDS HashProviders, FiniteSetTheorems, SequenceTheorems, WellFoundedInduction, TLAPS

-----------------------------------------------------------------------------
\* KetamaHash

\* A weight asks for a number of points within the bound.
LEMMA RoundIsBounded ==
    ASSUME NEW w \in Weights
    PROVE  Round(w) \in Int /\ Round(w) <= MaxPoints /\ MaxPoints \in Int
<1>1. w \in Int /\ BaseWeight \in Int /\ MaxPoints \in Int
  BY WeightsAssumption
<1>2. w * BaseWeight \in Int
  BY <1>1
<1>3. \A x \in Int : (x + 50) \div 100 \in Int
  OBVIOUS
<1>4. Round(w) \in Int
  BY <1>2, <1>3 DEF Round
<1>5. Round(w) <= MaxPoints
  BY WeightsAssumption
<1> QED
  BY <1>1, <1>4, <1>5

\* The points a node gets are points of the ring, and its own.
LEMMA PointsAreTyped ==
    ASSUME NEW n \in Nodes, hash \in HashFunctions
    PROVE  /\ PointsOf(n.id, n.weight) \subseteq Points
           /\ \A p \in PointsOf(n.id, n.weight) : p.id = n.id
<1>1. n.id \in Ids /\ n.weight \in Weights
  BY DEF Nodes
<1>2. ASSUME NEW i \in 1 .. Round(n.weight)
      PROVE  hash[n.id][i] \in Hashes
  <2>1. Round(n.weight) \in Int /\ Round(n.weight) <= MaxPoints /\ MaxPoints \in Int
    BY <1>1, RoundIsBounded
  <2>2. i \in 1 .. MaxPoints
    BY <2>1
  <2>3. hash[n.id] \in [1 .. MaxPoints -> Hashes]
    BY <1>1, HashFunctionsAssumption
  <2> QED
    BY <2>2, <2>3
<1> QED
  BY <1>1, <1>2 DEF PointsOf, Points

-----------------------------------------------------------------------------
\* Type correctness

\* Removing a node keeps the types of the ring.
LEMMA RingRemoveTypes ==
    ASSUME TypeOK, NEW c \in Ids, RingRemove(c)
    PROVE  /\ clock' \subseteq Points /\ ring' \subseteq Ids
           /\ before' \subseteq ring' \X ring'
           /\ \A p \in clock' : p.id \in ring'
<1>1. clock' \subseteq Points /\ ring' \subseteq Ids
  BY DEF TypeOK, RingRemove, Without
<1>2. \A p \in clock' : p.id \in ring'
  BY DEF TypeOK, RingRemove, Without
<1>3. before' \subseteq ring' \X ring'
  BY DEF TypeOK, RingRemove, BeforeWithout
<1> QED
  BY <1>1, <1>2, <1>3

\* Adding a node keeps them, too.
LEMMA RingAddTypes ==
    ASSUME TypeOK, NEW n \in Nodes, RingAdd(n.id, n.weight)
    PROVE  /\ clock' \subseteq Points /\ ring' \subseteq Ids
           /\ before' \subseteq ring' \X ring'
           /\ \A p \in clock' : p.id \in ring'
<1>1. n.id \in Ids
  BY DEF Nodes
<1>2. CASE n.weight = 0
  BY <1>1, <1>2, RingRemoveTypes DEF RingAdd
<1>3. CASE n.weight # 0
  <2> DEFINE c == n.id
             P == PointsOf(n.id, n.weight)
  <2>1. P \subseteq Points /\ \A p \in P : p.id = c
    BY PointsAreTyped DEF TypeOK
  <2>2. /\ clock' = Without(c) \cup P
        /\ before' = BeforeWithout(c) \cup {<<d, c>> : d \in ring \ {c}}
        /\ ring' = ring \cup {c}
    BY <1>3 DEF RingAdd
  <2> HIDE DEF P
  <2>3. clock' \subseteq Points /\ ring' \subseteq Ids
    BY <1>1, <2>1, <2>2 DEF TypeOK, Without
  <2>4. \A p \in clock' : p.id \in ring'
    BY <2>1, <2>2 DEF TypeOK, Without
  <2>5. before' \subseteq ring' \X ring'
    BY <2>2 DEF TypeOK, BeforeWithout
  <2> QED
    BY <2>3, <2>4, <2>5
<1> QED
  BY <1>2, <1>3

LEMMA InitTypeOK == Init => TypeOK
BY DEF Init, TypeOK

LEMMA NextTypeOK == TypeOK /\ [Next]_vars => TypeOK'
<1> SUFFICES ASSUME TypeOK, [Next]_vars PROVE TypeOK'
  OBVIOUS
<1>1. ASSUME NEW n \in Nodes, AddNode(n) PROVE TypeOK'
  <2>1. n.id \in Ids
    BY DEF Nodes
  <2> QED
    BY <1>1, <2>1, RingAddTypes DEF TypeOK, AddNode, CacheCleared
<1>2. ASSUME NEW n \in Nodes, AddRefused(n) PROVE TypeOK'
  <2>1. n.id \in Ids
    BY DEF Nodes
  <2> QED
    BY <1>2, <2>1 DEF TypeOK, AddRefused
<1>3. ASSUME NEW c \in Ids, RemoveNode(c) PROVE TypeOK'
  BY <1>3, RingRemoveTypes DEF TypeOK, RemoveNode, CacheCleared
<1>4. ASSUME NEW x \in Inputs, GetNodesByKey(x) PROVE TypeOK'
  BY <1>4 DEF TypeOK, GetNodesByKey
<1>5. CASE UNCHANGED vars
  BY <1>5 DEF TypeOK, vars
<1> QED
  BY <1>1, <1>2, <1>3, <1>4, <1>5 DEF Next

\* Points belong to nodes of the ring, and the order of addition is kept for
\* nodes of the ring only.
THEOREM TypeCorrect == Spec => []TypeOK
BY InitTypeOK, NextTypeOK, PTL DEF Spec

-----------------------------------------------------------------------------
\* At most one owner

\* Of two nodes, one was added first.  Without it the points of two nodes with
\* the same hash would each come before the other.
OrderIsStrict == \A c, d \in Ids : <<c, d>> \in before => <<d, c>> \notin before

LEMMA NextOrderIsStrict == TypeOK /\ OrderIsStrict /\ [Next]_vars => OrderIsStrict'
<1> SUFFICES ASSUME TypeOK, OrderIsStrict, [Next]_vars PROVE OrderIsStrict'
  OBVIOUS
<1>1. ASSUME NEW c \in Ids, RingRemove(c) PROVE OrderIsStrict'
  BY <1>1 DEF OrderIsStrict, RingRemove, BeforeWithout
<1>2. ASSUME NEW n \in Nodes, AddNode(n) PROVE OrderIsStrict'
  <2>1. n.id \in Ids
    BY DEF Nodes
  <2>2. CASE n.weight = 0
    BY <1>1, <1>2, <2>1, <2>2 DEF AddNode, RingAdd
  <2>3. CASE n.weight # 0
    BY <1>2, <2>1, <2>3 DEF AddNode, RingAdd, OrderIsStrict, BeforeWithout
  <2> QED
    BY <2>2, <2>3
<1>3. ASSUME NEW n \in Nodes, AddRefused(n) PROVE OrderIsStrict'
  BY <1>3 DEF OrderIsStrict, AddRefused
<1>4. ASSUME NEW c \in Ids, RemoveNode(c) PROVE OrderIsStrict'
  BY <1>1, <1>4 DEF RemoveNode
<1>5. ASSUME NEW x \in Inputs, GetNodesByKey(x) PROVE OrderIsStrict'
  BY <1>5 DEF OrderIsStrict, GetNodesByKey
<1>6. CASE UNCHANGED vars
  BY <1>6 DEF OrderIsStrict, vars
<1> QED
  BY <1>2, <1>3, <1>4, <1>5, <1>6 DEF Next

\* Two points that come before each other are points of one node.
LEMMA PrecedesIsAntisymmetric ==
    ASSUME OrderIsStrict, NEW p \in Points, NEW q \in Points,
           Precedes(p, q), Precedes(q, p)
    PROVE  p.id = q.id
<1>1. p.hash \in Int /\ q.hash \in Int /\ p.id \in Ids /\ q.id \in Ids
  BY HashesAssumption DEF Points
<1> QED
  BY <1>1 DEF OrderIsStrict, Precedes

LEMMA OneOwner ==
    ASSUME TypeOK, OrderIsStrict, NEW h \in Hashes, NEW c \in Ids, NEW d \in Ids,
           Owns(c, h), Owns(d, h)
    PROVE  c = d
<1>1. PICK p \in clock : p.id = c /\ FirstFrom(p, h)
  BY DEF Owns
<1>2. PICK q \in clock : q.id = d /\ FirstFrom(q, h)
  BY DEF Owns
<1>3. p \in Points /\ q \in Points /\ p.hash \in Int /\ q.hash \in Int /\ h \in Int
  BY HashesAssumption DEF TypeOK, Points
<1>4. Precedes(p, q) /\ Precedes(q, p)
  BY <1>1, <1>2, <1>3 DEF FirstFrom
<1> QED
  BY <1>1, <1>2, <1>3, <1>4, PrecedesIsAntisymmetric

\* No hash has two owners, whatever the points of the nodes collide with.
THEOREM OneOwnerAlways == Spec => []AtMostOneOwner
<1>1. Init => OrderIsStrict
  BY DEF Init, OrderIsStrict
<1>2. TypeOK /\ OrderIsStrict => AtMostOneOwner
  BY OneOwner DEF AtMostOneOwner
<1> QED
  BY <1>1, <1>2, InitTypeOK, NextTypeOK, NextOrderIsStrict, PTL DEF Spec

-----------------------------------------------------------------------------
\* Keys move only to or from the node that changes

\* The points of the nodes other than d, and their order, are what they were.
OthersStay(d) ==
    /\ \A p \in Points : p.id # d => (p \in clock <=> p \in clock')
    /\ \A p, q \in Points : p.id # d /\ q.id # d => (Precedes(p, q) <=> Precedes(p, q)')

LEMMA OrderStays ==
    ASSUME NEW d,
           \A c, e \in Ids \ {d} : <<c, e>> \in before <=> <<c, e>> \in before'
    PROVE  \A p, q \in Points : p.id # d /\ q.id # d => (Precedes(p, q) <=> Precedes(p, q)')
BY DEF Points, Precedes

LEMMA RemoveLeavesOthers ==
    ASSUME NEW d \in Ids, RingRemove(d)
    PROVE  OthersStay(d)
<1>1. \A c, e \in Ids \ {d} : <<c, e>> \in before <=> <<c, e>> \in before'
  BY DEF RingRemove, BeforeWithout
<1>2. \A p \in Points : p.id # d => (p \in clock <=> p \in clock')
  BY DEF RingRemove, Without
<1> QED
  BY <1>1, <1>2, OrderStays DEF OthersStay

LEMMA AddLeavesOthers ==
    ASSUME TypeOK, NEW n \in Nodes, RingAdd(n.id, n.weight)
    PROVE  OthersStay(n.id)
<1>1. n.id \in Ids
  BY DEF Nodes
<1>2. CASE n.weight = 0
  BY <1>1, <1>2, RemoveLeavesOthers DEF RingAdd
<1>3. CASE n.weight # 0
  <2>1. \A p \in PointsOf(n.id, n.weight) : p.id = n.id
    BY PointsAreTyped DEF TypeOK
  <2>2. \A p \in Points : p.id # n.id => (p \in clock <=> p \in clock')
    BY <1>3, <2>1 DEF RingAdd, Without
  <2>3. \A c, e \in Ids \ {n.id} : <<c, e>> \in before <=> <<c, e>> \in before'
    BY <1>3 DEF RingAdd, BeforeWithout
  <2> QED
    BY <2>2, <2>3, OrderStays DEF OthersStay
<1> QED
  BY <1>2, <1>3

\* A node keeps its keys when another one loses its points, and had them
\* before another one got points.
LEMMA OthersKeepKeys ==
    ASSUME TypeOK, TypeOK', NEW d \in Ids, OthersStay(d),
           NEW h \in Hashes, NEW c \in Ids \ {d}
    PROVE  /\ d \notin ring => (Owns(c, h)' => Owns(c, h))
           /\ d \notin ring' => (Owns(c, h) => Owns(c, h)')
<1>1. clock \subseteq Points /\ clock' \subseteq Points
  BY DEF TypeOK, Points
<1>2. ASSUME d \notin ring, Owns(c, h)' PROVE Owns(c, h)
  <2>1. \A p \in clock : p.id # d
    BY <1>2 DEF TypeOK
  <2>2. PICK p \in clock' : p.id = c /\ FirstFrom(p, h)'
    BY <1>2 DEF Owns
  <2>3. p \in clock /\ \A q \in clock : q \in clock' /\ (Precedes(p, q) <=> Precedes(p, q)')
    BY <1>1, <2>1, <2>2 DEF OthersStay
  <2>4. FirstFrom(p, h)
    BY <2>2, <2>3 DEF FirstFrom
  <2> QED
    BY <2>2, <2>3, <2>4 DEF Owns
<1>3. ASSUME d \notin ring', Owns(c, h) PROVE Owns(c, h)'
  <2>1. \A p \in clock' : p.id # d
    BY <1>3 DEF TypeOK
  <2>2. PICK p \in clock : p.id = c /\ FirstFrom(p, h)
    BY <1>3 DEF Owns
  <2>3. p \in clock' /\ \A q \in clock' : q \in clock /\ (Precedes(p, q) <=> Precedes(p, q)')
    BY <1>1, <2>1, <2>2 DEF OthersStay
  <2>4. FirstFrom(p, h)'
    BY <2>2, <2>3 DEF FirstFrom
  <2> QED
    BY <2>2, <2>3, <2>4 DEF Owns
<1> QED
  BY <1>2, <1>3

\* No key goes from one of the others to another of them: the points of both
\* are there before and after, in the same order.
LEMMA NoKeyBetweenOthers ==
    ASSUME TypeOK, TypeOK', OrderIsStrict, NEW d \in Ids, OthersStay(d), NEW h \in Hashes,
           NEW c \in Ids \ {d}, NEW e \in Ids \ {d}, Owns(c, h), Owns(e, h)'
    PROVE  c = e
<1>1. clock \subseteq Points /\ clock' \subseteq Points
  BY DEF TypeOK, Points
<1>2. PICK p \in clock : p.id = c /\ FirstFrom(p, h)
  BY DEF Owns
<1>3. PICK q \in clock' : q.id = e /\ FirstFrom(q, h)'
  BY DEF Owns
<1>4. p \in clock' /\ q \in clock
  BY <1>1, <1>2, <1>3 DEF OthersStay
<1>5. p \in Points /\ q \in Points /\ p.hash \in Int /\ q.hash \in Int /\ h \in Int
  BY <1>1, <1>2, <1>3, HashesAssumption DEF Points
<1>6. Precedes(p, q) /\ Precedes(q, p)'
  BY <1>2, <1>3, <1>4, <1>5 DEF FirstFrom
<1>7. Precedes(q, p)
  BY <1>2, <1>3, <1>5, <1>6 DEF OthersStay
<1> QED
  BY <1>2, <1>3, <1>5, <1>6, <1>7, PrecedesIsAntisymmetric

\* The step of OnlyAffectedKeysMove.
KeysMoveAsTheyShould ==
    \A d \in Ids : nodeMap'[d] # nodeMap[d] =>
        \A h \in Hashes : \A c \in Ids \ {d} :
            /\ d \notin ring => (Owns(c, h)' => Owns(c, h))
            /\ d \notin ring' => (Owns(c, h) => Owns(c, h)')
            /\ \A e \in Ids \ {d} : Owns(c, h) /\ Owns(e, h)' => c = e

LEMMA StepMovesKeys ==
    ASSUME TypeOK, TypeOK', OrderIsStrict, [Next]_vars
    PROVE  KeysMoveAsTheyShould
<1>1. ASSUME NEW d \in Ids, nodeMap'[d] # nodeMap[d]
      PROVE  OthersStay(d)
  <2>1. ASSUME NEW n \in Nodes, AddNode(n) PROVE OthersStay(d)
    <3>1. d = n.id
      BY <1>1, <2>1 DEF AddNode, TypeOK
    <3> QED
      BY <2>1, <3>1, AddLeavesOthers DEF AddNode
  <2>2. ASSUME NEW n \in Nodes, AddRefused(n) PROVE OthersStay(d)
    BY <2>2, OrderStays DEF AddRefused, OthersStay
  <2>3. ASSUME NEW c \in Ids, RemoveNode(c) PROVE OthersStay(d)
    <3>1. d = c
      BY <1>1, <2>3 DEF RemoveNode, TypeOK
    <3> QED
      BY <2>3, <3>1, RemoveLeavesOthers DEF RemoveNode
  <2>4. ASSUME NEW x \in Inputs, GetNodesByKey(x) PROVE FALSE
    BY <1>1, <2>4 DEF GetNodesByKey
  <2>5. CASE UNCHANGED vars
    BY <1>1, <2>5 DEF vars
  <2> QED
    BY <2>1, <2>2, <2>3, <2>4, <2>5 DEF Next
<1> QED
  BY <1>1, OthersKeepKeys, NoKeyBetweenOthers DEF KeysMoveAsTheyShould

\* A node that joins takes keys only, one that leaves gives up only its own,
\* and no change of one node moves a key between two others.
THEOREM KeysMoveOnlyWithTheirNode == Spec => OnlyAffectedKeysMove
<1>1. Init => OrderIsStrict
  BY DEF Init, OrderIsStrict
<1>2. TypeOK /\ TypeOK' /\ OrderIsStrict /\ [Next]_vars => KeysMoveAsTheyShould
  BY StepMovesKeys
<1> QED
  BY <1>1, <1>2, InitTypeOK, NextTypeOK, NextOrderIsStrict, PTL
     DEF Spec, OnlyAffectedKeysMove, KeysMoveAsTheyShould

-----------------------------------------------------------------------------
\* The cache

LEMMA NextCacheFresh == TypeOK /\ CacheFresh /\ [Next]_vars => CacheFresh'
<1> SUFFICES ASSUME TypeOK, CacheFresh, [Next]_vars PROVE CacheFresh'
  OBVIOUS
<1>1. ASSUME CacheCleared PROVE CacheFresh'
  BY <1>1 DEF CacheFresh, CacheCleared, Cached
<1>2. ASSUME NEW n \in Nodes, AddRefused(n) PROVE CacheFresh'
  <2> SUFFICES ASSUME NEW x \in Cached'
               PROVE  \E c \in ring' : Owns(c, InputHash[x])' /\ cache'[x] = nodeMap'[c]
    BY DEF CacheFresh
  <2>1. PICK c \in ring : Owns(c, InputHash[x]) /\ cache[x] = nodeMap[c]
    BY <1>2 DEF CacheFresh, Cached, AddRefused
  <2>2. nodeMap'[c] = nodeMap[c]
    BY <1>2, <2>1 DEF AddRefused, TypeOK
  <2>3. Owns(c, InputHash[x])'
    BY <1>2, <2>1 DEF AddRefused, Owns, FirstFrom, Precedes
  <2> QED
    BY <1>2, <2>1, <2>2, <2>3 DEF AddRefused
<1>3. ASSUME NEW x \in Inputs, GetNodesByKey(x) PROVE CacheFresh'
  <2> SUFFICES ASSUME NEW y \in Cached'
               PROVE  \E c \in ring' : Owns(c, InputHash[y])' /\ cache'[y] = nodeMap'[c]
    BY DEF CacheFresh
  <2>1. PICK d \in ring :
           /\ Owns(d, InputHash[x])
           /\ cache' = [z \in Inputs |-> IF z = x THEN nodeMap[d]
                                         ELSE IF Cardinality(Cached) >= CacheMax THEN None
                                         ELSE cache[z]]
    BY <1>3 DEF GetNodesByKey
  <2>2. y \in Inputs /\ cache'[y] # None
    BY DEF Cached
  <2>3. \E c \in ring : Owns(c, InputHash[y]) /\ cache'[y] = nodeMap[c]
    <3>1. CASE y = x
      BY <2>1, <2>2, <3>1
    <3>2. CASE y # x
      <4>1. cache'[y] = cache[y]
        BY <2>1, <2>2, <3>2
      <4> QED
        BY <2>2, <4>1 DEF CacheFresh, Cached
    <3> QED
      BY <3>1, <3>2
  <2>4. \A c : Owns(c, InputHash[y]) => Owns(c, InputHash[y])'
    BY <1>3 DEF GetNodesByKey, Owns, FirstFrom, Precedes
  <2> QED
    BY <1>3, <2>3, <2>4 DEF GetNodesByKey
<1>4. CASE UNCHANGED vars
  BY <1>4 DEF CacheFresh, Cached, Owns, FirstFrom, Precedes, vars
<1> QED
  BY <1>1, <1>2, <1>3, <1>4 DEF Next, AddNode, RemoveNode

\* What the cache answers is what a fresh lookup would find.
THEOREM CacheIsFresh == Spec => []CacheFresh
<1>1. Init => CacheFresh
  BY DEF Init, CacheFresh, Cached
<1> QED
  BY <1>1, InitTypeOK, NextTypeOK, NextCacheFresh, PTL DEF Spec

-----------------------------------------------------------------------------
\* Induction: a set of numbers that is not empty has a least one.
LEMMA Least ==
    ASSUME NEW T, T \subseteq Nat, NEW n \in T
    PROVE  \E m \in T : \A k \in T : m <= k
<1> DEFINE S == 0 .. n
           C == {0 .. k : k \in {m \in 0 .. n : m \in T}}
<1>1. IsFiniteSet(S)
  BY FS_Interval
<1>2. C \subseteq FiniteSubsetsOf(S) /\ C # {}
  BY <1>1, FS_FiniteSubsetsOfFinite
<1>3. IsWellFoundedOn(StrictSubsetOrdering(S), FiniteSubsetsOf(S))
  BY FS_StrictSubsetOrderingWellFounded
<1> HIDE DEF C
<1>4. \E x \in C : \A y \in C : ~ (<<y, x>> \in StrictSubsetOrdering(S))
  BY <1>2, <1>3, WFMin
<1>5. PICK x \in C : \A y \in C : ~ (<<y, x>> \in StrictSubsetOrdering(S))
  BY <1>4
<1>6. PICK m \in 0 .. n : m \in T /\ x = 0 .. m
  BY DEF C
<1>7. ASSUME NEW k \in T, k < m PROVE FALSE
  <2>1. 0 .. k \in C
    BY <1>7 DEF C
  <2>2. 0 .. k \subseteq 0 .. m /\ 0 .. k # 0 .. m /\ 0 .. m \subseteq S
    BY <1>7
  <2> QED
    BY <1>5, <1>6, <2>1, <2>2 DEF StrictSubsetOrdering
<1> QED
  BY <1>6, <1>7

-----------------------------------------------------------------------------
\* The binary search

\* The search reads hashes that do not fall.
Rising(a) ==
    /\ a \in Seq(Points)
    /\ \A i, j \in 1 .. Len(a) : i <= j => a[i].hash <= a[j].hash

\* k points are before h.
Splits(a, h, k) ==
    /\ k \in 0 .. Len(a)
    /\ \A i \in 1 .. Len(a) : IF i <= k THEN a[i].hash < h ELSE a[i].hash >= h

LEMMA RisingTypes ==
    ASSUME NEW a, Rising(a)
    PROVE  /\ Len(a) \in Nat
           /\ \A i \in 1 .. Len(a) : a[i] \in Points /\ a[i].hash \in Int
<1>1. a \in Seq(Points) /\ Len(a) \in Nat
  BY DEF Rising
<1>2. \A i \in 1 .. Len(a) : a[i] \in Points
  BY <1>1
<1> QED
  BY <1>1, <1>2, HashesAssumption DEF Points

LEMMA SplitExists ==
    ASSUME NEW a, Rising(a), NEW h \in Int
    PROVE  \E k : Splits(a, h, k)
<1>1. Len(a) \in Nat /\ \A i \in 1 .. Len(a) : a[i].hash \in Int
  BY RisingTypes
<1> DEFINE N == Len(a)
           T == {k \in 0 .. N : k = N \/ a[k + 1].hash >= h}
<1>2. T \subseteq Nat /\ N \in T
  BY <1>1
<1>3. PICK k \in T : \A j \in T : k <= j
  <2> HIDE DEF T
  <2> QED
    BY <1>2, Least
<1>4. ASSUME NEW i \in 1 .. N, i <= k PROVE a[i].hash < h
  <2>1. i - 1 \in 0 .. N /\ i - 1 < k /\ i - 1 # N /\ (i - 1) + 1 = i
    BY <1>1, <1>4
  <2>2. i - 1 \notin T
    <3> HIDE DEF T
    <3> QED
      BY <1>1, <1>2, <1>3, <2>1
  <2> QED
    BY <1>1, <2>1, <2>2
<1>5. ASSUME NEW i \in 1 .. N, ~ (i <= k) PROVE a[i].hash >= h
  <2>1. k + 1 \in 1 .. N /\ k # N /\ k + 1 <= i
    BY <1>1, <1>5
  <2>2. a[k + 1].hash >= h /\ a[k + 1].hash <= a[i].hash
    BY <2>1 DEF Rising
  <2> QED
    BY <1>1, <2>1, <2>2
<1> QED
  BY <1>1, <1>4, <1>5 DEF Splits

\* The ranges the search may have, the loop on them, and its result: where h is
\* split off, or the end of the range next to it.
Ranges(n) == (0 .. n) \X (-1 .. n - 1)

Middle(r) == (r[1] + r[2]) \div 2

IsLoop(f, a, h) ==
    f = [r \in Ranges(Len(a)) |->
            IF r[1] > r[2] THEN r[1]
            ELSE IF a[Middle(r) + 1].hash >= h THEN f[<<r[1], Middle(r) - 1>>]
            ELSE f[<<Middle(r) + 1, r[2]>>]]

Loop(a, h) == CHOOSE f : IsLoop(f, a, h)

LEMMA SearchIsLoop ==
    ASSUME NEW a, NEW h
    PROVE  Search(a, h) = Loop(a, h)[<<0, Len(a) - 1>>]
BY DEF Search, Loop, IsLoop, Ranges, Middle

Result(k, lo, hi) ==
    IF lo > hi \/ k < lo THEN lo ELSE IF k > hi + 1 THEN hi + 1 ELSE k

LEMMA Halves ==
    ASSUME NEW n \in Nat, NEW lo \in 0 .. n, NEW hi \in -1 .. n - 1, lo <= hi
    PROVE  LET mid == (lo + hi) \div 2 IN
           /\ mid \in lo .. hi /\ mid + 1 \in 1 .. n
           /\ mid - 1 \in -1 .. n - 1 /\ mid + 1 \in 0 .. n
OBVIOUS

LEMMA ResultStays ==
    ASSUME NEW k \in Int, NEW lo \in Int, NEW hi \in Int, NEW mid \in lo .. hi
    PROVE  Result(k, lo, hi) = IF k <= mid THEN Result(k, lo, mid - 1) ELSE Result(k, mid + 1, hi)
<1>1. CASE k <= mid
  <2>1. CASE k < lo
    BY <1>1, <2>1 DEF Result
  <2>2. CASE k >= lo /\ lo <= mid - 1
    BY <1>1, <2>2 DEF Result
  <2>3. CASE k >= lo /\ lo > mid - 1
    BY <1>1, <2>3 DEF Result
  <2> QED
    BY <2>1, <2>2, <2>3
<1>2. CASE k > mid
  <2>1. CASE mid + 1 <= hi
    BY <1>2, <2>1 DEF Result
  <2>2. CASE mid + 1 > hi
    BY <1>2, <2>2 DEF Result
  <2> QED
    BY <2>1, <2>2
<1> QED
  BY <1>1, <1>2

\* One round of the loop keeps the result.
LEMMA RoundKeepsResult ==
    ASSUME NEW a, NEW h \in Int, Rising(a), NEW k, Splits(a, h, k),
           NEW lo \in 0 .. Len(a), NEW hi \in -1 .. Len(a) - 1, lo <= hi
    PROVE  LET mid == (lo + hi) \div 2 IN
           Result(k, lo, hi) = IF a[mid + 1].hash >= h THEN Result(k, lo, mid - 1)
                               ELSE Result(k, mid + 1, hi)
<1> DEFINE mid == (lo + hi) \div 2
<1>1. Len(a) \in Nat /\ \A i \in 1 .. Len(a) : a[i].hash \in Int
  BY RisingTypes
<1>2. /\ mid \in lo .. hi /\ mid + 1 \in 1 .. Len(a)
      /\ mid - 1 \in -1 .. Len(a) - 1 /\ mid + 1 \in 0 .. Len(a)
  BY <1>1, Halves
<1> HIDE DEF mid
<1>3. k \in 0 .. Len(a) /\ (a[mid + 1].hash >= h <=> k <= mid)
  BY <1>1, <1>2, SMTT(30) DEF Splits
<1>4. k \in Int /\ lo \in Int /\ hi \in Int
  BY <1>1, <1>3
<1>5. Result(k, lo, hi) = IF k <= mid THEN Result(k, lo, mid - 1) ELSE Result(k, mid + 1, hi)
  BY <1>2, <1>4, ResultStays
<1> QED
  BY <1>3, <1>5 DEF mid

LEMMA LoopExists ==
    ASSUME NEW a, NEW h \in Int, Rising(a)
    PROVE  IsLoop(Loop(a, h), a, h)
<1>1. PICK k : Splits(a, h, k)
  BY SplitExists
<1>2. Len(a) \in Nat
  BY RisingTypes
<1> DEFINE D == Ranges(Len(a))
           g == [r \in D |-> Result(k, r[1], r[2])]
<1>3. ASSUME NEW r \in D
      PROVE  g[r] = IF r[1] > r[2] THEN r[1]
                    ELSE IF a[Middle(r) + 1].hash >= h THEN g[<<r[1], Middle(r) - 1>>]
                    ELSE g[<<Middle(r) + 1, r[2]>>]
  <2>1. PICK lo \in 0 .. Len(a), hi \in -1 .. Len(a) - 1 : r = <<lo, hi>>
    BY DEF Ranges
  <2>2. g[r] = Result(k, lo, hi) /\ r[1] = lo /\ r[2] = hi
    BY <2>1
  <2>3. CASE lo > hi
    BY <2>2, <2>3 DEF Result
  <2>4. CASE ~ (lo > hi)
    <3>1. lo <= hi
      BY <1>2, <2>4
    <3> DEFINE mid == (lo + hi) \div 2
    <3>2. mid - 1 \in -1 .. Len(a) - 1 /\ mid + 1 \in 0 .. Len(a)
      BY <1>2, <3>1, Halves
    <3>3. Middle(r) = mid
      BY <2>2 DEF Middle
    <3>4. Result(k, lo, hi) = IF a[mid + 1].hash >= h THEN Result(k, lo, mid - 1)
                              ELSE Result(k, mid + 1, hi)
      BY <1>1, <3>1, RoundKeepsResult
    <3> HIDE DEF mid
    <3>5. <<lo, mid - 1>> \in D /\ <<mid + 1, hi>> \in D
      BY <3>2 DEF Ranges
    <3>6. g[<<lo, mid - 1>>] = Result(k, lo, mid - 1) /\ g[<<mid + 1, hi>>] = Result(k, mid + 1, hi)
      BY <3>5
    <3> HIDE DEF g
    <3> QED
      BY <2>2, <2>4, <3>3, <3>4, <3>6
  <2> QED
    BY <2>3, <2>4
<1>4. IsLoop(g, a, h)
  <2> DEFINE e(r) == IF r[1] > r[2] THEN r[1]
                     ELSE IF a[Middle(r) + 1].hash >= h THEN g[<<r[1], Middle(r) - 1>>]
                     ELSE g[<<Middle(r) + 1, r[2]>>]
  <2>1. g = [r \in D |-> g[r]]
    OBVIOUS
  <2>2. \A r \in D : g[r] = e(r)
    BY <1>3
  <2> HIDE DEF g, e
  <2>3. g = [r \in D |-> e(r)]
    BY <2>1, <2>2
  <2> QED
    BY <2>3 DEF IsLoop, e
<1> HIDE DEF g
<1> QED
  BY <1>4 DEF Loop

\* The loop is what its equation says, on every range.
LEMMA LoopIs ==
    ASSUME NEW a, NEW h \in Int, Rising(a), NEW k, Splits(a, h, k),
           NEW lo \in 0 .. Len(a), NEW hi \in -1 .. Len(a) - 1
    PROVE  Loop(a, h)[<<lo, hi>>] = Result(k, lo, hi)
<1> DEFINE f == Loop(a, h)
           n == Len(a)
           Wrong == {m \in Nat : \E x \in 0 .. n, y \in -1 .. n - 1 :
                        (m = IF x > y THEN 0 ELSE y - x + 1) /\ f[<<x, y>>] # Result(k, x, y)}
<1>1. n \in Nat
  BY RisingTypes
<1>2. ASSUME NEW x \in 0 .. n, NEW y \in -1 .. n - 1
      PROVE  f[<<x, y>>] = IF x > y THEN x
                           ELSE IF a[((x + y) \div 2) + 1].hash >= h THEN f[<<x, ((x + y) \div 2) - 1>>]
                           ELSE f[<<((x + y) \div 2) + 1, y>>]
  <2>1. IsLoop(f, a, h)
    BY LoopExists
  <2>2. <<x, y>> \in Ranges(Len(a))
    BY <1>2 DEF Ranges
  <2> HIDE DEF f
  <2> QED
    BY <2>1, <2>2 DEF IsLoop, Middle
<1> HIDE DEF f
<1>3. SUFFICES ASSUME Wrong # {} PROVE FALSE
  <2>1. (IF lo > hi THEN 0 ELSE hi - lo + 1) \in Nat
    BY <1>1
  <2>2. (IF lo > hi THEN 0 ELSE hi - lo + 1) \notin Wrong
    BY <1>3
  <2> QED
    BY <2>1, <2>2 DEF f
<1>4. PICK m \in Wrong : \A j \in Wrong : m <= j
  <2>1. Wrong \subseteq Nat
    OBVIOUS
  <2> HIDE DEF Wrong
  <2> QED
    BY <1>3, <2>1, Least
<1>5. PICK x \in 0 .. n, y \in -1 .. n - 1 :
         (m = IF x > y THEN 0 ELSE y - x + 1) /\ f[<<x, y>>] # Result(k, x, y)
  BY <1>4
<1>6. x <= y /\ m = y - x + 1
  <2>1. x \in Int /\ y \in Int
    BY <1>1
  <2>2. ~ (x > y)
    BY <1>2, <1>5 DEF Result
  <2> QED
    BY <1>5, <2>1, <2>2
<1> DEFINE mid == (x + y) \div 2
<1>7. /\ mid \in x .. y /\ mid + 1 \in 1 .. n
      /\ mid - 1 \in -1 .. n - 1 /\ mid + 1 \in 0 .. n
  BY <1>1, <1>6, Halves
<1>8. Result(k, x, y) = IF a[mid + 1].hash >= h THEN Result(k, x, mid - 1) ELSE Result(k, mid + 1, y)
  BY <1>6, RoundKeepsResult
<1>9. f[<<x, y>>] = IF a[mid + 1].hash >= h THEN f[<<x, mid - 1>>] ELSE f[<<mid + 1, y>>]
  <2>1. ~ (x > y)
    BY <1>1, <1>6
  <2> QED
    BY <1>2, <2>1
<1> HIDE DEF mid
<1>10. f[<<x, mid - 1>>] = Result(k, x, mid - 1)
  <2> DEFINE j == IF x > mid - 1 THEN 0 ELSE (mid - 1) - x + 1
  <2>1. j \in Nat /\ j < m
    BY <1>1, <1>6, <1>7
  <2>2. j \notin Wrong
    <3> HIDE DEF j, Wrong
    <3>1. m \in Nat
      BY <1>1, <1>6
    <3> QED
      BY <1>4, <2>1, <3>1
  <2> QED
    BY <1>7, <2>1, <2>2
<1>11. f[<<mid + 1, y>>] = Result(k, mid + 1, y)
  <2> DEFINE j == IF mid + 1 > y THEN 0 ELSE y - (mid + 1) + 1
  <2>1. j \in Nat /\ j < m
    BY <1>1, <1>6, <1>7
  <2>2. j \notin Wrong
    <3> HIDE DEF j, Wrong
    <3>1. m \in Nat
      BY <1>1, <1>6
    <3> QED
      BY <1>4, <2>1, <3>1
  <2> QED
    BY <1>7, <2>1, <2>2
<1> QED
  BY <1>5, <1>8, <1>9, <1>10, <1>11

\* The search returns how many points are before h.
LEMMA SearchSplits ==
    ASSUME NEW a, NEW h \in Int, Rising(a)
    PROVE  Splits(a, h, Search(a, h))
<1>1. PICK k : Splits(a, h, k)
  BY SplitExists
<1>2. Len(a) \in Nat /\ k \in 0 .. Len(a)
  BY <1>1, RisingTypes DEF Splits
<1>3. 0 \in 0 .. Len(a) /\ Len(a) - 1 \in -1 .. Len(a) - 1
  BY <1>2
<1>4. Loop(a, h)[<<0, Len(a) - 1>>] = Result(k, 0, Len(a) - 1)
  BY <1>1, <1>3, LoopIs
<1>5. Result(k, 0, Len(a) - 1) = k
  BY <1>2 DEF Result
<1> QED
  BY <1>1, <1>4, <1>5, SearchIsLoop

-----------------------------------------------------------------------------
\* Members of a finite set in order

\* R puts the members of S in a line.
Orders(R, S) ==
    /\ \A p, q \in S : <<p, q>> \in R \/ <<q, p>> \in R
    /\ \A p, q \in S : <<p, q>> \in R /\ <<q, p>> \in R => p = q
    /\ \A p, q, r \in S : <<p, q>> \in R /\ <<q, r>> \in R => <<p, r>> \in R

UpTo(p, S, R) == {q \in S : <<q, p>> \in R}

\* At place i stands a member that i members do not follow, if there is one.
Ranks(a, S, R) ==
    /\ a = [i \in 1 .. Cardinality(S) |-> a[i]]
    /\ \A i \in 1 .. Cardinality(S) :
          (\E p \in S : Cardinality(UpTo(p, S, R)) = i) =>
              a[i] \in S /\ Cardinality(UpTo(a[i], S, R)) = i

\* a has all members, each once, in the order R.
Lists(a, S, R) ==
    /\ Cardinality(S) \in Nat
    /\ a \in [1 .. Cardinality(S) -> S]
    /\ \A p \in S : \E i \in 1 .. Cardinality(S) : a[i] = p
    /\ \A i, j \in 1 .. Cardinality(S) : <<a[i], a[j]>> \in R <=> i <= j

\* Different numbers of members precede different members.
LEMMA RanksDiffer ==
    ASSUME NEW S, NEW R, IsFiniteSet(S), Orders(R, S), NEW p \in S, NEW q \in S,
           <<p, q>> \in R, p # q
    PROVE  Cardinality(UpTo(p, S, R)) < Cardinality(UpTo(q, S, R))
<1>1. UpTo(p, S, R) \subseteq UpTo(q, S, R)
  BY DEF UpTo, Orders
<1>2. q \in UpTo(q, S, R) /\ q \notin UpTo(p, S, R)
  BY DEF UpTo, Orders
<1>3. IsFiniteSet(UpTo(q, S, R))
  BY FS_Subset DEF UpTo
<1>4. UpTo(p, S, R) # UpTo(q, S, R)
  BY <1>2
<1>5. /\ Cardinality(UpTo(p, S, R)) <= Cardinality(UpTo(q, S, R))
      /\ Cardinality(UpTo(p, S, R)) # Cardinality(UpTo(q, S, R))
      /\ IsFiniteSet(UpTo(p, S, R))
  BY <1>1, <1>3, <1>4, FS_Subset
<1>6. Cardinality(UpTo(p, S, R)) \in Nat /\ Cardinality(UpTo(q, S, R)) \in Nat
  BY <1>3, <1>5, FS_CardinalityType
<1> QED
  BY <1>5, <1>6

LEMMA RanksList ==
    ASSUME NEW S, NEW R, IsFiniteSet(S), Orders(R, S), NEW a, Ranks(a, S, R)
    PROVE  Lists(a, S, R)
<1> DEFINE n == Cardinality(S)
           Rank(p) == Cardinality(UpTo(p, S, R))
           f == [p \in S |-> Rank(p)]
<1>1. n \in Nat /\ IsFiniteSet(1 .. n) /\ Cardinality(1 .. n) = n
  <2>1. n \in Nat
    BY FS_CardinalityType
  <2> QED
    BY <2>1, FS_Interval
<1>2. ASSUME NEW p \in S PROVE Rank(p) \in 1 .. n
  <2>1. UpTo(p, S, R) \subseteq S /\ p \in UpTo(p, S, R)
    BY DEF UpTo, Orders
  <2>2. IsFiniteSet(UpTo(p, S, R)) /\ Rank(p) <= n
    BY <2>1, FS_Subset
  <2>3. Rank(p) \in Nat /\ Rank(p) # 0
    BY <2>1, <2>2, FS_CardinalityType, FS_EmptySet
  <2> QED
    BY <1>1, <2>2, <2>3
<1>3. ASSUME NEW p \in S, NEW q \in S, p # q
      PROVE  IF <<p, q>> \in R THEN Rank(p) < Rank(q) ELSE Rank(q) < Rank(p)
  BY <1>3, RanksDiffer DEF Orders
<1>9. ASSUME NEW p \in S, NEW q \in S, p # q PROVE Rank(p) # Rank(q)
  <2>1. Rank(p) \in Nat /\ Rank(q) \in Nat
    BY <1>1, <1>2
  <2> HIDE DEF Rank
  <2>2. Rank(p) < Rank(q) \/ Rank(q) < Rank(p)
    BY <1>3, <1>9
  <2> QED
    BY <2>1, <2>2
<1> HIDE DEF Rank
<1>4. f \in Injection(S, 1 .. n)
  <2>1. f \in [S -> 1 .. n]
    BY <1>2
  <2> QED
    BY <1>9, <2>1 DEF Injection, IsInjective
<1>5. f \in Surjection(S, 1 .. n)
  <2> HIDE DEF f, n
  <2> QED
    BY <1>1, <1>4, FS_Injection DEF n
<1>6. \A i \in 1 .. n : \E p \in S : Rank(p) = i
  BY <1>5 DEF Surjection
<1>7. \A i \in 1 .. n : a[i] \in S /\ Rank(a[i]) = i
  BY <1>6 DEF Ranks, Rank
<1>8. a \in [1 .. n -> S]
  BY <1>7 DEF Ranks
<1> HIDE DEF n
<1>10. \A p \in S : \E i \in 1 .. n : a[i] = p
  BY <1>2, <1>7, <1>9
<1>11. ASSUME NEW i \in 1 .. n, NEW j \in 1 .. n PROVE <<a[i], a[j]>> \in R <=> i <= j
  <2>1. a[i] \in S /\ a[j] \in S /\ Rank(a[i]) = i /\ Rank(a[j]) = j /\ i \in Int /\ j \in Int
    BY <1>1, <1>7
  <2>2. CASE a[i] = a[j]
    <3>1. <<a[i], a[j]>> \in R
      BY <2>1, <2>2 DEF Orders
    <3> QED
      BY <2>1, <2>2, <3>1
  <2>3. CASE a[i] # a[j]
    BY <1>3, <2>1, <2>3
  <2> QED
    BY <2>2, <2>3
<1> QED
  BY <1>1, <1>8, <1>10, <1>11 DEF Lists, n

\* A set of numbers, by size.
LEMMA PlacesList ==
    ASSUME NEW I, I \subseteq Int, IsFiniteSet(I), NEW f,
           f = [k \in 1 .. Cardinality(I) |-> CHOOSE i \in I : Cardinality({j \in I : j <= i}) = k]
    PROVE  Lists(f, I, {e \in I \X I : e[1] <= e[2]})
<1> DEFINE R == {e \in I \X I : e[1] <= e[2]}
<1>1. Orders(R, I)
  BY DEF Orders
<1>2. \A i \in I : {j \in I : j <= i} = UpTo(i, I, R)
  BY DEF UpTo
<1>3. f = [k \in 1 .. Cardinality(I) |-> f[k]]
  <2> DEFINE F(k) == CHOOSE i \in I : Cardinality({j \in I : j <= i}) = k
  <2>1. f = [k \in 1 .. Cardinality(I) |-> F(k)]
    OBVIOUS
  <2> HIDE DEF F
  <2> QED
    BY <2>1
<1>4. ASSUME NEW k \in 1 .. Cardinality(I), NEW i \in I, Cardinality(UpTo(i, I, R)) = k
      PROVE  f[k] \in I /\ Cardinality(UpTo(f[k], I, R)) = k
  <2>1. Cardinality({j \in I : j <= i}) = k
    BY <1>2, <1>4
  <2>2. f[k] \in I /\ Cardinality({j \in I : j <= f[k]}) = k
    BY <2>1
  <2> QED
    BY <1>2, <2>2
<1> HIDE DEF R
<1>5. Ranks(f, I, R)
  BY <1>3, <1>4 DEF Ranks
<1>6. Lists(f, I, R)
  BY <1>1, <1>5, RanksList
<1> QED
  BY <1>6 DEF R

-----------------------------------------------------------------------------
\* The array is the clock in order

\* Nodes of the ring were added one after the other, and their points can be
\* counted: without either there is no array.
RingInOrder ==
    /\ IsFiniteSet(clock)
    /\ \A c, d \in ring : c = d \/ <<c, d>> \in before \/ <<d, c>> \in before
    /\ \A c, d, e \in Ids : <<c, d>> \in before /\ <<d, e>> \in before => <<c, e>> \in before

\* Nodes of the ring are nodes of the provider.
RingIsMapped == \A c \in ring : nodeMap[c] # None

LEMMA PointsAreFinite ==
    ASSUME NEW n \in Nodes
    PROVE  IsFiniteSet(PointsOf(n.id, n.weight))
<1> DEFINE I == 1 .. Round(n.weight)
           P == PointsOf(n.id, n.weight)
           f == [i \in I |-> [hash |-> hash[n.id][i], id |-> n.id]]
<1>1. n.weight \in Weights
  BY DEF Nodes
<1>2. IsFiniteSet(I)
  BY <1>1, RoundIsBounded, FS_Interval
<1>3. f \in Surjection(I, P)
  BY DEF Surjection, PointsOf
<1> HIDE DEF f, I, P
<1>4. IsFiniteSet(P)
  BY <1>2, <1>3, FS_Surjection
<1> QED
  BY <1>4 DEF P

LEMMA NextRingInOrder ==
    TypeOK /\ OrderIsStrict /\ RingInOrder /\ [Next]_vars => RingInOrder'
<1> SUFFICES ASSUME TypeOK, RingInOrder, [Next]_vars PROVE RingInOrder'
  OBVIOUS
<1>1. ASSUME NEW c \in Ids, RingRemove(c) PROVE RingInOrder'
  <2>1. IsFiniteSet(clock')
    <3>1. clock' \subseteq clock
      BY <1>1 DEF RingRemove, Without
    <3> QED
      BY <3>1, FS_Subset DEF RingInOrder
  <2>2. \A d, e \in ring' : d = e \/ <<d, e>> \in before' \/ <<e, d>> \in before'
    BY <1>1 DEF RingInOrder, RingRemove, BeforeWithout
  <2>3. \A b, d, e \in Ids : <<b, d>> \in before' /\ <<d, e>> \in before' => <<b, e>> \in before'
    BY <1>1 DEF RingInOrder, RingRemove, BeforeWithout
  <2> QED
    BY <2>1, <2>2, <2>3 DEF RingInOrder
<1>2. ASSUME NEW n \in Nodes, AddNode(n) PROVE RingInOrder'
  <2>1. n.id \in Ids
    BY DEF Nodes
  <2>2. CASE n.weight = 0
    BY <1>1, <1>2, <2>1, <2>2 DEF AddNode, RingAdd
  <2>3. CASE n.weight # 0
    <3> DEFINE c == n.id
    <3>1. /\ clock' = Without(c) \cup PointsOf(c, n.weight)
          /\ before' = BeforeWithout(c) \cup {<<d, c>> : d \in ring \ {c}}
          /\ ring' = ring \cup {c}
      BY <1>2, <2>3 DEF AddNode, RingAdd
    <3>2. IsFiniteSet(clock')
      <4>1. Without(c) \subseteq clock
        BY DEF Without
      <4>2. IsFiniteSet(Without(c))
        BY <4>1, FS_Subset DEF RingInOrder
      <4> QED
        BY <3>1, <4>2, PointsAreFinite, FS_Union
    <3>3. \A d, e \in ring' : d = e \/ <<d, e>> \in before' \/ <<e, d>> \in before'
      BY <3>1 DEF RingInOrder, BeforeWithout
    <3>4. ASSUME NEW b \in Ids, NEW d \in Ids, NEW e \in Ids,
                 <<b, d>> \in before', <<d, e>> \in before'
          PROVE  <<b, e>> \in before'
      <4>1. d # c
        BY <3>1, <3>4 DEF BeforeWithout
      <4>2. <<b, d>> \in before /\ b # c
        BY <3>1, <3>4, <4>1 DEF BeforeWithout
      <4>3. CASE e = c
        <5>1. b \in ring
          BY <4>2 DEF TypeOK
        <5> QED
          BY <3>1, <4>2, <4>3, <5>1
      <4>4. CASE e # c
        <5>1. <<d, e>> \in before
          BY <3>1, <3>4, <4>4 DEF BeforeWithout
        <5>2. <<b, e>> \in before
          BY <4>2, <5>1 DEF RingInOrder
        <5> QED
          BY <3>1, <4>2, <4>4, <5>2 DEF BeforeWithout
      <4> QED
        BY <4>3, <4>4
    <3> QED
      BY <3>2, <3>3, <3>4 DEF RingInOrder
  <2> QED
    BY <2>2, <2>3
<1>3. ASSUME NEW n \in Nodes, AddRefused(n) PROVE RingInOrder'
  BY <1>3 DEF RingInOrder, AddRefused
<1>4. ASSUME NEW c \in Ids, RemoveNode(c) PROVE RingInOrder'
  BY <1>1, <1>4 DEF RemoveNode
<1>5. ASSUME NEW x \in Inputs, GetNodesByKey(x) PROVE RingInOrder'
  BY <1>5 DEF RingInOrder, GetNodesByKey
<1>6. CASE UNCHANGED vars
  BY <1>6 DEF RingInOrder, vars
<1> QED
  BY <1>2, <1>3, <1>4, <1>5, <1>6 DEF Next

LEMMA NodesAreSome ==
    ASSUME NEW n \in Nodes
    PROVE  n # None
<1>1. DOMAIN n = {"id", "weight"} /\ DOMAIN None = {"id"}
  BY DEF Nodes, None
<1> QED
  BY <1>1

LEMMA NextRingIsMapped == TypeOK /\ RingIsMapped /\ [Next]_vars => RingIsMapped'
<1> SUFFICES ASSUME TypeOK, RingIsMapped, [Next]_vars PROVE RingIsMapped'
  OBVIOUS
<1>1. ASSUME NEW n \in Nodes, AddNode(n) PROVE RingIsMapped'
  <2>1. n.id \in Ids /\ n # None
    BY NodesAreSome DEF Nodes
  <2>2. ring' \subseteq ring \cup {n.id}
    BY <1>1 DEF AddNode, RingAdd, RingRemove
  <2> QED
    BY <1>1, <2>1, <2>2 DEF RingIsMapped, AddNode, TypeOK
<1>2. ASSUME NEW n \in Nodes, AddRefused(n) PROVE RingIsMapped'
  <2>1. n.id \in Ids
    BY DEF Nodes
  <2> QED
    BY <1>2, <2>1 DEF RingIsMapped, AddRefused, TypeOK
<1>3. ASSUME NEW c \in Ids, RemoveNode(c) PROVE RingIsMapped'
  BY <1>3 DEF RingIsMapped, RemoveNode, RingRemove, TypeOK
<1>4. ASSUME NEW x \in Inputs, GetNodesByKey(x) PROVE RingIsMapped'
  BY <1>4 DEF RingIsMapped, GetNodesByKey
<1>5. CASE UNCHANGED vars
  BY <1>5 DEF RingIsMapped, vars
<1> QED
  BY <1>1, <1>2, <1>3, <1>4, <1>5 DEF Next

\* All that is known of the ring.
RingInv == TypeOK /\ OrderIsStrict /\ RingInOrder /\ RingIsMapped

LEMMA InitRingInv == Init => RingInv
<1> SUFFICES ASSUME Init PROVE RingInv
  OBVIOUS
<1>1. IsFiniteSet(clock)
  BY FS_EmptySet DEF Init
<1> QED
  BY <1>1, InitTypeOK DEF RingInv, RingInOrder, RingIsMapped, OrderIsStrict, Init

LEMMA NextRingInv == RingInv /\ [Next]_vars => RingInv'
BY NextTypeOK, NextOrderIsStrict, NextRingInOrder, NextRingIsMapped DEF RingInv

\* The order of the array of S.
PointOrder(S) == {e \in S \X S : Precedes(e[1], e[2])}

LEMMA PrecedesOrders ==
    ASSUME RingInv, NEW S, S \subseteq clock
    PROVE  Orders(PointOrder(S), S)
<1>1. \A p \in S : p \in Points /\ p.hash \in Int /\ p.id \in Ids /\ p.id \in ring
  BY HashesAssumption DEF RingInv, TypeOK, Points
<1>2. \A p, q \in S : p.hash = q.hash /\ p.id = q.id => p = q
  BY <1>1 DEF Points
<1>3. \A p, q \in S : Precedes(p, q) \/ Precedes(q, p)
  BY <1>1 DEF Precedes, RingInv, RingInOrder
<1>4. \A p, q \in S : Precedes(p, q) /\ Precedes(q, p) => p = q
  BY <1>1, <1>2, PrecedesIsAntisymmetric DEF Precedes, RingInv
<1>5. ASSUME NEW p \in S, NEW q \in S, NEW r \in S, Precedes(p, q), Precedes(q, r)
      PROVE  Precedes(p, r)
  BY <1>1, <1>5 DEF Precedes, RingInv, RingInOrder
<1>6. \A p, q \in S : <<p, q>> \in PointOrder(S) <=> Precedes(p, q)
  BY DEF PointOrder
<1> QED
  BY <1>3, <1>4, <1>5, <1>6 DEF Orders

\* a is the array of the points S.
InOrder(a, S) ==
    /\ Len(a) \in Nat
    /\ \A i \in 1 .. Len(a) : a[i] \in S
    /\ \A p \in S : \E i \in 1 .. Len(a) : a[i] = p
    /\ \A i, j \in 1 .. Len(a) : i <= j => Precedes(a[i], a[j])
    /\ \A i, j \in 1 .. Len(a) : a[i] = a[j] => i = j

LEMMA SortedInOrder ==
    ASSUME RingInv, NEW S, S \subseteq clock
    PROVE  InOrder(Sorted(S), S) /\ Rising(Sorted(S))
<1> DEFINE R == PointOrder(S)
           a == Sorted(S)
           n == Cardinality(S)
<1>1. IsFiniteSet(S)
  BY FS_Subset DEF RingInv, RingInOrder
<1>2. Ranks(a, S, R)
  <2>1. \A p \in S : {q \in S : Precedes(q, p)} = UpTo(p, S, R)
    BY DEF UpTo, PointOrder
  <2>2. a = [i \in 1 .. n |-> a[i]]
    BY DEF Sorted
  <2>3. ASSUME NEW i \in 1 .. n, NEW p \in S, Cardinality(UpTo(p, S, R)) = i
        PROVE  a[i] \in S /\ Cardinality(UpTo(a[i], S, R)) = i
    <3>1. Cardinality({q \in S : Precedes(q, p)}) = i
      BY <2>1, <2>3
    <3>2. a[i] \in S /\ Cardinality({q \in S : Precedes(q, a[i])}) = i
      BY <3>1 DEF Sorted
    <3> HIDE DEF a
    <3> QED
      BY <2>1, <3>2
  <2> HIDE DEF a, R, n
  <2> QED
    BY <2>2, <2>3 DEF Ranks, n
<1>3. Lists(a, S, R)
  <2> HIDE DEF a, R
  <2> QED
    BY <1>1, <1>2, PrecedesOrders, RanksList DEF R
<1>4. /\ n \in Nat /\ a \in [1 .. n -> S]
      /\ \A p \in S : \E i \in 1 .. n : a[i] = p
      /\ \A i, j \in 1 .. n : <<a[i], a[j]>> \in R <=> i <= j
  BY <1>3 DEF Lists
<1> HIDE DEF a
<1>5. Len(a) = n /\ a \in Seq(S)
  <2> HIDE DEF n
  <2> QED
    BY <1>4
<1>6. \A i, j \in 1 .. n : i <= j => Precedes(a[i], a[j])
  BY <1>4 DEF PointOrder
<1>7. ASSUME NEW i \in 1 .. n, NEW j \in 1 .. n, a[i] = a[j] PROVE i = j
  <2>1. <<a[i], a[i]>> \in R
    BY <1>4
  <2>2. i <= j /\ j <= i
    BY <1>4, <1>7, <2>1
  <2> QED
    BY <1>4, <2>2
<1>8. InOrder(a, S)
  BY <1>4, <1>5, <1>6, <1>7 DEF InOrder
<1>9. S \subseteq Points
  BY DEF RingInv, TypeOK
<1>10. \A i, j \in 1 .. n : i <= j => a[i].hash <= a[j].hash
  <2>1. \A p \in S : p.hash \in Int
    BY <1>9, HashesAssumption DEF Points
  <2>2. \A p, q \in S : Precedes(p, q) => p.hash <= q.hash
    BY <2>1 DEF Precedes
  <2>3. \A i \in 1 .. n : a[i] \in S
    BY <1>4
  <2> QED
    BY <1>6, <2>2, <2>3
<1>11. a \in Seq(Points)
  BY <1>4, <1>9
<1> QED
  BY <1>5, <1>8, <1>10, <1>11 DEF Rising, a

-----------------------------------------------------------------------------
\* Round the circle

\* p is the first of the points S from h on.
FirstOf(S, p, h) ==
    /\ p \in S
    /\ \/ p.hash >= h /\ \A q \in S : q.hash >= h => Precedes(p, q)
       \/ /\ \A q \in S : q.hash < h
          /\ \A q \in S : Precedes(p, q)

LEMMA FirstIsOne ==
    ASSUME RingInv, NEW S, S \subseteq clock, NEW h \in Hashes, NEW p, NEW q,
           FirstOf(S, p, h), FirstOf(S, q, h)
    PROVE  p = q
<1>1. \A x \in S : x.hash \in Int /\ x \in Points
  BY HashesAssumption DEF RingInv, TypeOK, Points
<1>2. p \in S /\ q \in S /\ h \in Int
  BY HashesAssumption DEF FirstOf
<1>3. Precedes(p, q) /\ Precedes(q, p)
  BY <1>1, <1>2 DEF FirstOf
<1>4. <<p, q>> \in PointOrder(S) /\ <<q, p>> \in PointOrder(S)
  BY <1>2, <1>3 DEF PointOrder
<1> QED
  BY <1>2, <1>4, PrecedesOrders DEF Orders

\* The place k steps after place s of n, counted from 1.
Place(s, k, n) == IF s + k < n THEN s + k + 1 ELSE s + k - n + 1

LEMMA Remainder ==
    ASSUME NEW n \in Nat, NEW s \in 0 .. n, NEW k \in 0 .. n - 1
    PROVE  ((s + k) % n) + 1 = Place(s, k, n) /\ Place(s, k, n) \in 1 .. n
<1>1. n > 0 /\ s + k \in 0 .. 2 * n - 1
  OBVIOUS
<1>2. CASE s + k < n
  BY <1>1, <1>2 DEF Place
<1>3. CASE s + k >= n
  BY <1>1, <1>3 DEF Place
<1> QED
  BY <1>2, <1>3

\* The k-th point from h on; k counts from 0.
At(h, k) == LET a == Sorted(clock) IN a[Place(Search(a, h), k, Len(a))]

LEMMA CircleMeetsAll ==
    ASSUME RingInv, NEW h \in Hashes
    PROVE  LET n == Len(Sorted(clock)) IN
           /\ n \in Nat
           /\ Search(Sorted(clock), h) \in 0 .. n
           /\ \A k \in 0 .. n - 1 : At(h, k) \in clock
           /\ \A p \in clock : \E k \in 0 .. n - 1 : At(h, k) = p
<1> DEFINE a == Sorted(clock)
           n == Len(a)
           s == Search(a, h)
<1>1. InOrder(a, clock) /\ Rising(a) /\ h \in Int
  BY SortedInOrder, HashesAssumption
<1>2. Splits(a, h, s)
  <2> HIDE DEF a
  <2> QED
    BY <1>1, SearchSplits
<1> HIDE DEF a, s
<1>3. n \in Nat /\ s \in 0 .. n
  BY <1>1, <1>2 DEF InOrder, Splits
<1>4. ASSUME NEW k \in 0 .. n - 1 PROVE At(h, k) \in clock
  <2>1. Place(s, k, n) \in 1 .. n
    BY <1>3, Remainder
  <2> QED
    BY <1>1, <2>1 DEF At, InOrder, a, s
<1>5. ASSUME NEW p \in clock PROVE \E k \in 0 .. n - 1 : At(h, k) = p
  <2>1. PICK i \in 1 .. n : a[i] = p
    BY <1>1 DEF InOrder
  <2> DEFINE k == IF i > s THEN i - 1 - s ELSE i - 1 - s + n
  <2>2. k \in 0 .. n - 1 /\ Place(s, k, n) = i
    BY <1>3, <2>1 DEF Place
  <2> HIDE DEF k
  <2>3. At(h, k) = p
    BY <2>1, <2>2 DEF At, a, s
  <2> QED
    BY <2>2, <2>3
<1> QED
  BY <1>3, <1>4, <1>5 DEF a, s

\* The first point of S that the circle meets is its first from h on.
LEMMA FirstMet ==
    ASSUME RingInv, NEW h \in Hashes, NEW S, S \subseteq clock,
           NEW k \in 0 .. Len(Sorted(clock)) - 1, At(h, k) \in S,
           \A j \in 0 .. k - 1 : At(h, j) \notin S
    PROVE  FirstOf(S, At(h, k), h)
<1> DEFINE a == Sorted(clock)
           n == Len(a)
           s == Search(a, h)
<1>1. InOrder(a, clock) /\ Rising(a) /\ h \in Int
  BY SortedInOrder, HashesAssumption
<1>2. Splits(a, h, s)
  <2> HIDE DEF a
  <2> QED
    BY <1>1, SearchSplits
<1>3. k \in 0 .. n - 1
  OBVIOUS
<1>4. At(h, k) = a[Place(s, k, n)] /\ \A j \in 0 .. k - 1 : At(h, j) = a[Place(s, j, n)]
  BY DEF At
<1> HIDE DEF a, s
<1>5. n \in Nat /\ s \in 0 .. n
  BY <1>1, <1>2 DEF InOrder, Splits
<1>6. \A q \in S : q.hash \in Int
  BY HashesAssumption DEF RingInv, TypeOK, Points
<1> DEFINE m == Place(s, k, n)
           p == a[m]
<1>7. m \in 1 .. n /\ p \in S
  BY <1>3, <1>4, <1>5, Remainder
\* Members of S stand at k or later.
<1>8. ASSUME NEW q \in S
      PROVE  \E j \in k .. n - 1 : q = a[Place(s, j, n)] /\ Place(s, j, n) \in 1 .. n
  <2>1. q \in clock
    OBVIOUS
  <2>2. PICK j \in 0 .. n - 1 : At(h, j) = q
    BY <2>1, CircleMeetsAll DEF a
  <2>3. j >= k
    BY <1>3, <1>5, <1>8, <2>2
  <2>4. j \in k .. n - 1
    BY <1>3, <1>5, <2>2, <2>3
  <2>5. q = a[Place(s, j, n)] /\ Place(s, j, n) \in 1 .. n
    BY <1>5, <2>2, Remainder DEF At, a, s
  <2> QED
    BY <2>4, <2>5
<1>9. \A i \in 1 .. n : IF i <= s THEN a[i].hash < h ELSE a[i].hash >= h
  BY <1>2 DEF Splits
<1>10. \A i, j \in 1 .. n : i <= j => Precedes(a[i], a[j])
  BY <1>1 DEF InOrder
<1>11. CASE s + k < n
  <2>1. m = s + k + 1 /\ ~ (m <= s)
    BY <1>3, <1>5, <1>11 DEF Place
  <2>2. p.hash >= h
    BY <1>7, <1>9, <2>1
  <2>3. ASSUME NEW q \in S, q.hash >= h PROVE Precedes(p, q)
    <3>1. PICK j \in k .. n - 1 : q = a[Place(s, j, n)] /\ Place(s, j, n) \in 1 .. n
      BY <1>8
    <3>2. ~ (Place(s, j, n) <= s)
      BY <1>1, <1>6, <1>9, <2>3, <3>1
    <3>3. m <= Place(s, j, n)
      BY <1>3, <1>5, <2>1, <3>1, <3>2 DEF Place
    <3> HIDE DEF m
    <3> QED
      BY <1>7, <1>10, <3>1, <3>3
  <2> QED
    BY <1>4, <1>7, <2>2, <2>3 DEF FirstOf
<1>12. CASE s + k >= n
  <2>1. \A j \in k .. n - 1 : Place(s, j, n) <= s /\ m <= Place(s, j, n)
    BY <1>3, <1>5, <1>12 DEF Place
  <2>2. ASSUME NEW q \in S PROVE q.hash < h /\ Precedes(p, q)
    <3>1. PICK j \in k .. n - 1 : q = a[Place(s, j, n)] /\ Place(s, j, n) \in 1 .. n
      BY <1>8
    <3> HIDE DEF m
    <3> QED
      BY <1>7, <1>9, <1>10, <2>1, <3>1
  <2> QED
    BY <1>4, <1>7, <2>2 DEF FirstOf
<1> QED
  BY <1>3, <1>5, <1>11, <1>12

-----------------------------------------------------------------------------
\* getNode() and getNodes()

LEMMA GetNodeIsFirst ==
    ASSUME RingInv, NEW h \in Hashes, NEW S, S \subseteq clock, S # {}
    PROVE  \E p \in S : FirstOf(S, p, h) /\ GetNode(Sorted(S), h) = p.id
<1> DEFINE a == Sorted(S)
           n == Len(a)
           s == Search(a, h)
<1>1. InOrder(a, S) /\ Rising(a) /\ h \in Int
  BY SortedInOrder, HashesAssumption
<1>2. Splits(a, h, s)
  <2> HIDE DEF a
  <2> QED
    BY <1>1, SearchSplits
<1>3. GetNode(a, h) = IF s = n THEN a[1].id ELSE a[s + 1].id
  BY DEF GetNode
<1> HIDE DEF a, s
<1>4. n \in Nat /\ s \in 0 .. n /\ n # 0
  BY <1>1, <1>2 DEF InOrder, Splits
<1>5. \A i \in 1 .. n : IF i <= s THEN a[i].hash < h ELSE a[i].hash >= h
  BY <1>2 DEF Splits
<1>6. \A q \in S : q.hash \in Int
  BY HashesAssumption DEF RingInv, TypeOK, Points
<1>7. CASE s = n
  <2>1. 1 \in 1 .. n /\ a[1] \in S
    BY <1>1, <1>4 DEF InOrder
  <2>2. ASSUME NEW q \in S PROVE q.hash < h /\ Precedes(a[1], q)
    <3>1. PICK i \in 1 .. n : a[i] = q
      BY <1>1 DEF InOrder
    <3> QED
      BY <1>1, <1>4, <1>5, <1>7, <2>1, <3>1 DEF InOrder
  <2> QED
    BY <1>3, <1>7, <2>1, <2>2 DEF FirstOf, a
<1>8. CASE s # n
  <2>1. s + 1 \in 1 .. n /\ a[s + 1] \in S /\ ~ (s + 1 <= s)
    BY <1>1, <1>4, <1>8 DEF InOrder
  <2>2. ASSUME NEW q \in S, q.hash >= h PROVE Precedes(a[s + 1], q)
    <3>1. PICK i \in 1 .. n : a[i] = q
      BY <1>1 DEF InOrder
    <3>2. ~ (i <= s)
      BY <1>1, <1>5, <1>6, <2>2, <3>1
    <3>3. s + 1 <= i
      BY <1>4, <3>1, <3>2
    <3> QED
      BY <1>1, <2>1, <3>1, <3>3 DEF InOrder
  <2>3. a[s + 1].hash >= h
    BY <1>5, <2>1
  <2> QED
    BY <1>3, <1>8, <2>1, <2>2, <2>3 DEF FirstOf, a
<1> QED
  BY <1>7, <1>8

\* Where on the circle a node is met for the first time.
Meetings(h) ==
    {k \in 0 .. Len(Sorted(clock)) - 1 : \A j \in 0 .. k - 1 : At(h, j).id # At(h, k).id}

\* A node that is met is met for the first time no later.
LEMMA MetBefore ==
    ASSUME RingInv, NEW h \in Hashes, NEW k \in 0 .. Len(Sorted(clock)) - 1
    PROVE  \E j \in Meetings(h) : j <= k /\ At(h, j).id = At(h, k).id
<1> DEFINE n == Len(Sorted(clock))
           T == {j \in 0 .. k : At(h, j).id = At(h, k).id}
<1>1. k \in 0 .. n - 1 /\ n \in Nat
  BY CircleMeetsAll
<1> HIDE DEF n
<1>2. T \subseteq Nat /\ k \in T
  BY <1>1
<1>3. PICK j \in T : \A i \in T : j <= i
  <2> HIDE DEF T
  <2> QED
    BY <1>2, Least
<1>4. j \in 0 .. n - 1 /\ j <= k /\ At(h, j).id = At(h, k).id
  BY <1>1, <1>3
<1>5. ASSUME NEW i \in 0 .. j - 1 PROVE At(h, i).id # At(h, j).id
  <2>1. i \in 0 .. k /\ ~ (j <= i)
    BY <1>1, <1>4
  <2>2. i \notin T
    <3> HIDE DEF T
    <3> QED
      BY <1>3, <2>1
  <2> QED
    BY <1>4, <2>1, <2>2
<1> QED
  BY <1>4, <1>5 DEF Meetings, n

\* The nodes met, in the order of their meetings.
LEMMA DistinctIs ==
    ASSUME RingInv, NEW h \in Hashes
    PROVE  \E f : /\ Lists(f, Meetings(h), {e \in Meetings(h) \X Meetings(h) : e[1] <= e[2]})
                  /\ \A i \in 1 .. Cardinality(Meetings(h)) :
                        Distinct(Sorted(clock), Search(Sorted(clock), h))[i] = At(h, f[i]).id
<1> DEFINE a == Sorted(clock)
           n == Len(a)
           s == Search(a, h)
           F == Meetings(h)
           R == {e \in F \X F : e[1] <= e[2]}
           f == [i \in 1 .. Cardinality(F) |-> CHOOSE k \in F : Cardinality({j \in F : j <= k}) = i]
           all == Distinct(a, s)
<1>1. n \in Nat /\ s \in 0 .. n
  BY CircleMeetsAll
<1>2. \A k \in 0 .. n - 1 : a[((s + k) % n) + 1] = At(h, k)
  <2> HIDE DEF a, s
  <2>1. \A k \in 0 .. n - 1 : ((s + k) % n) + 1 = Place(s, k, n)
    BY <1>1, Remainder
  <2>2. \A k : At(h, k) = a[Place(s, k, n)]
    BY DEF At, a, s
  <2> QED
    BY <2>1, <2>2
<1>3. {k \in 0 .. n - 1 : \A j \in 0 .. k - 1 : a[((s + j) % n) + 1].id # a[((s + k) % n) + 1].id} = F
  <2> HIDE DEF a, s, n
  <2>1. \A k \in 0 .. n - 1 : \A j \in 0 .. k - 1 : j \in 0 .. n - 1
    BY <1>1
  <2> QED
    BY <1>2, <2>1 DEF Meetings, a, n
<1>4. all = [i \in 1 .. Cardinality(F) |-> a[((s + f[i]) % n) + 1].id]
  <2> DEFINE G == {k \in 0 .. n - 1 : \A j \in 0 .. k - 1 :
                      a[((s + j) % n) + 1].id # a[((s + k) % n) + 1].id}
             P(H) == [i \in 1 .. Cardinality(H) |->
                        a[((s + (CHOOSE k \in H : Cardinality({j \in H : j <= k}) = i)) % n) + 1].id]
  <2>1. all = P(G)
    BY DEF Distinct
  <2>2. P(F) = [i \in 1 .. Cardinality(F) |-> a[((s + f[i]) % n) + 1].id]
    <3> HIDE DEF a, s, n, F
    <3> QED
      OBVIOUS
  <2>3. G = F
    BY <1>3
  <2> HIDE DEF P, G, F
  <2>4. all = P(F)
    BY <2>1, <2>3
  <2> QED
    BY <2>2, <2>4
<1> HIDE DEF all
<1>5. F \subseteq 0 .. n - 1 /\ IsFiniteSet(F)
  <2>1. F \subseteq 0 .. n - 1
    BY DEF Meetings
  <2>2. IsFiniteSet(0 .. n - 1)
    BY <1>1, FS_Interval
  <2> HIDE DEF F
  <2> QED
    BY <2>1, <2>2, FS_Subset
<1>8. Lists(f, F, R)
  <2>1. F \subseteq Int
    BY <1>1, <1>5
  <2> HIDE DEF F
  <2> QED
    BY <1>5, <2>1, PlacesList
<1>9. ASSUME NEW i \in 1 .. Cardinality(F) PROVE all[i] = At(h, f[i]).id
  <2>1. f[i] \in F
    BY <1>8 DEF Lists
  <2> HIDE DEF f, F, a, s, n
  <2>2. f[i] \in 0 .. n - 1
    BY <1>5, <2>1
  <2> QED
    BY <1>2, <1>4, <2>2
<1> QED
  BY <1>8, <1>9 DEF all

\* Each node that has points is met for the first time once.
LEMMA MeetingsCount ==
    ASSUME RingInv, NEW h \in Hashes
    PROVE  /\ Cardinality(Meetings(h)) = Cardinality({p.id : p \in clock})
           /\ Cardinality(Meetings(h)) \in Nat
<1> DEFINE n == Len(Sorted(clock))
           F == Meetings(h)
           I == {p.id : p \in clock}
           g == [k \in F |-> At(h, k).id]
<1>1. n \in Nat /\ \A k \in 0 .. n - 1 : At(h, k) \in clock
  BY CircleMeetsAll
<1>2. \A p \in clock : \E k \in 0 .. n - 1 : At(h, k) = p
  BY CircleMeetsAll
<1>3. F \subseteq 0 .. n - 1 /\ \A k \in F : \A j \in 0 .. k - 1 : At(h, j).id # At(h, k).id
  BY DEF Meetings
<1>4. \A k \in 0 .. n - 1 : \E j \in F : At(h, j).id = At(h, k).id
  BY MetBefore
<1> HIDE DEF F, n
<1>5. IsFiniteSet(F)
  <2>1. IsFiniteSet(0 .. n - 1)
    BY <1>1, FS_Interval
  <2> QED
    BY <1>3, <2>1, FS_Subset
<1>6. \A j, k \in F : At(h, j).id = At(h, k).id => j = k
  <2> SUFFICES ASSUME NEW j \in F, NEW k \in F, At(h, j).id = At(h, k).id PROVE j = k
    OBVIOUS
  <2>1. j \in Nat /\ k \in Nat
    BY <1>1, <1>3
  <2>2. j \notin 0 .. k - 1 /\ k \notin 0 .. j - 1
    BY <1>3
  <2> QED
    BY <2>1, <2>2
<1>7. g \in [F -> I]
  BY <1>1, <1>3
<1>8. g \in Injection(F, I)
  BY <1>6, <1>7 DEF Injection, IsInjective
<1>9. g \in Surjection(F, I)
  <2> SUFFICES ASSUME NEW c \in I PROVE \E k \in F : g[k] = c
    BY <1>7 DEF Surjection
  <2>1. PICK p \in clock : c = p.id
    OBVIOUS
  <2>2. PICK k \in 0 .. n - 1 : At(h, k) = p
    BY <1>2
  <2>3. PICK j \in F : At(h, j).id = At(h, k).id
    BY <1>4
  <2> QED
    BY <2>1, <2>2, <2>3
<1> HIDE DEF g, I
<1>10. Cardinality(I) = Cardinality(F)
  <2>1. ExistsBijection(F, I)
    BY <1>8, <1>9 DEF ExistsBijection, Bijection
  <2> QED
    BY <1>5, <2>1, FS_Bijection
<1>11. Cardinality(F) \in Nat
  BY <1>5, FS_CardinalityType
<1> QED
  BY <1>10, <1>11 DEF F, I

LEMMA RingServes == RingInv => SearchFindsOwner
<1> SUFFICES ASSUME RingInv, clock # {}, NEW h \in Hashes
             PROVE  LET array == Sorted(clock)
                        count == Cardinality({p.id : p \in clock})
                        all   == GetNodes(array, h, count)
                    IN  /\ Owns(GetNode(array, h), h)
                        /\ nodeMap[GetNode(array, h)] # None
                        /\ \A r \in 1 .. count :
                              LET left == {p \in clock : \A j \in 1 .. r - 1 : p.id # all[j]} IN
                              GetNode(Sorted(left), h) = all[r]
  BY DEF SearchFindsOwner, Array
<1> DEFINE array == Sorted(clock)
           count == Cardinality({p.id : p \in clock})
           all   == GetNodes(array, h, count)
           F     == Meetings(h)
<1>1. PICK p \in clock : FirstOf(clock, p, h) /\ GetNode(array, h) = p.id
  <2>1. clock \subseteq clock
    OBVIOUS
  <2> QED
    BY <2>1, GetNodeIsFirst
<1>2. Owns(GetNode(array, h), h)
  BY <1>1 DEF Owns, FirstFrom, FirstOf
<1>3. nodeMap[GetNode(array, h)] # None
  BY <1>1 DEF RingInv, RingIsMapped, TypeOK
<1>4. count = Cardinality(F) /\ count \in Nat
  BY MeetingsCount
<1>5. PICK f : /\ Lists(f, F, {e \in F \X F : e[1] <= e[2]})
               /\ \A i \in 1 .. Cardinality(F) : Distinct(array, Search(array, h))[i] = At(h, f[i]).id
  BY DistinctIs
<1> HIDE DEF F
<1>6. \A i \in 1 .. count : all[i] = At(h, f[i]).id
  <2> DEFINE d == Distinct(array, Search(array, h))
  <2>1. all = SubSeq(d, 1, count)
    BY DEF GetNodes
  <2>2. \A i \in 1 .. count : d[i] = At(h, f[i]).id
    BY <1>4, <1>5
  <2> HIDE DEF d, all, count, array
  <2> QED
    BY <1>4, <2>1, <2>2
<1>7. /\ \A i \in 1 .. count : f[i] \in F
      /\ \A k \in F : \E i \in 1 .. count : f[i] = k
      /\ \A i, j \in 1 .. count : f[i] <= f[j] <=> i <= j
  <2> HIDE DEF count
  <2>1. \A i \in 1 .. count : f[i] \in F
    BY <1>4, <1>5 DEF Lists
  <2>2. \A k \in F : \E i \in 1 .. count : f[i] = k
    BY <1>4, <1>5 DEF Lists
  <2>3. \A i, j \in 1 .. count : <<f[i], f[j]>> \in {e \in F \X F : e[1] <= e[2]} <=> i <= j
    BY <1>4, <1>5 DEF Lists
  <2> QED
    BY <2>1, <2>2, <2>3
<1>8. /\ F \subseteq 0 .. Len(array) - 1 /\ Len(array) \in Nat
      /\ \A k \in F : \A j \in 0 .. k - 1 : At(h, j).id # At(h, k).id
  BY CircleMeetsAll DEF Meetings, F
<1>9. F \subseteq Nat
  <2> DEFINE N == Len(array)
  <2>1. F \subseteq 0 .. N - 1 /\ N \in Nat
    BY <1>8
  <2> HIDE DEF N
  <2> QED
    BY <2>1
<1>10. \A k \in 0 .. Len(array) - 1 : At(h, k) \in clock
  BY CircleMeetsAll
<1>11. \A k \in 0 .. Len(array) - 1 : \E j \in F : j <= k /\ At(h, j).id = At(h, k).id
  BY MetBefore DEF F
<1> HIDE DEF count, all
<1>12. ASSUME NEW r \in 1 .. count
       PROVE  GetNode(Sorted({q \in clock : \A j \in 1 .. r - 1 : q.id # all[j]}), h) = all[r]
  <2> DEFINE left == {q \in clock : \A j \in 1 .. r - 1 : q.id # all[j]}
             k    == f[r]
             N    == Len(array)
  <2>0. r \in Nat /\ r \in 1 .. count /\ \A j \in 1 .. r - 1 : j \in 1 .. count /\ ~ (r <= j)
    BY <1>4, <1>12
  <2>1. k \in F /\ k \in 0 .. N - 1 /\ N \in Nat /\ At(h, k) \in clock
    BY <1>7, <1>8, <1>10, <2>0
  <2>2. ASSUME NEW j \in 1 .. r - 1 PROVE At(h, k).id # all[j]
    <3>1. j \in 1 .. count /\ ~ (r <= j)
      BY <2>0
    <3>2. f[j] \in F /\ ~ (k <= f[j])
      BY <1>7, <2>0, <3>1
    <3>3. f[j] \in 0 .. k - 1
      <4> HIDE DEF k, N, array
      <4>1. k \in Int
        BY <2>1
      <4>2. f[j] \in Nat
        BY <1>9, <3>2
      <4> QED
        BY <3>2, <4>1, <4>2
    <3>4. At(h, f[j]).id # At(h, k).id
      BY <1>8, <2>1, <3>3
    <3> QED
      BY <1>6, <3>1, <3>4
  <2>3. At(h, k) \in left
    BY <2>1, <2>2
  <2>4. ASSUME NEW m \in 0 .. k - 1 PROVE At(h, m) \notin left
    <3>1. m \in 0 .. N - 1
      <4> HIDE DEF k, N
      <4> QED
        BY <2>1
    <3>2. PICK j \in F : j <= m /\ At(h, j).id = At(h, m).id
      BY <1>11, <3>1
    <3>3. PICK s \in 1 .. count : f[s] = j
      BY <1>7
    <3>4. ~ (k <= j)
      <4> HIDE DEF k, N, array
      <4> QED
        BY <1>8, <2>1, <2>4, <3>2
    <3>5. ~ (r <= s)
      BY <1>7, <2>0, <3>3, <3>4
    <3>6. s \in 1 .. r - 1
      BY <1>4, <2>0, <3>5
    <3>7. all[s] = At(h, m).id
      BY <1>6, <3>2, <3>3
    <3> QED
      BY <3>6, <3>7
  <2>5. left \subseteq clock
    OBVIOUS
  <2> HIDE DEF left, k
  <2>6. FirstOf(left, At(h, k), h)
    BY <2>1, <2>3, <2>4, <2>5, FirstMet
  <2>7. PICK q \in left : FirstOf(left, q, h) /\ GetNode(Sorted(left), h) = q.id
    <3>1. left # {}
      BY <2>3
    <3> QED
      BY <2>5, <3>1, GetNodeIsFirst
  <2>8. q = At(h, k)
    BY <2>5, <2>6, <2>7, FirstIsOne
  <2>9. all[r] = At(h, k).id
    BY <1>6, <2>0 DEF k
  <2> QED
    BY <2>7, <2>8, <2>9 DEF left
<1> QED
  BY <1>2, <1>3, <1>12 DEF count, all

\* The binary search finds the owner of every hash, for which the provider has
\* a node, and getNodes() finds every node that has points, in the order in
\* which they would take over from each other.
THEOREM SearchFinds == Spec => []SearchFindsOwner
BY InitRingInv, NextRingInv, RingServes, PTL DEF Spec

-----------------------------------------------------------------------------
\* ModulaHash

\* Every entry of the list is a node of the map.
ModulaInv ==
    /\ DOMAIN modulaMap \subseteq Ids
    /\ modulaList \in Seq(DOMAIN modulaMap)

LEMMA EntriesAreCounted ==
    ASSUME NEW w \in ModulaWeights
    PROVE  Modula!Entries(w) \in Nat
<1>1. w \in Int
  BY ModulaAssumption DEF Modula!ConstantsFit
<1> QED
  BY <1>1 DEF Modula!Entries

\* K has the entries at the places I, each once: f says which place is whose.
Keeps(K, I, f) ==
    /\ \A k \in 1 .. Cardinality(I) : f[k] \in I /\ K[k] = modulaList[f[k]]
    /\ \A i \in I : \E k \in 1 .. Cardinality(I) : f[k] = i
    /\ \A k, l \in 1 .. Cardinality(I) : f[k] = f[l] => k = l

\* Filtering keeps the entries at the places I.
LEMMA KeptIs ==
    ASSUME NEW T, modulaList \in Seq(T), NEW I, I \subseteq DOMAIN modulaList
    PROVE  /\ Len(Modula!Kept(I)) = Cardinality(I) /\ Cardinality(I) \in Nat
           /\ Modula!Kept(I) \in Seq(T)
           /\ \E f : Keeps(Modula!Kept(I), I, f)
<1> DEFINE n == Cardinality(I)
           F(k) == CHOOSE i \in I : Cardinality({j \in I : j <= i}) = k
           f == [k \in 1 .. n |-> F(k)]
           K == Modula!Kept(I)
<1>1. Len(modulaList) \in Nat /\ DOMAIN modulaList = 1 .. Len(modulaList)
      /\ \A i \in 1 .. Len(modulaList) : modulaList[i] \in T
  OBVIOUS
<1>2. I \subseteq Int /\ IsFiniteSet(I)
  <2>1. IsFiniteSet(1 .. Len(modulaList))
    BY <1>1, FS_Interval
  <2> QED
    BY <1>1, <2>1, FS_Subset
<1>3. Lists(f, I, {e \in I \X I : e[1] <= e[2]})
  BY <1>2, PlacesList
<1>4. K = [k \in 1 .. n |-> modulaList[f[k]]]
  <2>1. K = [k \in 1 .. n |-> modulaList[F(k)]]
    BY DEF Modula!Kept, Modula!Cardinality, Cardinality
  <2> HIDE DEF F, K, n
  <2> QED
    BY <2>1
<1> HIDE DEF f, K
<1>5. /\ n \in Nat
      /\ \A k \in 1 .. n : f[k] \in I
      /\ \A i \in I : \E k \in 1 .. n : f[k] = i
      /\ \A k, l \in 1 .. n : <<f[k], f[l]>> \in {e \in I \X I : e[1] <= e[2]} <=> k <= l
  BY <1>3 DEF Lists
<1>6. ASSUME NEW k \in 1 .. n, NEW l \in 1 .. n, f[k] = f[l] PROVE k = l
  <2>0. f[k] \in I /\ f[k] \in Int
    BY <1>2, <1>5
  <2>1. k <= l /\ l <= k
    <3>1. <<f[k], f[l]>> \in {e \in I \X I : e[1] <= e[2]}
      BY <1>6, <2>0
    <3>2. <<f[l], f[k]>> \in {e \in I \X I : e[1] <= e[2]}
      BY <1>6, <2>0
    <3> HIDE DEF n
    <3> QED
      BY <1>5, <3>1, <3>2
  <2> QED
    BY <1>5, <2>1
<1>7. \A k \in 1 .. n : K[k] = modulaList[f[k]] /\ K[k] \in T
  BY <1>1, <1>4, <1>5
<1>8. Len(K) = n /\ K \in Seq(T)
  <2>1. K \in [1 .. n -> T]
    BY <1>4, <1>7
  <2> HIDE DEF n
  <2> QED
    BY <1>5, <2>1
<1> HIDE DEF n
<1>9. Len(K) = n /\ n \in Nat /\ K \in Seq(T) /\ Keeps(K, I, f)
  <2>1. /\ \A k \in 1 .. n : f[k] \in I /\ K[k] = modulaList[f[k]]
        /\ \A i \in I : \E k \in 1 .. n : f[k] = i
        /\ \A k, l \in 1 .. n : f[k] = f[l] => k = l
    BY <1>5, <1>6, <1>7
  <2>2. Keeps(K, I, f)
    BY <2>1 DEF Keeps, n
  <2> QED
    BY <1>5, <1>8, <2>2
<1> QED
  BY <1>9 DEF K, n

\* Both operations keep the list what it is.
LEMMA AddKeepsModula ==
    ASSUME ModulaInv, NEW c \in Ids, NEW w \in ModulaWeights, Modula!AddNode(c, w)
    PROVE  ModulaInv'
<1> DEFINE n == Modula!Entries(w)
           t == [i \in 1 .. n |-> c]
<1>1. n \in Nat
  BY EntriesAreCounted
<1>2. DOMAIN modulaMap' = DOMAIN modulaMap \cup {c} /\ modulaList' = modulaList \o t
  BY DEF Modula!AddNode
<1> HIDE DEF n
<1>3. modulaList \in Seq(DOMAIN modulaMap \cup {c})
  BY DEF ModulaInv
<1>4. t \in Seq(DOMAIN modulaMap \cup {c})
  BY <1>1
<1> HIDE DEF t
<1>5. modulaList \o t \in Seq(DOMAIN modulaMap \cup {c})
  BY <1>3, <1>4
<1> QED
  BY <1>2, <1>5 DEF ModulaInv

LEMMA RemoveKeepsModula ==
    ASSUME ModulaInv, NEW c \in Ids, Modula!RemoveNode(c)
    PROVE  ModulaInv'
<1> DEFINE I == {i \in DOMAIN modulaList : modulaList[i] # c}
<1>1. DOMAIN modulaMap' = DOMAIN modulaMap \ {c} /\ modulaList' = Modula!Kept(I)
  BY DEF Modula!RemoveNode, Modula!Restrict
<1>2. modulaList \in Seq(DOMAIN modulaMap)
  BY DEF ModulaInv
<1>3. I \subseteq DOMAIN modulaList
  OBVIOUS
<1>4. \A i \in I : modulaList[i] \in DOMAIN modulaMap \ {c}
  BY <1>2
<1> HIDE DEF I
<1>5. \A k \in 1 .. Len(Modula!Kept(I)) : Modula!Kept(I)[k] \in DOMAIN modulaMap \ {c}
  <2>1. Len(Modula!Kept(I)) = Cardinality(I)
    BY <1>2, <1>3, KeptIs
  <2>2. PICK f : Keeps(Modula!Kept(I), I, f)
    BY <1>2, <1>3, KeptIs
  <2> QED
    BY <1>4, <2>1, <2>2 DEF Keeps
<1>6. Modula!Kept(I) \in Seq(DOMAIN modulaMap)
  BY <1>2, <1>3, KeptIs
<1>7. Modula!Kept(I) \in Seq(DOMAIN modulaMap \ {c})
  <2> DEFINE K == Modula!Kept(I)
  <2> HIDE DEF K
  <2>1. \A k \in 1 .. Len(K) : K[k] \in DOMAIN modulaMap \ {c}
    BY <1>5 DEF K
  <2>2. K \in Seq(DOMAIN modulaMap)
    BY <1>6 DEF K
  <2>3. K \in Seq(DOMAIN modulaMap \ {c})
    BY <2>1, <2>2
  <2> QED
    BY <2>3 DEF K
<1>8. DOMAIN modulaMap \subseteq Ids
  BY DEF ModulaInv
<1> QED
  BY <1>1, <1>7, <1>8 DEF ModulaInv

\* The places of c in a list, whose number is its share.
Places(l, c) == {i \in DOMAIN l : l[i] = c}

LEMMA ShareIs ==
    ASSUME NEW c
    PROVE  Modula!Share(c) = Cardinality(Places(modulaList, c))
BY DEF Modula!Share, Places, Modula!Cardinality, Cardinality

LEMMA PlacesAreFinite ==
    ASSUME NEW T, NEW l \in Seq(T), NEW c
    PROVE  IsFiniteSet(Places(l, c)) /\ Cardinality(Places(l, c)) \in Nat
<1>1. DOMAIN l = 1 .. Len(l) /\ Len(l) \in Nat
  OBVIOUS
<1>2. IsFiniteSet(1 .. Len(l))
  BY <1>1, FS_Interval
<1>3. IsFiniteSet(Places(l, c))
  BY <1>1, <1>2, FS_Subset DEF Places
<1> QED
  BY <1>3, FS_CardinalityType

LEMMA AbsentHasNoPlace ==
    ASSUME NEW T, NEW l \in Seq(T), NEW c, c \notin T
    PROVE  Cardinality(Places(l, c)) = 0
<1>1. \A i \in DOMAIN l : l[i] \in T
  OBVIOUS
<1>2. Places(l, c) = {}
  BY <1>1 DEF Places
<1> QED
  BY <1>2, FS_EmptySet

\* Entries appended to a list without any are as many as were appended.
GainsPlaces(l, m, T, c, n) ==
    /\ c \notin T => Cardinality(Places(m, c)) = n
    /\ \A d : Cardinality(Places(l, d)) <= Cardinality(Places(m, d))

LEMMA AppendedPlaces ==
    ASSUME NEW T, NEW l \in Seq(T), NEW c, NEW n \in Nat, NEW m, m = l \o [i \in 1 .. n |-> c]
    PROVE  GainsPlaces(l, m, T, c, n)
<1> DEFINE t == [i \in 1 .. n |-> c]
<1>1. /\ Len(l) \in Nat /\ DOMAIN l = 1 .. Len(l) /\ \A i \in 1 .. Len(l) : l[i] \in T
      /\ t \in Seq({c}) /\ Len(t) = n /\ \A i \in 1 .. n : t[i] = c
  OBVIOUS
<1> HIDE DEF t
<1>2. /\ m \in Seq(T \cup {c}) /\ DOMAIN m = 1 .. Len(l) + n
      /\ \A i \in 1 .. Len(l) + n : m[i] = IF i <= Len(l) THEN l[i] ELSE c
  <2>1. m = l \o t /\ l \in Seq(T \cup {c}) /\ t \in Seq(T \cup {c})
    BY <1>1 DEF t
  <2>2. m \in Seq(T \cup {c}) /\ Len(m) = Len(l) + n /\ DOMAIN m = 1 .. Len(l) + n
    BY <1>1, <2>1
  <2>3. ASSUME NEW i \in 1 .. Len(l) + n PROVE m[i] = IF i <= Len(l) THEN l[i] ELSE c
    <3>1. CASE i <= Len(l)
      BY <1>1, <2>1, <3>1
    <3>2. CASE i > Len(l)
      <4>1. m[i] = t[i - Len(l)] /\ i - Len(l) \in 1 .. n
        BY <1>1, <2>1, <3>2
      <4> QED
        BY <1>1, <3>2, <4>1
    <3> QED
      BY <1>1, <3>1, <3>2
  <2> QED
    BY <2>2, <2>3
<1>3. ASSUME c \notin T PROVE Cardinality(Places(m, c)) = n
  <2>1. Places(m, c) = Len(l) + 1 .. Len(l) + n
    BY <1>1, <1>2, <1>3 DEF Places
  <2> QED
    BY <1>1, <2>1, FS_Interval
<1>4. ASSUME NEW d PROVE Cardinality(Places(l, d)) <= Cardinality(Places(m, d))
  <2>1. Places(l, d) \subseteq Places(m, d)
    BY <1>1, <1>2 DEF Places
  <2> QED
    BY <1>2, <2>1, PlacesAreFinite, FS_Subset
<1> QED
  BY <1>3, <1>4 DEF GainsPlaces

\* What is kept of another entry is all of it.
LEMMA KeptPlaces ==
    ASSUME NEW T, modulaList \in Seq(T), NEW c, NEW d, c # d,
           NEW m, m = Modula!Kept({i \in DOMAIN modulaList : modulaList[i] # c})
    PROVE  Cardinality(Places(m, d)) = Cardinality(Places(modulaList, d))
<1> DEFINE I == {i \in DOMAIN modulaList : modulaList[i] # c}
           A == Places(m, d)
           B == Places(modulaList, d)
           n == Cardinality(I)
<1>1. I \subseteq DOMAIN modulaList /\ B \subseteq I
  BY DEF Places
<1>2. m = Modula!Kept(I)
  OBVIOUS
<1> HIDE DEF I
<1>3. Len(m) = n /\ n \in Nat /\ m \in Seq(T)
  BY <1>1, <1>2, KeptIs
<1>4. PICK f : Keeps(m, I, f)
  BY <1>1, <1>2, KeptIs
<1>5. /\ \A k \in 1 .. n : f[k] \in I /\ m[k] = modulaList[f[k]]
      /\ \A i \in I : \E k \in 1 .. n : f[k] = i
      /\ \A k, l \in 1 .. n : f[k] = f[l] => k = l
  BY <1>4 DEF Keeps
<1> HIDE DEF n
<1>6. A = {k \in 1 .. n : modulaList[f[k]] = d}
  <2>1. DOMAIN m = 1 .. n
    BY <1>3
  <2>2. A = {k \in 1 .. n : m[k] = d}
    BY <2>1 DEF Places
  <2> HIDE DEF A
  <2> QED
    BY <1>5, <2>2
<1> DEFINE g == [k \in A |-> f[k]]
<1>7. B = {i \in DOMAIN modulaList : modulaList[i] = d}
  BY DEF Places
<1>8. IsFiniteSet(A)
  BY <1>3, PlacesAreFinite
<1> HIDE DEF A, B
<1>9. g \in [A -> B]
  BY <1>1, <1>5, <1>6, <1>7
<1>10. g \in Injection(A, B)
  BY <1>5, <1>6, <1>9 DEF Injection, IsInjective
<1>11. g \in Surjection(A, B)
  <2> SUFFICES ASSUME NEW i \in B PROVE \E k \in A : g[k] = i
    BY <1>9 DEF Surjection
  <2>1. PICK k \in 1 .. n : f[k] = i
    BY <1>1, <1>5
  <2> QED
    BY <1>6, <1>7, <2>1
<1> HIDE DEF g
<1>12. ExistsBijection(A, B)
  BY <1>10, <1>11 DEF ExistsBijection, Bijection
<1>13. Cardinality(B) = Cardinality(A)
  BY <1>8, <1>12, FS_Bijection
<1> QED
  BY <1>13 DEF A, B

\* The step of SharesFollowWeights for one node.
ShareFollows(c) ==
    /\ c \in DOMAIN modulaMap' \ DOMAIN modulaMap => Modula!Share(c)' = Modula!Entries(modulaMap'[c])
    /\ c \in DOMAIN modulaMap \cap DOMAIN modulaMap' => Modula!Share(c)' >= Modula!Share(c)
    /\ c \notin DOMAIN modulaMap' => Modula!Share(c)' = 0

LEMMA StepShares ==
    ASSUME ModulaInv, ModulaInv', Modula!Next, NEW c \in Ids
    PROVE  ShareFollows(c)
<1>1. modulaList \in Seq(DOMAIN modulaMap) /\ modulaList' \in Seq(DOMAIN modulaMap')
  BY DEF ModulaInv
<1>2. /\ Modula!Share(c) = Cardinality(Places(modulaList, c))
      /\ Modula!Share(c)' = Cardinality(Places(modulaList', c))
  <2>1. Modula!Share(c) = Cardinality(Places(modulaList, c))
    BY ShareIs
  <2>2. Modula!Share(c)' = Cardinality(Places(modulaList', c))
    BY DEF Modula!Share, Places, Modula!Cardinality, Cardinality
  <2> QED
    BY <2>1, <2>2
<1>3. Cardinality(Places(modulaList, c)) \in Nat
  BY <1>1, PlacesAreFinite
<1>4. c \notin DOMAIN modulaMap' => Modula!Share(c)' = 0
  BY <1>1, <1>2, AbsentHasNoPlace
<1>5. ASSUME NEW d \in Ids, NEW w \in ModulaWeights, Modula!AddNode(d, w)
      PROVE  ShareFollows(c)
  <2> DEFINE n == Modula!Entries(w)
  <2>1. /\ modulaMap' = [e \in DOMAIN modulaMap \cup {d} |-> IF e = d THEN w ELSE modulaMap[e]]
        /\ modulaList' = modulaList \o [i \in 1 .. n |-> d]
    BY <1>5 DEF Modula!AddNode
  <2>2. n \in Nat
    BY <1>5, EntriesAreCounted
  <2> HIDE DEF n
  <2>3. /\ d \notin DOMAIN modulaMap => Cardinality(Places(modulaList', d)) = n
        /\ Cardinality(Places(modulaList, c)) <= Cardinality(Places(modulaList', c))
    <3>1. modulaList \in Seq(DOMAIN modulaMap)
      BY <1>1
    <3>2. GainsPlaces(modulaList, modulaList', DOMAIN modulaMap, d, n)
      BY <2>1, <2>2, <3>1, AppendedPlaces
    <3> QED
      BY <3>2 DEF GainsPlaces
  <2>4. ASSUME c \in DOMAIN modulaMap' \ DOMAIN modulaMap
        PROVE  Modula!Share(c)' = Modula!Entries(modulaMap'[c])
    <3>1. c = d /\ modulaMap'[c] = w
      BY <2>1, <2>4
    <3> QED
      BY <1>2, <2>3, <2>4, <3>1 DEF n
  <2>5. Modula!Share(c)' >= Modula!Share(c)
    BY <1>1, <1>2, <1>3, <2>3, PlacesAreFinite
  <2> QED
    BY <1>4, <2>4, <2>5 DEF ShareFollows
<1>6. ASSUME NEW d \in Ids, Modula!RemoveNode(d)
      PROVE  ShareFollows(c)
  <2>1. /\ DOMAIN modulaMap' = DOMAIN modulaMap \ {d}
        /\ modulaList' = Modula!Kept({i \in DOMAIN modulaList : modulaList[i] # d})
    BY <1>6 DEF Modula!RemoveNode, Modula!Restrict
  <2>2. c # d => Cardinality(Places(modulaList', c)) = Cardinality(Places(modulaList, c))
    BY <1>1, <2>1, KeptPlaces
  <2> QED
    BY <1>2, <1>3, <1>4, <2>1, <2>2 DEF ShareFollows
<1> QED
  BY <1>5, <1>6 DEF Modula!Next

-----------------------------------------------------------------------------
\* BroadcastHash

\* The array is the map, and the map has each id once.
BroadcastInv ==
    /\ broadcastMap \in Seq(Ids)
    /\ \A i, j \in 1 .. Len(broadcastMap) : broadcastMap[i] = broadcastMap[j] => i = j
    /\ broadcastCache = broadcastMap

LEMMA HasIs ==
    ASSUME NEW c
    PROVE  Broadcast!Has(c) <=> \E i \in 1 .. Len(broadcastMap) : broadcastMap[i] = c
BY DEF Broadcast!Has, Broadcast!Contains

LEMMA AddKeepsBroadcast ==
    ASSUME BroadcastInv, NEW c \in Ids, Broadcast!AddNode(c)
    PROVE  /\ BroadcastInv'
           /\ {d \in Ids : Broadcast!Has(d)'} = {d \in Ids : Broadcast!Has(d)} \cup {c}
<1>1. /\ broadcastMap' = IF Broadcast!Has(c) THEN broadcastMap ELSE Append(broadcastMap, c)
      /\ broadcastCache' = broadcastMap'
  BY DEF Broadcast!AddNode, Broadcast!RebuildCache
<1>2. \A d : Broadcast!Has(d)' <=> \E i \in 1 .. Len(broadcastMap') : broadcastMap'[i] = d
  BY DEF Broadcast!Has, Broadcast!Contains
<1>3. broadcastMap \in Seq(Ids) /\ Len(broadcastMap) \in Nat
  BY DEF BroadcastInv
<1>4. CASE Broadcast!Has(c)
  <2>1. broadcastMap' = broadcastMap
    BY <1>1, <1>4
  <2> QED
    BY <1>1, <1>2, <1>4, <2>1, HasIs DEF BroadcastInv
<1>5. CASE ~Broadcast!Has(c)
  <2> DEFINE n == Len(broadcastMap)
  <2>1. /\ broadcastMap' \in Seq(Ids) /\ Len(broadcastMap') = n + 1
        /\ \A i \in 1 .. n : broadcastMap'[i] = broadcastMap[i]
        /\ broadcastMap'[n + 1] = c
    BY <1>1, <1>3, <1>5
  <2>2. \A i \in 1 .. n : broadcastMap[i] # c
    BY <1>5, HasIs
  <2> HIDE DEF n
  <2>3. n \in Nat /\ \A i \in 1 .. n + 1 : i \in 1 .. n \/ i = n + 1
    BY <1>3 DEF n
  <2>4. \A i, j \in 1 .. n : broadcastMap[i] = broadcastMap[j] => i = j
    BY DEF BroadcastInv, n
  <2>5. BroadcastInv'
    BY <1>1, <2>1, <2>2, <2>3, <2>4 DEF BroadcastInv
  <2>6. \A d : Broadcast!Has(d)' <=> Broadcast!Has(d) \/ d = c
    <3>1. \A d : Broadcast!Has(d) <=> \E i \in 1 .. n : broadcastMap[i] = d
      BY HasIs DEF n
    <3>2. n + 1 \in 1 .. n + 1 /\ \A i \in 1 .. n : i \in 1 .. n + 1
      BY <2>3
    <3> QED
      BY <1>2, <2>1, <2>3, <3>1, <3>2
  <2> QED
    BY <2>5, <2>6
<1> QED
  BY <1>4, <1>5

LEMMA RemoveKeepsBroadcast ==
    ASSUME BroadcastInv, NEW c \in Ids, Broadcast!RemoveNode(c)
    PROVE  /\ BroadcastInv'
           /\ {d \in Ids : Broadcast!Has(d)'} = {d \in Ids : Broadcast!Has(d)} \ {c}
<1>1. \A d : Broadcast!Has(d)' <=> \E i \in 1 .. Len(broadcastMap') : broadcastMap'[i] = d
  BY DEF Broadcast!Has, Broadcast!Contains
<1>2. broadcastMap \in Seq(Ids) /\ Len(broadcastMap) \in Nat
      /\ DOMAIN broadcastMap = 1 .. Len(broadcastMap)
  BY DEF BroadcastInv
<1>3. CASE ~Broadcast!Has(c) /\ UNCHANGED Broadcast!vars
  <2>1. broadcastMap' = broadcastMap /\ broadcastCache' = broadcastCache
    BY <1>3 DEF Broadcast!vars
  <2>2. BroadcastInv'
    BY <2>1 DEF BroadcastInv
  <2>3. \A d : Broadcast!Has(d)' <=> Broadcast!Has(d)
    BY <1>1, <2>1, HasIs
  <2> QED
    BY <1>3, <2>2, <2>3
<1>4. CASE /\ \E i \in DOMAIN broadcastMap : broadcastMap[i] = c /\ broadcastMap' = Broadcast!RemoveAt(broadcastMap, i)
           /\ broadcastCache' = broadcastMap'
  <2> DEFINE n == Len(broadcastMap)
  <2>1. PICK i \in 1 .. n : broadcastMap[i] = c /\ broadcastMap' = Broadcast!RemoveAt(broadcastMap, i)
    BY <1>2, <1>4
  <2>2. broadcastMap' = SubSeq(broadcastMap, 1, i - 1) \o SubSeq(broadcastMap, i + 1, n)
    BY <2>1 DEF Broadcast!RemoveAt
  <2> DEFINE a == SubSeq(broadcastMap, 1, i - 1)
             b == SubSeq(broadcastMap, i + 1, n)
  <2>3. /\ a \in Seq(Ids) /\ Len(a) = i - 1 /\ \A k \in 1 .. i - 1 : a[k] = broadcastMap[k]
        /\ b \in Seq(Ids) /\ Len(b) = n - i /\ \A k \in 1 .. n - i : b[k] = broadcastMap[k + i]
    <3>1. \A k \in 1 .. n : broadcastMap[k] \in Ids
      BY <1>2
    <3>2. n \in Nat
      BY <1>2
    <3> HIDE DEF n
    <3>3. /\ \A k \in 1 .. i - 1 : broadcastMap[k] \in Ids
          /\ \A k \in i + 1 .. n : broadcastMap[k] \in Ids
      BY <3>1, <3>2
    <3>4. /\ a \in Seq(Ids) /\ Len(a) = IF 1 <= i - 1 THEN (i - 1) - 1 + 1 ELSE 0
          /\ \A k \in 1 .. (i - 1) - 1 + 1 : a[k] = broadcastMap[1 + k - 1]
      BY <3>2, <3>3, SubSeqProperties
    <3>5. /\ b \in Seq(Ids) /\ Len(b) = IF i + 1 <= n THEN n - (i + 1) + 1 ELSE 0
          /\ \A k \in 1 .. n - (i + 1) + 1 : b[k] = broadcastMap[(i + 1) + k - 1]
      BY <3>2, <3>3, SubSeqProperties
    <3> HIDE DEF a, b
    <3>6. Len(a) = i - 1 /\ \A k \in 1 .. i - 1 : a[k] = broadcastMap[k]
      BY <3>2, <3>4
    <3>7. Len(b) = n - i /\ \A k \in 1 .. n - i : b[k] = broadcastMap[k + i]
      BY <3>2, <3>5
    <3> QED
      BY <3>4, <3>5, <3>6, <3>7
  <2> HIDE DEF a, b
  <2>4. /\ broadcastMap' \in Seq(Ids) /\ Len(broadcastMap') = n - 1
        /\ \A k \in 1 .. n - 1 : broadcastMap'[k] = IF k < i THEN broadcastMap[k] ELSE broadcastMap[k + 1]
    <3>1. broadcastMap' = a \o b
      BY <2>2 DEF a, b
    <3>2. broadcastMap' \in Seq(Ids) /\ Len(broadcastMap') = n - 1
      <4>1. broadcastMap' \in Seq(Ids)
        BY <2>3, <3>1
      <4>2. Len(broadcastMap') = Len(a) + Len(b)
        BY <2>3, <3>1, ConcatProperties
      <4> QED
        BY <1>2, <2>3, <4>1, <4>2
    <3>3. ASSUME NEW k \in 1 .. n - 1
          PROVE  broadcastMap'[k] = IF k < i THEN broadcastMap[k] ELSE broadcastMap[k + 1]
      <4>1. CASE k < i
        BY <1>2, <2>3, <3>1, <4>1
      <4>2. CASE k >= i
        <5>1. broadcastMap'[k] = b[k - (i - 1)] /\ k - (i - 1) \in 1 .. n - i
          BY <1>2, <2>3, <3>1, <4>2
        <5>2. b[k - (i - 1)] = broadcastMap[(k - (i - 1)) + i] /\ (k - (i - 1)) + i = k + 1
          BY <1>2, <2>3, <5>1
        <5> QED
          BY <1>2, <4>2, <5>1, <5>2
      <4> QED
        BY <1>2, <4>1, <4>2
    <3> QED
      BY <3>2, <3>3
  <2> HIDE DEF n
  <2>5. n \in Nat /\ i \in 1 .. n
    BY <1>2 DEF n
  <2>6. \A k, l \in 1 .. n : broadcastMap[k] = broadcastMap[l] => k = l
    BY DEF BroadcastInv, n
  <2>7. ASSUME NEW k \in 1 .. n - 1, NEW l \in 1 .. n - 1, broadcastMap'[k] = broadcastMap'[l]
        PROVE  k = l
    BY <2>4, <2>5, <2>6, <2>7
  <2>8. BroadcastInv'
    BY <1>4, <2>4, <2>7 DEF BroadcastInv
  <2>9. ASSUME NEW d PROVE Broadcast!Has(d)' <=> Broadcast!Has(d) /\ d # c
    <3>1. Broadcast!Has(d) <=> \E k \in 1 .. n : broadcastMap[k] = d
      BY HasIs DEF n
    <3>2. ASSUME NEW k \in 1 .. n - 1 PROVE Broadcast!Has(broadcastMap'[k]) /\ broadcastMap'[k] # c
      <4> DEFINE l == IF k < i THEN k ELSE k + 1
      <4>1. l \in 1 .. n /\ l # i /\ broadcastMap'[k] = broadcastMap[l]
        BY <2>4, <2>5, <3>2
      <4> HIDE DEF l
      <4> QED
        BY <2>1, <2>6, <4>1, HasIs DEF n
    <3>3. ASSUME NEW k \in 1 .. n, broadcastMap[k] # c
          PROVE  \E l \in 1 .. n - 1 : broadcastMap'[l] = broadcastMap[k]
      <4> DEFINE l == IF k < i THEN k ELSE k - 1
      <4>1. k # i
        BY <2>1, <3>3
      <4>2. l \in 1 .. n - 1 /\ (IF l < i THEN l ELSE l + 1) = k
        BY <2>5, <3>3, <4>1
      <4> HIDE DEF l
      <4>3. broadcastMap'[l] = broadcastMap[k]
        BY <2>4, <4>2
      <4> QED
        BY <4>2, <4>3
    <3> QED
      BY <1>1, <2>4, <3>1, <3>2, <3>3
  <2> QED
    BY <2>8, <2>9
<1> QED
  BY <1>3, <1>4 DEF Broadcast!RemoveNode, Broadcast!RebuildCache

-----------------------------------------------------------------------------
\* Invariant of the three

\* A node is filed under its own id.
NodesNamed == \A c \in Ids : nodeMap[c] # None => nodeMap[c].id = c

ProvidersInv ==
    /\ provider \in {"ketama", "modula", "broadcast"}
    /\ RingInv /\ CacheFresh /\ NodesNamed
    /\ ModulaInv
    /\ BroadcastInv

LEMMA NextNodesNamed == TypeOK /\ NodesNamed /\ [Next]_vars => NodesNamed'
<1> SUFFICES ASSUME TypeOK, NodesNamed, [Next]_vars PROVE NodesNamed'
  OBVIOUS
<1>1. ASSUME NEW n \in Nodes, AddNode(n) \/ AddRefused(n) PROVE NodesNamed'
  <2>1. nodeMap' = [nodeMap EXCEPT ![n.id] = n]
    BY <1>1 DEF AddNode, AddRefused
  <2> QED
    BY <2>1 DEF NodesNamed, TypeOK
<1>2. ASSUME NEW c \in Ids, RemoveNode(c) PROVE NodesNamed'
  BY <1>2 DEF NodesNamed, TypeOK, RemoveNode
<1>3. ASSUME NEW x \in Inputs, GetNodesByKey(x) PROVE NodesNamed'
  BY <1>3 DEF NodesNamed, GetNodesByKey
<1>4. CASE UNCHANGED vars
  BY <1>4 DEF NodesNamed, vars
<1> QED
  BY <1>1, <1>2, <1>3, <1>4 DEF Next

LEMMA InitProvidersInv == ProvidersInit => ProvidersInv
<1> SUFFICES ASSUME ProvidersInit PROVE ProvidersInv
  OBVIOUS
<1>1. Init /\ Modula!Init /\ Broadcast!Init
  BY DEF ProvidersInit
<1>2. RingInv /\ CacheFresh /\ NodesNamed
  BY <1>1, InitRingInv DEF Init, CacheFresh, Cached, NodesNamed
<1>3. ModulaInv
  <2>1. modulaMap = <<>> /\ modulaList = <<>>
    BY <1>1 DEF Modula!Init
  <2>2. DOMAIN modulaMap = {} /\ modulaList \in Seq(DOMAIN modulaMap)
    BY <2>1
  <2> QED
    BY <2>2 DEF ModulaInv
<1>4. BroadcastInv
  BY <1>1 DEF Broadcast!Init, BroadcastInv
<1> QED
  BY <1>2, <1>3, <1>4 DEF ProvidersInv, ProvidersInit

\* A step is one of the provider there is, and the others are not there.
LEMMA StepsOfOne ==
    ASSUME [ProvidersNext]_providerVars
    PROVE  /\ [Next]_vars /\ provider' = provider
           /\ [Modula!Next]_modulaVars
           /\ [Broadcast!Next]_broadcastVars
BY DEF ProvidersNext, providerVars, ketamaVars, modulaVars, broadcastVars

LEMMA NextProvidersInv == ProvidersInv /\ [ProvidersNext]_providerVars => ProvidersInv'
<1> SUFFICES ASSUME ProvidersInv, [ProvidersNext]_providerVars PROVE ProvidersInv'
  OBVIOUS
<1>1. /\ [Next]_vars /\ provider' = provider
      /\ [Modula!Next]_modulaVars
      /\ [Broadcast!Next]_broadcastVars
  BY StepsOfOne
<1>2. RingInv' /\ CacheFresh' /\ NodesNamed'
  <2>1. RingInv /\ TypeOK /\ CacheFresh /\ NodesNamed
    BY DEF ProvidersInv, RingInv
  <2> QED
    BY <1>1, <2>1, NextRingInv, NextCacheFresh, NextNodesNamed
<1>3. ModulaInv'
  <2>1. ModulaInv
    BY DEF ProvidersInv
  <2>2. CASE Modula!Next
    BY <2>1, <2>2, AddKeepsModula, RemoveKeepsModula DEF Modula!Next
  <2>3. CASE UNCHANGED modulaVars
    BY <2>1, <2>3 DEF ModulaInv, modulaVars
  <2> QED
    BY <1>1, <2>2, <2>3
<1>4. BroadcastInv'
  <2>1. BroadcastInv
    BY DEF ProvidersInv
  <2>2. CASE Broadcast!Next
    BY <2>1, <2>2, AddKeepsBroadcast, RemoveKeepsBroadcast DEF Broadcast!Next
  <2>3. CASE UNCHANGED broadcastVars
    BY <2>1, <2>3 DEF BroadcastInv, broadcastVars
  <2> QED
    BY <1>1, <2>2, <2>3
<1> QED
  BY <1>1, <1>2, <1>3, <1>4 DEF ProvidersInv

\* A node of a ModulaHash has the share of the keys its weight says, whatever
\* other nodes do.
THEOREM SharesFollow == ProvidersSpec => SharesFollowWeights
<1>1. ProvidersInv /\ ProvidersInv' /\ [ProvidersNext]_providerVars
         => [\A c \in Ids : ShareFollows(c)]_modulaVars
  <2> SUFFICES ASSUME ProvidersInv, ProvidersInv', [ProvidersNext]_providerVars,
                      modulaVars' # modulaVars, NEW c \in Ids
               PROVE  ShareFollows(c)
    OBVIOUS
  <2>1. Modula!Next
    BY StepsOfOne
  <2> QED
    BY <2>1, StepShares DEF ProvidersInv
<1>2. SharesFollowWeights <=> [][\A c \in Ids : ShareFollows(c)]_modulaVars
  BY DEF SharesFollowWeights, Modula!SharesFollowWeights, ShareFollows, modulaVars, Modula!vars
<1> QED
  BY <1>1, <1>2, InitProvidersInv, NextProvidersInv, PTL DEF ProvidersSpec

-----------------------------------------------------------------------------
\* Where a key goes

\* A ring with points has an owner for every hash, and a ring without has none.
LEMMA OwnersExist ==
    ASSUME RingInv, NEW h \in Hashes
    PROVE  /\ clock # {} => \E c \in Ids : Owns(c, h)
           /\ \A c \in Ids : Owns(c, h) => \E p \in clock : p.id = c
<1>1. ASSUME clock # {} PROVE \E c \in Ids : Owns(c, h)
  <2>1. clock \subseteq clock
    OBVIOUS
  <2>2. PICK p \in clock : FirstOf(clock, p, h)
    BY <1>1, <2>1, GetNodeIsFirst
  <2>3. p.id \in Ids
    BY DEF RingInv, TypeOK
  <2> QED
    BY <2>2, <2>3 DEF Owns, FirstFrom, FirstOf
<1> QED
  BY <1>1 DEF Owns

LEMMA OnlyMember ==
    ASSUME NEW c
    PROVE  SetToSeq({c}) = <<c>>
<1>1. Cardinality({c}) = 1
  BY FS_Singleton
<1>2. <<c>> \in [1 .. 1 -> {c}] /\ IsInjective(<<c>>)
  BY DEF IsInjective
<1>3. \A f \in [1 .. 1 -> {c}] : f = <<c>>
  OBVIOUS
<1> QED
  BY <1>1, <1>2, <1>3 DEF SetToSeq

LEMMA NoMember == SetToSeq({}) = <<>>
<1>1. Cardinality({}) = 0
  BY FS_EmptySet
<1>2. <<>> \in [1 .. 0 -> {}] /\ IsInjective(<<>>)
  BY DEF IsInjective
<1>3. \A f \in [1 .. 0 -> {}] : f = <<>>
  OBVIOUS
<1> QED
  BY <1>1, <1>2, <1>3 DEF SetToSeq

\* With ketama a key goes to the node that owns its hash, cached or not.
LEMMA KetamaRouteIs ==
    ASSUME RingInv, CacheFresh, NodesNamed, NEW x \in Inputs
    PROVE  /\ \A c \in Ids : Owns(c, InputHash[x]) => KetamaRoute(x) = <<c>>
           /\ clock = {} => KetamaRoute(x) = <<>>
<1> DEFINE h == InputHash[x]
           S == {c \in Ids : Owns(c, h) /\ nodeMap[c] # None}
<1>1. h \in Hashes
  BY InputAssumption
<1>2. \A c, d \in Ids : Owns(c, h) /\ Owns(d, h) => c = d
  BY <1>1, OneOwner DEF RingInv
<1>3. \A c \in Ids : Owns(c, h) => nodeMap[c] # None /\ nodeMap[c].id = c
  <2>1. ASSUME NEW c \in Ids, Owns(c, h) PROVE nodeMap[c] # None
    <3>1. PICK p \in clock : p.id = c
      BY <2>1 DEF Owns
    <3> QED
      BY <3>1 DEF RingInv, TypeOK, RingIsMapped
  <2> QED
    BY <2>1 DEF NodesNamed
<1>4. cache[x] # None => \E c \in Ids : Owns(c, h) /\ cache[x] = nodeMap[c]
  BY DEF CacheFresh, Cached, RingInv, TypeOK
<1>5. KetamaRoute(x) = IF cache[x] # None THEN <<cache[x].id>> ELSE SetToSeq(S)
  BY DEF KetamaRoute
<1> HIDE DEF h
<1>6. ASSUME NEW c \in Ids, Owns(c, h) PROVE KetamaRoute(x) = <<c>>
  <2>1. CASE cache[x] # None
    <3>1. cache[x] = nodeMap[c]
      BY <1>2, <1>4, <1>6, <2>1
    <3> QED
      BY <1>3, <1>5, <1>6, <2>1, <3>1
  <2>2. CASE ~ (cache[x] # None)
    <3>1. S = {c}
      BY <1>2, <1>3, <1>6
    <3> HIDE DEF S
    <3> QED
      BY <1>5, <2>2, <3>1, OnlyMember
  <2> QED
    BY <2>1, <2>2
<1>7. ASSUME clock = {} PROVE KetamaRoute(x) = <<>>
  <2>1. \A c \in Ids : ~Owns(c, h)
    BY <1>7 DEF Owns
  <2>2. S = {} /\ ~ (cache[x] # None)
    BY <1>4, <2>1
  <2> HIDE DEF S
  <2> QED
    BY <1>5, <2>2, NoMember
<1> QED
  BY <1>6, <1>7 DEF h

\* The same, of every key.
KetamaRouted ==
    \A x \in Inputs :
        /\ \A c \in Ids : Owns(c, InputHash[x]) => KetamaRoute(x) = <<c>>
        /\ clock = {} => KetamaRoute(x) = <<>>

LEMMA KetamaRoutesAre == ProvidersInv => KetamaRouted
BY KetamaRouteIs DEF ProvidersInv, KetamaRouted

LEMMA KetamaRoutesStay == ProvidersInv' => KetamaRouted'
BY KetamaRoutesAre, PTL

LEMMA ModulaRouteIs ==
    ASSUME ModulaInv, NEW x \in Inputs
    PROVE  IF modulaList = <<>> THEN Modula!GetNodesByKey(x) = <<>>
           ELSE \E i \in DOMAIN modulaList : Modula!GetNodesByKey(x) = <<modulaList[i]>>
<1>1. CASE modulaList = <<>>
  BY <1>1 DEF Modula!GetNodesByKey
<1>2. CASE modulaList # <<>>
  <2> DEFINE n == Len(modulaList)
             i == (InputHash[x] % n) + 1
  <2>1. modulaList \in Seq(DOMAIN modulaMap) /\ n \in Nat /\ n # 0 /\ DOMAIN modulaList = 1 .. n
    BY <1>2 DEF ModulaInv
  <2>2. InputHash[x] \in Nat
    BY ModulaAssumption DEF Modula!ConstantsFit
  <2>3. i \in 1 .. n
    <3> HIDE DEF n
    <3>1. InputHash[x] % n \in 0 .. n - 1
      BY <2>1, <2>2
    <3> QED
      BY <2>1, <3>1
  <2>4. modulaList[i] \in DOMAIN modulaMap
    BY <2>1, <2>3
  <2>5. Modula!GetNodesByKey(x) = IF modulaList[i] \in DOMAIN modulaMap THEN <<modulaList[i]>> ELSE <<>>
    BY <1>2 DEF Modula!GetNodesByKey
  <2> HIDE DEF i
  <2> QED
    BY <1>2, <2>1, <2>3, <2>4, <2>5
<1> QED
  BY <1>1, <1>2

\* What the client sees of each provider.
LEMMA KetamaView ==
    ASSUME provider = "ketama"
    PROVE  /\ Members = {c \in Ids : nodeMap[c] # None}
           /\ Taking = {p.id : p \in clock}
           /\ Routes = [x \in Inputs |-> KetamaRoute(x)]
BY DEF Members, Taking, Routes

LEMMA ModulaView ==
    ASSUME provider = "modula"
    PROVE  /\ Members = DOMAIN modulaMap
           /\ Taking = {modulaList[i] : i \in DOMAIN modulaList}
           /\ Routes = [x \in Inputs |-> Modula!GetNodesByKey(x)]
BY DEF Members, Taking, Routes

LEMMA BroadcastView ==
    ASSUME provider = "broadcast"
    PROVE  /\ Members = {c \in Ids : Broadcast!Has(c)}
           /\ Taking = {c \in Ids : Broadcast!Has(c)}
           /\ Routes = [x \in Inputs |-> Broadcast!GetNodesByKey]
BY DEF Members, Taking, Routes

\* Each of the three answers what the interface promises.
LEMMA AnswersAreConsistent == ProvidersInv => Interface!Consistent
<1> SUFFICES ASSUME ProvidersInv PROVE Interface!Consistent
  OBVIOUS
<1>1. CASE provider = "ketama"
  <2>1. RingInv /\ TypeOK /\ CacheFresh /\ NodesNamed /\ RingIsMapped
    BY DEF ProvidersInv, RingInv
  <2>2. Taking \subseteq Members
    BY <1>1, <2>1, KetamaView DEF TypeOK, RingIsMapped
  <2>3. ASSUME NEW x \in Inputs
        PROVE  IF clock = {} THEN Routes[x] = <<>> ELSE \E c \in Taking : Routes[x] = <<c>>
    <3>1. InputHash[x] \in Hashes /\ Routes[x] = KetamaRoute(x)
      BY <1>1, KetamaView, InputAssumption
    <3>2. CASE clock = {}
      BY <2>1, <3>1, <3>2, KetamaRouteIs
    <3>3. CASE clock # {}
      <4>1. PICK c \in Ids : Owns(c, InputHash[x])
        BY <2>1, <3>1, <3>3, OwnersExist
      <4>2. c \in Taking
        BY <1>1, <2>1, <3>1, <4>1, OwnersExist, KetamaView
      <4> QED
        BY <2>1, <3>1, <3>3, <4>1, <4>2, KetamaRouteIs
    <3> QED
      BY <3>2, <3>3
  <2>4. Taking # {} => clock # {}
    BY <1>1, KetamaView
  <2>5. ASSUME NEW x \in Inputs
        PROVE  /\ Interface!Targets(x) \subseteq Taking
               /\ Taking # {} => Routes[x] # <<>>
               /\ \A i, j \in DOMAIN Routes[x] : i # j => Routes[x][i] # Routes[x][j]
    <3>1. CASE clock = {}
      <4>1. Routes[x] = <<>>
        BY <2>3, <3>1
      <4> QED
        BY <2>4, <3>1, <4>1 DEF Interface!Targets
    <3>2. CASE clock # {}
      <4>1. PICK c \in Taking : Routes[x] = <<c>>
        BY <2>3, <3>2
      <4> QED
        BY <4>1 DEF Interface!Targets
    <3> QED
      BY <3>1, <3>2
  <2> QED
    BY <2>2, <2>5 DEF Interface!Consistent
<1>2. CASE provider = "modula"
  <2>1. ModulaInv
    BY DEF ProvidersInv
  <2>2. Taking \subseteq Members
    BY <1>2, <2>1, ModulaView DEF ModulaInv
  <2>3. ASSUME NEW x \in Inputs
        PROVE  IF modulaList = <<>> THEN Routes[x] = <<>> ELSE \E c \in Taking : Routes[x] = <<c>>
    <3>1. Routes[x] = Modula!GetNodesByKey(x)
      BY <1>2, ModulaView
    <3> QED
      BY <1>2, <2>1, <3>1, ModulaRouteIs, ModulaView
  <2>4. Taking # {} => modulaList # <<>>
    BY <1>2, ModulaView
  <2>5. ASSUME NEW x \in Inputs
        PROVE  /\ Interface!Targets(x) \subseteq Taking
               /\ Taking # {} => Routes[x] # <<>>
               /\ \A i, j \in DOMAIN Routes[x] : i # j => Routes[x][i] # Routes[x][j]
    <3>1. CASE modulaList = <<>>
      <4>1. Routes[x] = <<>>
        BY <2>3, <3>1
      <4> QED
        BY <2>4, <3>1, <4>1 DEF Interface!Targets
    <3>2. CASE modulaList # <<>>
      <4>1. PICK c \in Taking : Routes[x] = <<c>>
        BY <2>3, <3>2
      <4> QED
        BY <4>1 DEF Interface!Targets
    <3> QED
      BY <3>1, <3>2
  <2> QED
    BY <2>2, <2>5 DEF Interface!Consistent
<1>3. CASE provider = "broadcast"
  <2>1. BroadcastInv
    BY DEF ProvidersInv
  <2>2. \A x \in Inputs : Routes[x] = broadcastMap
    BY <1>3, <2>1, BroadcastView DEF Broadcast!GetNodesByKey, BroadcastInv
  <2>3. DOMAIN broadcastMap = 1 .. Len(broadcastMap) /\ \A i \in 1 .. Len(broadcastMap) : broadcastMap[i] \in Ids
    BY <2>1 DEF BroadcastInv
  <2>4. Taking = {c \in Ids : \E i \in 1 .. Len(broadcastMap) : broadcastMap[i] = c} /\ Taking = Members
    BY <1>3, BroadcastView, HasIs
  <2>5. ASSUME NEW x \in Inputs PROVE Interface!Targets(x) \subseteq Taking
    BY <2>2, <2>3, <2>4 DEF Interface!Targets
  <2>6. Taking # {} => broadcastMap # <<>>
    BY <2>3, <2>4
  <2>7. \A i, j \in DOMAIN broadcastMap : i # j => broadcastMap[i] # broadcastMap[j]
    BY <2>1, <2>3 DEF BroadcastInv
  <2> QED
    BY <2>2, <2>4, <2>5, <2>6, <2>7 DEF Interface!Consistent
<1> QED
  BY <1>1, <1>2, <1>3 DEF ProvidersInv

\* What a client sees of the providers changes in three ways: not at all, or
\* for one node.
SameView == Members' = Members /\ Taking' = Taking /\ Routes' = Routes

ViewChanges(c) == Members' \ {c} = Members \ {c} /\ Taking' \ {c} = Taking \ {c}

LEMMA KetamaViewSteps ==
    ASSUME ProvidersInv, ProvidersInv', provider = "ketama", provider' = provider, Next
    PROVE  SameView \/ \E c \in Ids : ViewChanges(c)
<1>1. /\ Members = {c \in Ids : nodeMap[c] # None}
      /\ Taking = {p.id : p \in clock}
      /\ Routes = [x \in Inputs |-> KetamaRoute(x)]
  BY KetamaView
<1>2. /\ Members' = {c \in Ids : nodeMap'[c] # None}
      /\ Taking' = {p.id : p \in clock'}
      /\ Routes' = [x \in Inputs |-> KetamaRoute(x)']
  BY DEF Members, Taking, Routes
<1>3. nodeMap \in [Ids -> Nodes \cup {None}]
  BY DEF ProvidersInv, RingInv, TypeOK
<1>4. ASSUME NEW n \in Nodes, AddNode(n) \/ AddRefused(n) PROVE ViewChanges(n.id)
  <2>1. nodeMap' = [nodeMap EXCEPT ![n.id] = n]
    BY <1>4 DEF AddNode, AddRefused
  <2>2. Members' \ {n.id} = Members \ {n.id}
    BY <1>1, <1>2, <1>3, <2>1
  <2>3. Without(n.id) \subseteq clock' /\ \A p \in clock' : p \in Without(n.id) \/ p.id = n.id \/ p \in clock
    BY <1>4 DEF AddNode, AddRefused, RingAdd, RingRemove, PointsOf, Without
  <2>4. Taking' \ {n.id} = Taking \ {n.id}
    BY <1>1, <1>2, <2>3 DEF Without
  <2> QED
    BY <2>2, <2>4 DEF ViewChanges
<1>5. ASSUME NEW c \in Ids, RemoveNode(c) PROVE ViewChanges(c)
  <2>1. Members' \ {c} = Members \ {c}
    BY <1>1, <1>2, <1>3, <1>5 DEF RemoveNode
  <2>2. clock' = Without(c)
    BY <1>5 DEF RemoveNode, RingRemove
  <2>3. Taking' \ {c} = Taking \ {c}
    BY <1>1, <1>2, <2>2 DEF Without
  <2> QED
    BY <2>1, <2>3 DEF ViewChanges
<1>6. ASSUME NEW y \in Inputs, GetNodesByKey(y) PROVE SameView
  <2>1. UNCHANGED <<clock, before, nodeMap>>
    BY <1>6 DEF GetNodesByKey
  <2>2. RingInv /\ CacheFresh /\ NodesNamed /\ RingInv' /\ CacheFresh' /\ NodesNamed'
    BY DEF ProvidersInv
  <2>3. ASSUME NEW x \in Inputs PROVE KetamaRoute(x)' = KetamaRoute(x)
    <3>1. /\ \A c \in Ids : Owns(c, InputHash[x]) => KetamaRoute(x) = <<c>>
          /\ clock = {} => KetamaRoute(x) = <<>>
      BY <2>2, KetamaRouteIs
    <3>2. /\ \A c \in Ids : Owns(c, InputHash[x])' => KetamaRoute(x)' = <<c>>
          /\ clock' = {} => KetamaRoute(x)' = <<>>
      BY KetamaRoutesStay DEF KetamaRouted
    <3>3. \A c : Owns(c, InputHash[x])' <=> Owns(c, InputHash[x])
      BY <2>1 DEF Owns, FirstFrom, Precedes
    <3>4. clock # {} => \E c \in Ids : Owns(c, InputHash[x])
      BY <2>2, InputAssumption, OwnersExist
    <3> QED
      BY <2>1, <3>1, <3>2, <3>3, <3>4
  <2> QED
    BY <1>1, <1>2, <2>1, <2>3 DEF SameView
<1> QED
  BY <1>4, <1>5, <1>6 DEF Next, Nodes

LEMMA ModulaViewSteps ==
    ASSUME ProvidersInv, provider = "modula", provider' = provider, Modula!Next
    PROVE  \E c \in Ids : ViewChanges(c)
<1>1. /\ Members = DOMAIN modulaMap
      /\ Taking = {modulaList[i] : i \in DOMAIN modulaList}
  BY ModulaView
<1>2. /\ Members' = DOMAIN modulaMap'
      /\ Taking' = {modulaList'[i] : i \in DOMAIN modulaList'}
  BY DEF Members, Taking
<1>3. modulaList \in Seq(DOMAIN modulaMap)
  BY DEF ProvidersInv, ModulaInv
<1>4. ASSUME NEW c \in Ids, NEW w \in ModulaWeights, Modula!AddNode(c, w) PROVE ViewChanges(c)
  <2> DEFINE n == Modula!Entries(w)
             t == [i \in 1 .. n |-> c]
  <2>1. DOMAIN modulaMap' = DOMAIN modulaMap \cup {c} /\ modulaList' = modulaList \o t
    BY <1>4 DEF Modula!AddNode
  <2>2. n \in Nat
    BY EntriesAreCounted
  <2> HIDE DEF n
  <2>3. /\ DOMAIN modulaList' = 1 .. Len(modulaList) + n
        /\ \A i \in 1 .. Len(modulaList) : modulaList'[i] = modulaList[i]
        /\ \A i \in 1 .. Len(modulaList) + n : i \in 1 .. Len(modulaList) \/ modulaList'[i] = c
    <3>1. t \in Seq({c}) /\ Len(t) = n /\ \A i \in 1 .. n : t[i] = c
      BY <2>2
    <3> HIDE DEF t
    <3>2. modulaList \in Seq(DOMAIN modulaMap \cup {c}) /\ t \in Seq(DOMAIN modulaMap \cup {c})
      BY <1>3, <3>1
    <3>3. Len(modulaList) \in Nat
      BY <3>2
    <3>4. DOMAIN modulaList' = 1 .. Len(modulaList) + n
      BY <2>1, <3>1, <3>2
    <3>5. \A i \in 1 .. Len(modulaList) : modulaList'[i] = modulaList[i]
      BY <2>1, <3>2
    <3>6. ASSUME NEW i \in 1 .. Len(modulaList) + n, i \notin 1 .. Len(modulaList)
          PROVE  modulaList'[i] = c
      <4>1. modulaList'[i] = t[i - Len(modulaList)] /\ i - Len(modulaList) \in 1 .. n
        BY <2>1, <3>1, <3>2, <3>6
      <4> QED
        BY <3>1, <4>1
    <3> QED
      BY <3>4, <3>5, <3>6
  <2>4. DOMAIN modulaList = 1 .. Len(modulaList) /\ Len(modulaList) \in Nat
    BY <1>3
  <2>5. Taking' \ {c} = Taking \ {c}
    <3>1. ASSUME NEW i \in DOMAIN modulaList PROVE modulaList[i] \in Taking'
      BY <1>2, <2>2, <2>3, <2>4
    <3>2. ASSUME NEW i \in DOMAIN modulaList' PROVE modulaList'[i] = c \/ modulaList'[i] \in Taking
      BY <1>1, <2>3, <2>4
    <3> QED
      BY <1>1, <1>2, <3>1, <3>2
  <2> QED
    BY <1>1, <1>2, <2>1, <2>5 DEF ViewChanges
<1>5. ASSUME NEW c \in Ids, Modula!RemoveNode(c) PROVE ViewChanges(c)
  <2> DEFINE I == {i \in DOMAIN modulaList : modulaList[i] # c}
  <2>1. DOMAIN modulaMap' = DOMAIN modulaMap \ {c} /\ modulaList' = Modula!Kept(I)
    BY <1>5 DEF Modula!RemoveNode, Modula!Restrict
  <2>2. I \subseteq DOMAIN modulaList
    OBVIOUS
  <2>3. \A i \in DOMAIN modulaList : i \in I <=> modulaList[i] # c
    OBVIOUS
  <2> HIDE DEF I
  <2>4. Len(modulaList') = Cardinality(I) /\ modulaList' \in Seq(DOMAIN modulaMap)
    BY <1>3, <2>1, <2>2, KeptIs
  <2>5. PICK f : Keeps(modulaList', I, f)
    BY <1>3, <2>1, <2>2, KeptIs
  <2>6. DOMAIN modulaList' = 1 .. Cardinality(I)
    BY <2>4
  <2>7. Taking' \ {c} = Taking \ {c}
    <3>1. ASSUME NEW k \in DOMAIN modulaList' PROVE modulaList'[k] \in Taking
      BY <1>1, <2>2, <2>5, <2>6 DEF Keeps
    <3>2. ASSUME NEW i \in DOMAIN modulaList, modulaList[i] # c PROVE modulaList[i] \in Taking'
      <4>1. PICK k \in 1 .. Cardinality(I) : f[k] = i
        BY <2>3, <2>5, <3>2 DEF Keeps
      <4> QED
        BY <1>2, <2>5, <2>6, <4>1 DEF Keeps
    <3> QED
      BY <1>1, <1>2, <3>1, <3>2
  <2> QED
    BY <1>1, <1>2, <2>1, <2>7 DEF ViewChanges
<1> QED
  BY <1>4, <1>5 DEF Modula!Next

LEMMA BroadcastViewSteps ==
    ASSUME ProvidersInv, provider = "broadcast", provider' = provider, Broadcast!Next
    PROVE  \E c \in Ids : ViewChanges(c)
<1>1. BroadcastInv
  BY DEF ProvidersInv
<1>2. Members = {c \in Ids : Broadcast!Has(c)} /\ Taking = {c \in Ids : Broadcast!Has(c)}
  BY BroadcastView
<1>3. Members' = {c \in Ids : Broadcast!Has(c)'} /\ Taking' = {c \in Ids : Broadcast!Has(c)'}
  BY DEF Members, Taking
<1>4. PICK c \in Ids : Broadcast!AddNode(c) \/ Broadcast!RemoveNode(c)
  BY DEF Broadcast!Next
<1>5. {d \in Ids : Broadcast!Has(d)'} \ {c} = {d \in Ids : Broadcast!Has(d)} \ {c}
  BY <1>1, <1>4, AddKeepsBroadcast, RemoveKeepsBroadcast
<1> QED
  BY <1>2, <1>3, <1>5 DEF ViewChanges

\* Where nothing changes nothing is seen to.
LEMMA StutterIsSeenAsOne ==
    ASSUME UNCHANGED providerVars
    PROVE  SameView
<1>1. /\ UNCHANGED <<provider, clock, before, nodeMap, cache, modulaMap, modulaList, broadcastMap, broadcastCache>>
  BY DEF providerVars, ketamaVars, vars, modulaVars, broadcastVars
<1>2. Members' = Members
  BY <1>1 DEF Members, Broadcast!Has, Broadcast!Contains
<1>3. Taking' = Taking
  BY <1>1 DEF Taking, Broadcast!Has, Broadcast!Contains
<1>4. \A c, h : Owns(c, h)' <=> Owns(c, h)
  BY <1>1 DEF Owns, FirstFrom, Precedes
<1>5. \A x : KetamaRoute(x)' = KetamaRoute(x)
  BY <1>1, <1>4 DEF KetamaRoute
<1>6. Routes' = Routes
  <2> DEFINE R(x) == CASE provider = "ketama"    -> KetamaRoute(x)
                       [] provider = "modula"    -> Modula!GetNodesByKey(x)
                       [] provider = "broadcast" -> Broadcast!GetNodesByKey
  <2>1. \A x : R(x)' = R(x)
    BY <1>1, <1>5 DEF Modula!GetNodesByKey, Broadcast!GetNodesByKey
  <2>2. Routes = [x \in Inputs |-> R(x)] /\ Routes' = [x \in Inputs |-> R(x)']
    BY DEF Routes
  <2> HIDE DEF R
  <2> QED
    BY <2>1, <2>2
<1> QED
  BY <1>2, <1>3, <1>6 DEF SameView

LEMMA InitIsInitial == ProvidersInit => Interface!Init
<1> SUFFICES ASSUME ProvidersInit PROVE Interface!Init
  OBVIOUS
<1>1. Interface!Consistent
  BY InitProvidersInv, AnswersAreConsistent
<1>2. provider \in {"ketama", "modula", "broadcast"} /\ Init /\ Modula!Init /\ Broadcast!Init
  BY DEF ProvidersInit
<1>3. CASE provider = "ketama"
  <2>1. nodeMap = [c \in Ids |-> None]
    BY <1>2 DEF Init
  <2> QED
    BY <1>1, <1>3, <2>1, KetamaView DEF Interface!Init
<1>4. CASE provider = "modula"
  <2>1. DOMAIN modulaMap = {}
    BY <1>2 DEF Modula!Init
  <2> QED
    BY <1>1, <1>4, <2>1, ModulaView DEF Interface!Init
<1>5. CASE provider = "broadcast"
  <2>1. \A c : ~Broadcast!Has(c)
    BY <1>2, HasIs DEF Broadcast!Init
  <2> QED
    BY <1>1, <1>5, <2>1, BroadcastView DEF Interface!Init
<1> QED
  BY <1>2, <1>3, <1>4, <1>5

\* Every step of the providers is one of the interface, or nothing to it.
LEMMA StepsAreSteps ==
    ASSUME ProvidersInv, ProvidersInv', Interface!Consistent', [ProvidersNext]_providerVars
    PROVE  [Interface!Next]_Interface!vars
<1>1. SameView \/ \E c \in Ids : ViewChanges(c)
  <2>1. CASE UNCHANGED providerVars
    BY <2>1, StutterIsSeenAsOne
  <2>2. CASE ProvidersNext
    <3>1. provider' = provider
      BY <2>2 DEF ProvidersNext
    <3>2. CASE provider = "ketama" /\ Next
      BY <3>1, <3>2, KetamaViewSteps
    <3>3. CASE provider = "modula" /\ Modula!Next
      BY <3>1, <3>3, ModulaViewSteps
    <3>4. CASE provider = "broadcast" /\ Broadcast!Next
      BY <3>1, <3>4, BroadcastViewSteps
    <3> QED
      BY <2>2, <3>2, <3>3, <3>4 DEF ProvidersNext
  <2> QED
    BY <2>1, <2>2
<1>2. CASE SameView
  BY <1>2 DEF SameView, Interface!vars
<1>3. CASE \E c \in Ids : ViewChanges(c)
  <2>1. Interface!Next
    BY <1>3 DEF ViewChanges, Interface!Next, Interface!Change
  <2> QED
    BY <2>1
<1> QED
  BY <1>1, <1>2, <1>3

\* Each provider keeps the contract of the interface: a key has nodes as long
\* as a node takes keys, they are nodes the provider has, and where it goes
\* changes with the nodes only.
THEOREM ProvidersImplement == ProvidersSpec => ImplementsProvider
<1>1. ProvidersInv /\ ProvidersInv' /\ Interface!Consistent' /\ [ProvidersNext]_providerVars
         => [Interface!Next]_Interface!vars
  BY StepsAreSteps
<1> QED
  BY <1>1, InitProvidersInv, NextProvidersInv, InitIsInitial, AnswersAreConsistent, PTL
     DEF ProvidersSpec, ImplementsProvider, Interface!Spec

=============================================================================
