----------------------------- MODULE KetamaHash -----------------------------
(***************************************************************************)
(* HashRing and KetamaHash of src/src/ketama.ts: consistent hashing of     *)
(* keys to nodes.                                                          *)
(*                                                                         *)
(* A node has points on a circle of hashes, as many as its weight asks     *)
(* for; a key belongs to the node of the first point at or after its own   *)
(* hash.  The array _clock is kept as the set of its points: the array is  *)
(* that set in order, where points with the same hash stand in the order   *)
(* in which their nodes were added, since the sort is stable.  The hash    *)
(* function is any function (it is an argument of the constructor).        *)
(***************************************************************************)
EXTENDS Integers, FiniteSets, Sequences

CONSTANTS
    Ids,            \* node ids
    Weights,        \* weights, in hundredths; the setter of a node takes any
    BaseWeight,     \* HashRing.baseWeight: points of a node of weight 1
    Inputs,         \* keys that are looked up
    Hashes,         \* what the hash function returns
    HashFunctions,  \* hash functions of the points
    MaxPoints,      \* bound on the points of a node
    InputHash,      \* hash of each key
    CacheMax        \* CACHE_MAX

\* Math.round(weight * baseWeight)
Round(w) == (w * BaseWeight + 50) \div 100

ASSUME HashesAssumption  == Hashes \subseteq Int
ASSUME WeightsAssumption ==
    /\ Weights \subseteq Int /\ BaseWeight \in Nat /\ MaxPoints \in Nat
    /\ \A w \in Weights : Round(w) <= MaxPoints
ASSUME HashFunctionsAssumption == HashFunctions \subseteq [Ids -> [1 .. MaxPoints -> Hashes]]
ASSUME InputAssumption   == InputHash \in [Inputs -> Hashes]
ASSUME CacheAssumption   == CacheMax \in Nat

\* A node as the provider sees it.
Nodes == [id : Ids, weight : Weights]
None  == [id |-> "none"]

VARIABLES
    hash,       \* the hash function
    clock,      \* _clock, as a set of points
    before,     \* pairs of ids on the ring, the one added earlier first
    ring,       \* ids of _nodes of the ring
    nodeMap,    \* nodeMap: the node of each id
    cache       \* _cache: the node of each key that is cached

vars == <<hash, clock, before, ring, nodeMap, cache>>

Init ==
    /\ hash \in HashFunctions
    /\ clock = {} /\ before = {} /\ ring = {}
    /\ nodeMap = [c \in Ids |-> None]
    /\ cache = [x \in Inputs |-> None]

-----------------------------------------------------------------------------
\* The order of the array, and who owns a hash

Precedes(p, q) ==
    \/ p.hash < q.hash
    \/ p.hash = q.hash /\ (p.id = q.id \/ <<p.id, q.id>> \in before)

\* p is the first point at or after h, or the first of all when there is none.
FirstFrom(p, h) ==
    \/ p.hash >= h /\ \A q \in clock : q.hash >= h => Precedes(p, q)
    \/ /\ \A q \in clock : q.hash < h
       /\ \A q \in clock : Precedes(p, q)

Owns(c, h) == \E p \in clock : p.id = c /\ FirstFrom(p, h)

-----------------------------------------------------------------------------
\* The ring

Without(c)       == {p \in clock : p.id # c}
BeforeWithout(c) == {e \in before : e[1] # c /\ e[2] # c}

\* (mutant) the points of a removed node stay.
RingForgets(c) ==
    /\ clock' = clock
    /\ before' = BeforeWithout(c)
    /\ ring' = ring \ {c}

RingRemove(c) ==
    /\ clock' = Without(c)
    /\ before' = BeforeWithout(c)
    /\ ring' = ring \ {c}

PointsOf(c, w) == {[hash |-> hash[c][i], id |-> c] : i \in 1 .. Round(w)}

\* (mutant) a node that is added again keeps its old points and places.
RingAddOnTop(c, w) ==
    /\ w # 0
    /\ clock' = clock \cup PointsOf(c, w)
    /\ before' = before \cup {<<d, c>> : d \in ring \ {c}}
    /\ ring' = ring \cup {c}

\* HashRing.addNode(): weight 0 removes the node, any other replaces it.
RingAdd(c, w) ==
    \/ w = 0 /\ RingRemove(c)
    \/ /\ w # 0
       /\ clock' = Without(c) \cup PointsOf(c, w)
       /\ before' = BeforeWithout(c) \cup {<<d, c>> : d \in ring \ {c}}
       /\ ring' = ring \cup {c}

\* The array of a set of points: at place i stands the point that i points do
\* not follow, itself included.
Sorted(S) ==
    [i \in 1 .. Cardinality(S) |->
        CHOOSE p \in S : Cardinality({q \in S : Precedes(q, p)}) = i]

Array == Sorted(clock)

\* (mutant) the search takes the first point after the hash.
SearchAfter(array, h) ==
    LET loop[r \in (0 .. Len(array)) \X (-1 .. Len(array) - 1)] ==
            LET lo == r[1]  hi == r[2]  mid == (lo + hi) \div 2 IN
            IF lo > hi THEN lo
            ELSE IF array[mid + 1].hash > h THEN loop[<<lo, mid - 1>>]
            ELSE loop[<<mid + 1, hi>>]
    IN loop[<<0, Len(array) - 1>>]

\* binarySearchRing(), with 0-based indexes as in the code.
Search(array, h) ==
    LET loop[r \in (0 .. Len(array)) \X (-1 .. Len(array) - 1)] ==
            LET lo == r[1]  hi == r[2]  mid == (lo + hi) \div 2 IN
            IF lo > hi THEN lo
            ELSE IF array[mid + 1].hash >= h THEN loop[<<lo, mid - 1>>]
            ELSE loop[<<mid + 1, hi>>]
    IN loop[<<0, Len(array) - 1>>]

\* getNode(): past the last point the circle begins again.
GetNode(array, h) ==
    LET index == Search(array, h) IN
    IF index = Len(array) THEN array[1].id ELSE array[index + 1].id

\* The ids of the points from an index on, round the circle, each id once;
\* getNodes() takes the first `replicas` of them.
Distinct(array, index) ==
    LET at(k) == array[((index + k) % Len(array)) + 1].id
        First == {k \in 0 .. Len(array) - 1 : \A j \in 0 .. k - 1 : at(j) # at(k)}
    IN [i \in 1 .. Cardinality(First) |->
            at(CHOOSE k \in First : Cardinality({j \in First : j <= k}) = i)]

\* getNodes(), for fewer replicas than there are nodes and no more than there
\* are nodes with points (otherwise the loop of the code does not end).
GetNodes(array, h, replicas) == SubSeq(Distinct(array, Search(array, h)), 1, replicas)

-----------------------------------------------------------------------------
\* The provider

\* (mutant) the cache outlives a node.
CacheKept == UNCHANGED cache

CacheCleared == cache' = [x \in Inputs |-> None]

AddNode(n) ==
    /\ n.weight >= 0
    /\ nodeMap' = [nodeMap EXCEPT ![n.id] = n]
    /\ RingAdd(n.id, n.weight)
    /\ CacheCleared
    /\ UNCHANGED hash

\* A negative weight: the ring throws when the map has the node already.  The
\* client adds no id twice, so the ring does not have it.
AddRefused(n) ==
    /\ n.weight < 0 /\ n.id \notin ring
    /\ nodeMap' = [nodeMap EXCEPT ![n.id] = n]
    /\ UNCHANGED <<hash, clock, before, ring, cache>>

RemoveNode(c) ==
    /\ nodeMap' = [nodeMap EXCEPT ![c] = None]
    /\ RingRemove(c)
    /\ CacheCleared
    /\ UNCHANGED hash

Cached == {x \in Inputs : cache[x] # None}

\* A key that is not cached: its owner is, after a full cache is emptied.
GetNodesByKey(x) ==
    /\ cache[x] = None
    /\ \E c \in ring :
          /\ Owns(c, InputHash[x])
          /\ nodeMap[c] # None
          /\ cache' = [y \in Inputs |-> IF y = x THEN nodeMap[c]
                                        ELSE IF Cardinality(Cached) >= CacheMax THEN None
                                        ELSE cache[y]]
    /\ UNCHANGED <<hash, clock, before, ring, nodeMap>>

Next ==
    \/ \E n \in Nodes : AddNode(n) \/ AddRefused(n)
    \/ \E c \in Ids : RemoveNode(c)
    \/ \E x \in Inputs : GetNodesByKey(x)

Spec == Init /\ [][Next]_vars

-----------------------------------------------------------------------------
\* Properties

Points == [hash : Hashes, id : Ids]

TypeOK ==
    /\ hash \in HashFunctions
    /\ clock \subseteq Points
    /\ ring \subseteq Ids
    /\ before \subseteq ring \X ring
    /\ \A p \in clock : p.id \in ring
    /\ nodeMap \in [Ids -> Nodes \cup {None}]
    /\ cache \in [Inputs -> Nodes \cup {None}]

\* A key has at most one owner, also where points of several nodes have the
\* same hash (ketama.ts 474-500).
AtMostOneOwner ==
    \A h \in Hashes : \A c, d \in Ids : Owns(c, h) /\ Owns(d, h) => c = d

\* A step that changes node d moves no key from one other node to another; a
\* node that joins takes keys only, one that leaves gives up only its own
\* (ketama.ts 188-226).
OnlyAffectedKeysMove ==
    [][\A d \in Ids : nodeMap'[d] # nodeMap[d] =>
          \A h \in Hashes : \A c \in Ids \ {d} :
              /\ d \notin ring => (Owns(c, h)' => Owns(c, h))
              /\ d \notin ring' => (Owns(c, h) => Owns(c, h)')
              /\ \A e \in Ids \ {d} : Owns(c, h) /\ Owns(e, h)' => c = e]_vars

\* What is cached is what a fresh lookup would find (ketama.ts 430-472).
CacheFresh ==
    \A x \in Cached : \E c \in ring : Owns(c, InputHash[x]) /\ cache[x] = nodeMap[c]

\* The binary search finds the owner of every hash, the provider has a node
\* for it, and getNodes() finds every node that has points, each one the node
\* that would own the hash if those before it were removed (ketama.ts 246-304,
\* 484-500).
SearchFindsOwner ==
    clock # {} =>
        LET array == Array IN
        \A h \in Hashes :
            LET count == Cardinality({p.id : p \in clock})
                all   == GetNodes(array, h, count)
            IN  /\ Owns(GetNode(array, h), h)
                /\ nodeMap[GetNode(array, h)] # None
                /\ \A r \in 1 .. count :
                      LET left == {p \in clock : \A j \in 1 .. r - 1 : p.id # all[j]} IN
                      GetNode(Sorted(left), h) = all[r]

=============================================================================
