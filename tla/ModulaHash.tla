----------------------------- MODULE ModulaHash -----------------------------
(***************************************************************************)
(* ModulaHash of src/src/modula.ts: the ids of the nodes stand in a list,  *)
(* each as often as its weight says, and a key takes the entry at its hash *)
(* modulo the length.  The hash function is any function.                  *)
(***************************************************************************)
EXTENDS Integers, Sequences, FiniteSets, Functions

CONSTANTS
    Ids,        \* node ids
    Weights,    \* weights, in hundredths; the setter of a node takes any
    Inputs,     \* keys that are looked up
    InputHash,  \* hash of each key
    MaxEntries  \* bound on the length of the list

\* What is assumed of the constants.
ConstantsFit ==
    /\ Weights \subseteq Int /\ MaxEntries \in Nat
    /\ \A x \in Inputs : InputHash[x] \in Nat

VARIABLES
    nodeMap,    \* nodeMap: the weight of the node of each id that is there
    nodeList    \* nodeList

vars == <<nodeMap, nodeList>>

Init ==
    /\ nodeMap = <<>>
    /\ nodeList = <<>>

\* How often the loop of addNode() runs: i < (weight || 1), from 0.
Entries(w) == IF w = 0 THEN 1 ELSE IF w < 0 THEN 0 ELSE (w + 99) \div 100

\* addNode().  An id that is there keeps its old entries.
AddNode(c, w) ==
    /\ Len(nodeList) + Entries(w) <= MaxEntries
    /\ nodeMap' = [d \in DOMAIN nodeMap \cup {c} |-> IF d = c THEN w ELSE nodeMap[d]]
    /\ nodeList' = nodeList \o [i \in 1 .. Entries(w) |-> c]

\* (mutant) removeNode() that removes the first entry only.
RemoveFirst(c) ==
    LET first == {i \in DOMAIN nodeList : nodeList[i] = c
                      /\ \A j \in 1 .. i - 1 : nodeList[j] # c}
    IN  /\ nodeMap' = Restrict(nodeMap, DOMAIN nodeMap \ {c})
        /\ nodeList' = IF first = {} THEN nodeList
                       ELSE LET i == CHOOSE i \in first : TRUE
                            IN  SubSeq(nodeList, 1, i - 1) \o SubSeq(nodeList, i + 1, Len(nodeList))

\* What filter() keeps: the entries at the places I, in their order.
Kept(I) ==
    [k \in 1 .. Cardinality(I) |->
        nodeList[CHOOSE i \in I : Cardinality({j \in I : j <= i}) = k]]

\* removeNode()
RemoveNode(c) ==
    /\ nodeMap' = Restrict(nodeMap, DOMAIN nodeMap \ {c})
    /\ nodeList' = Kept({i \in DOMAIN nodeList : nodeList[i] # c})

\* getNodesByKey(): at most one node.
GetNodesByKey(x) ==
    IF nodeList = <<>> THEN <<>>
    ELSE LET c == nodeList[(InputHash[x] % Len(nodeList)) + 1]
         IN  IF c \in DOMAIN nodeMap THEN <<c>> ELSE <<>>

Next ==
    \E c \in Ids : \/ \E w \in Weights : AddNode(c, w)
                   \/ RemoveNode(c)

-----------------------------------------------------------------------------
\* Of Len(nodeList) equal shares of the hashes, node c has this many.
Share(c) == Cardinality({i \in DOMAIN nodeList : nodeList[i] = c})

\* A node that joins gets the share of the keys its weight says, also when it
\* was there before, and what other nodes do leaves its share alone
\* (modula.ts 126-153, README.md 630).
SharesFollowWeights ==
    [][\A c \in Ids :
          /\ c \in DOMAIN nodeMap' \ DOMAIN nodeMap => Share(c)' = Entries(nodeMap'[c])
          /\ c \in DOMAIN nodeMap \cap DOMAIN nodeMap' => Share(c)' >= Share(c)
          /\ c \notin DOMAIN nodeMap' => Share(c)' = 0]_vars

=============================================================================
