--------------------------- MODULE BroadcastHash ---------------------------
(***************************************************************************)
(* BroadcastHash of src/src/broadcast.ts: every key goes to every node.  A *)
(* map of the runtime keeps the order of insertion; the nodes are handed   *)
(* out from an array that is rebuilt when the map changes.                 *)
(***************************************************************************)
EXTENDS SequencesExt

CONSTANT Ids       \* node ids

VARIABLES
    nodeMap,       \* the ids in nodeMap, in the order of their insertion
    nodeCache      \* nodeCache

vars == <<nodeMap, nodeCache>>

Init ==
    /\ nodeMap = <<>>
    /\ nodeCache = <<>>

Has(c) == Contains(nodeMap, c)

RebuildCache == nodeCache' = nodeMap'

\* addNode(): an id that is there keeps its place.
AddNode(c) ==
    /\ nodeMap' = IF Has(c) THEN nodeMap ELSE Append(nodeMap, c)
    /\ RebuildCache

\* (mutant) removeNode() that does not rebuild the array.
RemoveStale(c) ==
    /\ \E i \in DOMAIN nodeMap : nodeMap[i] = c /\ nodeMap' = RemoveAt(nodeMap, i)
    /\ UNCHANGED nodeCache

\* removeNode(); an id has one place.
RemoveNode(c) ==
    \/ /\ \E i \in DOMAIN nodeMap : nodeMap[i] = c /\ nodeMap' = RemoveAt(nodeMap, i)
       /\ RebuildCache
    \/ ~Has(c) /\ UNCHANGED vars

\* getNodesByKey(), whatever the key.
GetNodesByKey == nodeCache

Next == \E c \in Ids : AddNode(c) \/ RemoveNode(c)

=============================================================================
