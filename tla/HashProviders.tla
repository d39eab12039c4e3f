--------------------------- MODULE HashProviders ---------------------------
(***************************************************************************)
(* The three hash providers, of which a client has one: KetamaHash,        *)
(* ModulaHash or BroadcastHash.  Each implements HashProvider.             *)
(***************************************************************************)
EXTENDS KetamaHash, SequencesExt

CONSTANTS
    ModulaWeights,  \* weights of the nodes of a ModulaHash
    MaxEntries      \* bound on the length of its list

VARIABLES
    provider,       \* which one the client has
    modulaMap, modulaList, broadcastMap, broadcastCache

Modula == INSTANCE ModulaHash WITH
    Weights <- ModulaWeights, nodeMap <- modulaMap, nodeList <- modulaList
Broadcast == INSTANCE BroadcastHash WITH nodeMap <- broadcastMap, nodeCache <- broadcastCache

ASSUME ModulaAssumption == Modula!ConstantsFit

ketamaVars    == vars
modulaVars    == <<modulaMap, modulaList>>
broadcastVars == <<broadcastMap, broadcastCache>>
providerVars  == <<provider, ketamaVars, modulaVars, broadcastVars>>

ProvidersInit ==
    /\ provider \in {"ketama", "modula", "broadcast"}
    /\ Init
    /\ Modula!Init
    /\ Broadcast!Init

ProvidersNext ==
    /\ \/ provider = "ketama"    /\ Next           /\ UNCHANGED <<modulaVars, broadcastVars>>
       \/ provider = "modula"    /\ Modula!Next    /\ UNCHANGED <<ketamaVars, broadcastVars>>
       \/ provider = "broadcast" /\ Broadcast!Next /\ UNCHANGED <<ketamaVars, modulaVars>>
    /\ UNCHANGED provider

ProvidersSpec == ProvidersInit /\ [][ProvidersNext]_providerVars

-----------------------------------------------------------------------------
\* The nodes the provider has, those that have a share of the keys, and where
\* a key goes.

Members ==
    CASE provider = "ketama"    -> {c \in Ids : nodeMap[c] # None}
      [] provider = "modula"    -> DOMAIN modulaMap
      [] provider = "broadcast" -> {c \in Ids : Broadcast!Has(c)}

Taking ==
    CASE provider = "ketama"    -> {p.id : p \in clock}
      [] provider = "modula"    -> {modulaList[i] : i \in DOMAIN modulaList}
      [] provider = "broadcast" -> {c \in Ids : Broadcast!Has(c)}

\* KetamaHash.getNodesByKey(): what is cached, or else what the ring finds.
KetamaRoute(x) ==
    IF cache[x] # None THEN <<cache[x].id>>
    ELSE SetToSeq({c \in Ids : Owns(c, InputHash[x]) /\ nodeMap[c] # None})

Routes ==
    [x \in Inputs |->
        CASE provider = "ketama"    -> KetamaRoute(x)
          [] provider = "modula"    -> Modula!GetNodesByKey(x)
          [] provider = "broadcast" -> Broadcast!GetNodesByKey]

Interface == INSTANCE HashProvider WITH
    members <- Members, taking <- Taking, routes <- Routes

\* Each provider keeps the contract of the interface: every key has nodes as
\* long as a node takes keys, they are nodes the provider has, and where a key
\* goes changes only with the nodes (types.ts 55-62).
ImplementsProvider == Interface!Spec

\* A node of a ModulaHash has the share of the keys its weight says
\* (README.md 630).
SharesFollowWeights == Modula!SharesFollowWeights

=============================================================================
