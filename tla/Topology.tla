------------------------------ MODULE Topology ------------------------------
(***************************************************************************)
(* The nodes of a Memcache client (src/src/index.ts): adding and removing  *)
(* them, the hash provider that routes keys to them, the lazy connections  *)
(* of getNodesByKey(), and the configurations of auto discovery.           *)
(*                                                                         *)
(* A node is an instance of MemcacheNode, here no more than its host and   *)
(* the state of its connection (MemcacheNode has the rest).  addNode() and *)
(* removeNode() await nothing but settled promises and are single steps;   *)
(* applyClusterConfig() is one step per node it adds or removes, and other *)
(* calls come between them.                                                *)
(***************************************************************************)
EXTENDS Integers, Sequences, FiniteSets, SequencesExt

CONSTANTS
    Hosts,          \* addresses of nodes
    V6,             \* those that are IPv6
    Configs,        \* the configurations discovery may report, as sets of hosts
    MaxInstances,   \* bound on the nodes that are ever created
    Lookups,        \* calls of getNodesByKey() that may be under way at once
    MaxCalls,       \* bound on the calls of the users
    MaxFailures     \* bound on the connections that fail or are lost

ASSUME HostsAssumption   == /\ IsFiniteSet(Hosts) /\ "nobody" \notin Hosts
                            /\ V6 \subseteq Hosts /\ Configs \subseteq SUBSET Hosts
ASSUME BoundsAssumption  == {MaxInstances, MaxCalls, MaxFailures} \subseteq Nat

Instances == 1 .. MaxInstances
Nobody    == "nobody"     \* the host of an instance that does not exist

VARIABLES
    nodes,       \* _nodes
    hashed,      \* the nodes the provider _hash routes keys to
    host,        \* the host of each instance
    conn,        \* the connection of each instance
    lookup,      \* per call of getNodesByKey(): how far it is, the nodes it has to visit
    connecting,  \* a call of connect(): how far it is, the nodes it waits for
    discovery,   \* _autoDiscovery: none, starting, running, or kept after a failure
    apply,       \* applyClusterConfig(): its configuration and what it has to do
    touched,     \* hosts that others changed since the configuration arrived
    forgotten,   \* nodes there were when _hash was replaced
    overtaken,   \* nodes removed while a lookup still had to visit them
    made,        \* calls of the users so far
    failures     \* connections that failed or were lost

vars == <<nodes, hashed, host, conn, lookup, connecting, discovery, apply, touched,
          forgotten, overtaken, made, failures>>

calls   == <<lookup, connecting>>
history == <<touched, forgotten, overtaken>>

Idle == [stage |-> "idle", config |-> {}, toAdd |-> {}, toRemove |-> {}, served |-> FALSE]

Init ==
    /\ \E initial \in SUBSET Hosts :
          host = [i \in Instances |->
                     IF i <= Cardinality(initial) THEN SetToSeq(initial)[i] ELSE Nobody]
    /\ nodes = {i \in Instances : host[i] # Nobody}
    /\ hashed = nodes
    /\ conn = [i \in Instances |-> "off"]
    /\ lookup = [l \in Lookups |-> [stage |-> "idle", todo |-> <<>>]]
    /\ connecting = [stage |-> "idle", waits |-> {}]
    /\ discovery = "none"
    /\ apply = Idle
    /\ touched = {} /\ forgotten = {} /\ overtaken = {}
    /\ made = 0 /\ failures = 0

-----------------------------------------------------------------------------
\* The list of nodes

Ids   == {host[i] : i \in nodes}
Free  == {i \in Instances : host[i] = Nobody}
Fresh == CHOOSE i \in Free : TRUE

\* What addNode() and removeNode() take for the id of a host: without the
\* brackets of an IPv6 address it is the id of no node.
Named(h) == IF h \in V6 THEN {} ELSE {i \in nodes : host[i] = h}

\* (mutant) an id that is taken is not refused.
PutInAnyway(h) ==
    /\ host' = [host EXCEPT ![Fresh] = h]
    /\ nodes' = nodes \cup {Fresh}
    /\ hashed' = {i \in hashed : host[i] # h} \cup {Fresh}

\* (mutant) a node is listed that was never created.
PutInUnmade(h) ==
    /\ nodes' = nodes \cup {Fresh}
    /\ hashed' = hashed \cup {Fresh}
    /\ UNCHANGED host

\* addNode(): a provider has one node per id.
PutIn(h) ==
    IF Named(h) # {}
    THEN UNCHANGED <<host, nodes, hashed>>
    ELSE /\ host' = [host EXCEPT ![Fresh] = h]
         /\ nodes' = nodes \cup {Fresh}
         /\ hashed' = {i \in hashed : host[i] # h} \cup {Fresh}

\* disconnect() of nodes: the calls that await their connection hang.
Hangs(call, gone) == call.stage = "waiting" /\ call.todo # <<>> /\ Head(call.todo) \in gone

Cut(gone) ==
    /\ lookup' = [l \in Lookups |-> IF Hangs(lookup[l], gone)
                                    THEN [lookup[l] EXCEPT !.stage = "hung"] ELSE lookup[l]]
    /\ connecting' = IF connecting.stage = "waiting" /\ connecting.waits \cap gone # {}
                     THEN [connecting EXCEPT !.stage = "hung"] ELSE connecting

\* The nodes a lookup will connect when what it awaits now is over.
ToVisit(l) ==
    CASE lookup[l].stage = "visiting" -> ToSet(lookup[l].todo)
      [] lookup[l].stage = "waiting"  -> ToSet(Tail(lookup[l].todo))
      [] OTHER                        -> {}

\* (mutant) a node is removed with its connection open.
TakeOutOpen(h) ==
    LET gone == Named(h) IN
    /\ nodes' = nodes \ gone
    /\ hashed' = {i \in hashed : host[i] # h \/ gone = {}}
    /\ overtaken' = overtaken \cup (gone \cap UNION {ToVisit(l) : l \in Lookups})
    /\ UNCHANGED <<conn, lookup, connecting>>

TakeOut(h) ==
    LET gone == Named(h) IN
    /\ nodes' = nodes \ gone
    /\ hashed' = {i \in hashed : host[i] # h \/ gone = {}}
    /\ conn' = [i \in Instances |-> IF i \in gone THEN "off" ELSE conn[i]]
    /\ Cut(gone)
    /\ overtaken' = overtaken \cup (gone \cap UNION {ToVisit(l) : l \in Lookups})

\* A user calls addNode() or removeNode(); the bound leaves the discovered
\* nodes their instances.
AddNode(h) ==
    /\ Cardinality(Free) > Cardinality(apply.toAdd)
    /\ Named(h) = {}
    /\ PutIn(h)
    /\ touched' = touched \cup {h}
    /\ UNCHANGED <<conn, calls, discovery, apply, forgotten, overtaken>>

RemoveNode(h) ==
    /\ Named(h) # {}
    /\ TakeOut(h)
    /\ touched' = touched \cup {h}
    /\ UNCHANGED <<host, discovery, apply, forgotten>>

\* The hash setter: the new provider is not told of the nodes there are.
SetHash ==
    /\ hashed' = {}
    /\ forgotten' = nodes
    /\ touched' = Hosts
    /\ UNCHANGED <<nodes, host, conn, calls, discovery, apply, overtaken>>

-----------------------------------------------------------------------------
\* Connections

Dial(is) == conn' = [i \in Instances |-> IF i \in is /\ conn[i] = "off" THEN "connecting" ELSE conn[i]]

\* getNodesByKey(): one node, or all of them with BroadcastHash; none throws.
Lookup(l) ==
    /\ lookup[l].stage = "idle"
    /\ \E found \in ({{i} : i \in hashed} \cup {hashed}) \ {{}} :
          lookup' = [lookup EXCEPT ![l] = [stage |-> "visiting", todo |-> SetToSeq(found)]]
    /\ UNCHANGED <<nodes, hashed, host, conn, connecting, discovery, apply, history>>

\* The next node of a lookup, which is connected unless it is already.
Visit(l) ==
    /\ lookup[l].stage = "visiting"
    /\ IF lookup[l].todo = <<>>
       THEN /\ lookup' = [lookup EXCEPT ![l].stage = "idle"]
            /\ UNCHANGED conn
       ELSE LET i == Head(lookup[l].todo) IN
            IF conn[i] = "on"
            THEN /\ lookup' = [lookup EXCEPT ![l].todo = Tail(@)]
                 /\ UNCHANGED conn
            ELSE /\ Dial({i})
                 /\ lookup' = [lookup EXCEPT ![l].stage = "waiting"]
    /\ UNCHANGED <<nodes, hashed, host, connecting, discovery, apply, history>>

\* connect() of the client.
Connect ==
    /\ connecting.stage = "idle"
    /\ Dial(nodes)
    /\ connecting' = [stage |-> "waiting", waits |-> {i \in nodes : conn[i] # "on"}]
    /\ UNCHANGED <<nodes, hashed, host, lookup, discovery, apply, history>>

\* connect() of one node, by its id, which starts no discovery.
ConnectOne(i) ==
    /\ i \in nodes
    /\ Dial({i})
    /\ UNCHANGED <<nodes, hashed, host, calls, discovery, apply, history>>

\* Every node is connected: discovery starts, unless there is an object for it.
Connected ==
    /\ connecting.stage = "waiting"
    /\ connecting.waits = {}
    /\ connecting' = [connecting EXCEPT !.stage = "idle"]
    /\ discovery' = IF discovery = "none" THEN "starting" ELSE discovery
    /\ UNCHANGED <<nodes, hashed, host, conn, lookup, apply, history>>

Waits(l, i) == lookup[l].stage = "waiting" /\ Head(lookup[l].todo) = i

Ready(i) ==
    /\ conn[i] = "connecting"
    /\ conn' = [conn EXCEPT ![i] = "on"]
    /\ lookup' = [l \in Lookups |->
           IF Waits(l, i) THEN [stage |-> "visiting", todo |-> Tail(lookup[l].todo)] ELSE lookup[l]]
    /\ connecting' = [connecting EXCEPT !.waits = @ \ {i}]
    /\ UNCHANGED <<nodes, hashed, host, discovery, apply, history>>

\* A connection cannot be made: whoever awaits it fails as a whole.
Refused(i) ==
    /\ conn[i] = "connecting"
    /\ conn' = [conn EXCEPT ![i] = "off"]
    /\ lookup' = [l \in Lookups |-> IF Waits(l, i) THEN [stage |-> "idle", todo |-> <<>>] ELSE lookup[l]]
    /\ connecting' = IF connecting.stage = "waiting" /\ i \in connecting.waits
                     THEN [stage |-> "idle", waits |-> {}] ELSE connecting
    /\ UNCHANGED <<nodes, hashed, host, discovery, apply, history>>

Lost(i) ==
    /\ conn[i] = "on"
    /\ conn' = [conn EXCEPT ![i] = "off"]
    /\ UNCHANGED <<nodes, hashed, host, calls, discovery, apply, history>>

\* disconnect() of the client: discovery is stopped and forgotten.
Disconnect ==
    /\ discovery' = "none"
    /\ conn' = [i \in Instances |-> IF i \in nodes THEN "off" ELSE conn[i]]
    /\ Cut(nodes)
    /\ UNCHANGED <<nodes, hashed, host, apply, history>>

\* quit() passes over the nodes that are not connected.
Quit ==
    /\ discovery' = "none"
    /\ conn' = [i \in Instances |-> IF i \in nodes /\ conn[i] = "on" THEN "off" ELSE conn[i]]
    /\ UNCHANGED <<nodes, hashed, host, calls, apply, history>>

\* reconnect() of the client.
Reconnect ==
    /\ conn' = [i \in Instances |-> IF i \in nodes THEN "connecting" ELSE conn[i]]
    /\ Cut(nodes)
    /\ UNCHANGED <<nodes, hashed, host, discovery, apply, history>>

-----------------------------------------------------------------------------
\* Auto discovery (AutoDiscovery has how a configuration is obtained)

\* (mutant) nodes that left the cluster are not looked for.
ApplyOnlyAdds(config) ==
    /\ touched' = {}
    /\ apply' = IF config = {} THEN Idle
                ELSE [stage |-> "adding", config |-> config, toAdd |-> config \ Ids,
                      toRemove |-> {}, served |-> hashed # {} /\ forgotten \cap nodes = {}]

\* applyClusterConfig() compares the ids there are with those of the
\* configuration; one without nodes is not applied.
Apply(config) ==
    /\ touched' = {}
    /\ apply' = IF config = {} THEN Idle
                ELSE [stage |-> "adding", config |-> config, toAdd |-> config \ Ids,
                      toRemove |-> Ids \ config, served |-> hashed # {} /\ forgotten \cap nodes = {}]

CanApply(config) ==
    /\ apply.stage \in {"idle", "done"}
    /\ Cardinality(config \ Ids) <= Cardinality(Free)

Started(config) ==
    /\ discovery = "starting"
    /\ discovery' = "running"
    /\ CanApply(config)
    /\ Apply(config)
    /\ UNCHANGED <<nodes, hashed, host, conn, calls, forgotten, overtaken>>

\* start() fails; the object is kept.
NotStarted ==
    /\ discovery = "starting"
    /\ discovery' = "failed"
    /\ UNCHANGED <<nodes, hashed, host, conn, calls, apply, history>>

Update(config) ==
    /\ discovery = "running"
    /\ CanApply(config)
    /\ Apply(config)
    /\ UNCHANGED <<nodes, hashed, host, conn, calls, discovery, forgotten, overtaken>>

\* An id that is taken meanwhile is an error event, and no more.
AddDiscovered(h) ==
    /\ apply.stage = "adding"
    /\ h \in apply.toAdd
    /\ PutIn(h)
    /\ apply' = [apply EXCEPT !.toAdd = @ \ {h}]
    /\ UNCHANGED <<conn, calls, discovery, history>>

\* (mutant) nodes are removed before the new ones are added.
RemoveDiscoveredFirst(h) ==
    /\ apply.stage = "adding"
    /\ h \in apply.toRemove
    /\ TakeOut(h)
    /\ apply' = [apply EXCEPT !.toRemove = @ \ {h}]
    /\ UNCHANGED <<host, discovery, touched, forgotten>>

RemoveDiscovered(h) ==
    /\ apply.stage = "adding"
    /\ apply.toAdd = {}
    /\ h \in apply.toRemove
    /\ TakeOut(h)
    /\ apply' = [apply EXCEPT !.toRemove = @ \ {h}]
    /\ UNCHANGED <<host, discovery, touched, forgotten>>

Applied ==
    /\ apply.stage = "adding"
    /\ apply.toAdd = {} /\ apply.toRemove = {}
    /\ apply' = [apply EXCEPT !.stage = "done"]
    /\ UNCHANGED <<nodes, hashed, host, conn, calls, discovery, history>>

-----------------------------------------------------------------------------
UserCalls ==
    /\ made < MaxCalls
    /\ made' = made + 1
    /\ UNCHANGED failures
    /\ \/ \E h \in Hosts : AddNode(h) \/ RemoveNode(h)
       \/ SetHash \/ Connect \/ Disconnect \/ Quit \/ Reconnect
       \/ \E i \in Instances : ConnectOne(i)
       \/ \E l \in Lookups : Lookup(l)

Fails ==
    /\ failures < MaxFailures
    /\ failures' = failures + 1
    /\ UNCHANGED made
    /\ NotStarted \/ \E i \in Instances : Refused(i) \/ Lost(i)

Goes ==
    /\ UNCHANGED <<made, failures>>
    /\ \/ \E config \in Configs : Started(config) \/ Update(config)
       \/ \E h \in Hosts : AddDiscovered(h) \/ RemoveDiscovered(h)
       \/ Applied
       \/ \E l \in Lookups : Visit(l)
       \/ Connected
       \/ \E i \in Instances : Ready(i)

Next == UserCalls \/ Goes \/ Fails

Spec == Init /\ [][Next]_vars

-----------------------------------------------------------------------------
\* Properties

TypeOK ==
    /\ nodes \subseteq Instances /\ hashed \subseteq Instances
    /\ host \in [Instances -> Hosts \cup {Nobody}]
    /\ \A i \in nodes : host[i] \in Hosts
    /\ conn \in [Instances -> {"off", "connecting", "on"}]
    /\ lookup \in [Lookups -> [stage : {"idle", "visiting", "waiting", "hung"},
                               todo : Seq(Instances)]]
    /\ connecting \in [stage : {"idle", "waiting", "hung"}, waits : SUBSET Instances]
    /\ discovery \in {"none", "starting", "running", "failed"}
    /\ apply \in [stage : {"idle", "adding", "done"}, config : SUBSET Hosts,
                  toAdd : SUBSET Hosts, toRemove : SUBSET Hosts, served : BOOLEAN]
    /\ touched \subseteq Hosts
    /\ forgotten \cup overtaken \subseteq Instances
    /\ made \in 0 .. MaxCalls /\ failures \in 0 .. MaxFailures

\* Keys are routed to nodes of the list only, and every node of the list gets
\* its share, but for those that a new hash provider was not told of and for
\* an IPv6 node added twice (index.ts 504-561).
NodesMatchHash ==
    /\ hashed \subseteq nodes
    /\ \A i \in nodes \ hashed :
          i \in forgotten \/ (host[i] \in V6 /\ \E j \in nodes : j # i /\ host[j] = host[i])

\* When a configuration has been applied the nodes are those it lists, except
\* where a user added or removed some meanwhile; IPv6 nodes it no longer
\* lists stay (index.ts 1688-1725).
TopologyFollowsConfig ==
    apply.stage = "done" =>
        /\ apply.config \ Ids \subseteq touched
        /\ Ids \ apply.config \subseteq touched \cup V6

\* While a configuration is applied a key always has a node: new nodes come
\* before old ones go (index.ts 1703-1724).
LookupsFindNodes ==
    apply.stage = "adding" /\ apply.served /\ touched = {} => hashed # {}

\* A node that was removed has no connection, unless a lookup that began
\* before the removal connects it afterwards (index.ts 550-561, 1352-1372).
NoOrphan ==
    \A i \in Instances : conn[i] # "off" /\ i \notin nodes => i \in overtaken

=============================================================================
