--------------------------- MODULE TopologyProofs ---------------------------
(***************************************************************************)
(* Theorems about Topology, for any finite set of hosts, IPv6 or not, any  *)
(* configurations, any number of instances, lookups, calls and failures.   *)
(***************************************************************************)
EXTENDS Topology, FiniteSetTheorems, TLAPS

USE HostsAssumption DEF Nobody

-----------------------------------------------------------------------------
\* Sets as sequences

\* SetToSeq() lists a finite set: every element, and nothing else.
LEMMA SetToSeqLists ==
    ASSUME NEW S, IsFiniteSet(S)
    PROVE  SetToSeq(S) \in [1 .. Cardinality(S) -> S] /\ Cardinality(S) \in Nat
<1>1. Cardinality(S) \in Nat /\ ExistsBijection(1 .. Cardinality(S), S)
  BY FS_CardinalityType
<1>2. PICK f \in Bijection(1 .. Cardinality(S), S) : TRUE
  BY <1>1 DEF ExistsBijection
<1>3. f \in [1 .. Cardinality(S) -> S] /\ IsInjective(f)
  BY <1>2 DEF Bijection, Injection, IsInjective
<1> QED
  BY <1>1, <1>3 DEF SetToSeq

LEMMA SetToSeqIsSeq ==
    ASSUME NEW S, IsFiniteSet(S)
    PROVE  SetToSeq(S) \in Seq(S)
BY SetToSeqLists

\* What is in the tail of a list is in the list.
LEMMA TailInList ==
    ASSUME NEW S, NEW s \in Seq(S), s # <<>>
    PROVE  /\ Tail(s) \in Seq(S) /\ Head(s) \in ToSet(s) /\ ToSet(Tail(s)) \subseteq ToSet(s)
           /\ Head(s) \in S
BY DEF ToSet

LEMMA InstancesAreFinite ==
    ASSUME NEW S \in SUBSET Instances
    PROVE  IsFiniteSet(S)
<1>1. MaxInstances \in Int
  BY BoundsAssumption
<1>2. IsFiniteSet(Instances)
  BY <1>1, FS_Interval DEF Instances
<1> QED
  BY <1>2, FS_Subset

LEMMA HostsAreFinite ==
    ASSUME NEW S \in SUBSET Hosts
    PROVE  IsFiniteSet(S) /\ Cardinality(S) \in Nat
BY FS_Subset, FS_CardinalityType

\* As long as there is a free instance, Fresh is one.
LEMMA FreshIsFree ==
    ASSUME Free # {}
    PROVE  Fresh \in Free /\ Fresh \in Instances
BY DEF Fresh, Free

-----------------------------------------------------------------------------
\* Type correctness

\* addNode() needs a free instance for each node that is still to be added, so
\* that Fresh is one: what the guard of AddNode and CanApply keep.
RoomLeft == Cardinality(apply.toAdd) <= Cardinality(Free)

\* A lookup that waits for a connection has a node to wait for.
WaitsForOne == \A l \in Lookups : lookup[l].stage = "waiting" => lookup[l].todo # <<>>

Types == TypeOK /\ RoomLeft /\ WaitsForOne

\* What putting in a node does, once there is an instance for it.
LEMMA PutInEffect ==
    ASSUME TypeOK, NEW h \in Hosts, PutIn(h), Named(h) = {} => Free # {}
    PROVE  /\ nodes' \subseteq Instances /\ hashed' \subseteq Instances
           /\ host' \in [Instances -> Hosts \cup {Nobody}]
           /\ \A i \in nodes' : host'[i] \in Hosts
           /\ Named(h) = {} => /\ Fresh \in Free /\ Free' = Free \ {Fresh}
                               /\ host' = [host EXCEPT ![Fresh] = h]
           /\ Named(h) # {} => Free' = Free
<1>1. CASE Named(h) # {}
  BY <1>1 DEF PutIn, TypeOK, Free
<1>2. CASE Named(h) = {}
  <2>1. Fresh \in Free /\ Fresh \in Instances /\ host[Fresh] = Nobody
    BY <1>2, FreshIsFree DEF Free
  <2>2. /\ host' = [host EXCEPT ![Fresh] = h]
        /\ nodes' = nodes \cup {Fresh}
        /\ hashed' = {i \in hashed : host[i] # h} \cup {Fresh}
    BY <1>2 DEF PutIn
  <2>3. host \in [Instances -> Hosts \cup {Nobody}] /\ nodes \subseteq Instances
        /\ hashed \subseteq Instances /\ \A i \in nodes : host[i] \in Hosts
    BY DEF TypeOK
  <2>4. \A i \in Instances : host'[i] = IF i = Fresh THEN h ELSE host[i]
    BY <2>2, <2>3
  <2>5. host' \in [Instances -> Hosts \cup {Nobody}]
    BY <2>1, <2>2, <2>3
  <2>6. Free' = Free \ {Fresh}
    BY <2>1, <2>4 DEF Free
  <2> QED
    BY <1>2, <2>1, <2>2, <2>3, <2>4, <2>5, <2>6
<1> QED
  BY <1>1, <1>2

\* Taking out a node leaves the calls in the shape they have.
LEMMA CutTypes ==
    ASSUME TypeOK, WaitsForOne, NEW gone, Cut(gone)
    PROVE  /\ lookup' \in [Lookups -> [stage : {"idle", "visiting", "waiting", "hung"},
                                      todo : Seq(Instances)]]
           /\ connecting' \in [stage : {"idle", "waiting", "hung"}, waits : SUBSET Instances]
           /\ WaitsForOne'
<1>1. \A l \in Lookups : [lookup[l] EXCEPT !.stage = "hung"]
         \in [stage : {"idle", "visiting", "waiting", "hung"}, todo : Seq(Instances)]
  BY DEF TypeOK
<1>2. [connecting EXCEPT !.stage = "hung"] \in [stage : {"idle", "waiting", "hung"}, waits : SUBSET Instances]
  BY DEF TypeOK
<1>3. lookup' = [l \in Lookups |-> IF Hangs(lookup[l], gone)
                                     THEN [lookup[l] EXCEPT !.stage = "hung"] ELSE lookup[l]]
  BY DEF Cut
<1>4. \A l \in Lookups : lookup'[l] = lookup[l] \/ lookup'[l].stage = "hung"
  BY <1>3 DEF TypeOK
<1>5. WaitsForOne'
  BY <1>4 DEF WaitsForOne
<1> QED
  BY <1>1, <1>2, <1>3, <1>5 DEF TypeOK, Cut

LEMMA TakeOutTypes ==
    ASSUME TypeOK, WaitsForOne, NEW h \in Hosts, TakeOut(h)
    PROVE  /\ nodes' \subseteq nodes /\ hashed' \subseteq hashed
           /\ conn' \in [Instances -> {"off", "connecting", "on"}]
           /\ lookup' \in [Lookups -> [stage : {"idle", "visiting", "waiting", "hung"},
                                      todo : Seq(Instances)]]
           /\ connecting' \in [stage : {"idle", "waiting", "hung"}, waits : SUBSET Instances]
           /\ WaitsForOne'
           /\ overtaken' \subseteq Instances
<1>1. Named(h) \subseteq nodes
  BY DEF Named
<1>2. conn' \in [Instances -> {"off", "connecting", "on"}]
  BY DEF TypeOK, TakeOut
<1> QED
  BY <1>1, <1>2, CutTypes DEF TypeOK, TakeOut

LEMMA InitTypes == Init => Types
<1> SUFFICES ASSUME Init PROVE Types
  OBVIOUS
<1>1. PICK initial \in SUBSET Hosts :
          host = [i \in Instances |->
                     IF i <= Cardinality(initial) THEN SetToSeq(initial)[i] ELSE Nobody]
  BY DEF Init
<1>2. SetToSeq(initial) \in [1 .. Cardinality(initial) -> initial] /\ Cardinality(initial) \in Nat
  BY HostsAreFinite, SetToSeqLists
<1>3. Instances \subseteq Nat \ {0}
  BY BoundsAssumption DEF Instances
<1>4. \A i \in Instances : i <= Cardinality(initial) => SetToSeq(initial)[i] \in Hosts
  BY <1>2, <1>3
<1>5. host \in [Instances -> Hosts \cup {Nobody}] /\ nodes \subseteq Instances
      /\ \A i \in nodes : host[i] \in Hosts
  BY <1>1, <1>4 DEF Init
<1>6. RoomLeft
  <2>1. Cardinality(apply.toAdd) = 0
    BY FS_EmptySet DEF Init, Idle
  <2>2. Cardinality(Free) \in Nat
    BY InstancesAreFinite, FS_CardinalityType DEF Free
  <2> QED
    BY <2>1, <2>2 DEF RoomLeft
<1>7. /\ conn \in [Instances -> {"off", "connecting", "on"}]
      /\ lookup \in [Lookups -> [stage : {"idle", "visiting", "waiting", "hung"}, todo : Seq(Instances)]]
      /\ connecting \in [stage : {"idle", "waiting", "hung"}, waits : SUBSET Instances]
  BY DEF Init
<1>8. apply \in [stage : {"idle", "adding", "done"}, config : SUBSET Hosts,
                  toAdd : SUBSET Hosts, toRemove : SUBSET Hosts, served : BOOLEAN]
  BY DEF Init, Idle
<1>9. made \in 0 .. MaxCalls /\ failures \in 0 .. MaxFailures
  BY BoundsAssumption DEF Init
<1> QED
  BY <1>5, <1>6, <1>7, <1>8, <1>9 DEF Init, TypeOK, Types, WaitsForOne
\* Dialing nodes.
LEMMA DialTypes ==
    ASSUME TypeOK, NEW is, Dial(is)
    PROVE  conn' \in [Instances -> {"off", "connecting", "on"}]
BY DEF TypeOK, Dial

LEMMA ApplyTypes ==
    ASSUME TypeOK, NEW config \in Configs, Apply(config), CanApply(config), UNCHANGED host
    PROVE  /\ apply' \in [stage : {"idle", "adding", "done"}, config : SUBSET Hosts,
                          toAdd : SUBSET Hosts, toRemove : SUBSET Hosts, served : BOOLEAN]
           /\ touched' \subseteq Hosts
           /\ RoomLeft'
<1>1. config \subseteq Hosts /\ Ids \subseteq Hosts
  BY DEF TypeOK, Ids
<1>2. CASE config = {}
  <2>1. apply' = Idle /\ Free' = Free
    BY <1>2 DEF Apply, Free
  <2>2. Cardinality(apply'.toAdd) = 0 /\ Cardinality(Free') \in Nat
    BY <2>1, FS_EmptySet, InstancesAreFinite, FS_CardinalityType DEF Idle, Free
  <2> QED
    BY <2>1, <2>2 DEF Apply, Idle, RoomLeft
<1>3. CASE config # {}
  <2>1. apply' = [stage |-> "adding", config |-> config, toAdd |-> config \ Ids,
                  toRemove |-> Ids \ config, served |-> hashed # {} /\ forgotten \cap nodes = {}]
        /\ touched' = {} /\ Free' = Free
    BY <1>3 DEF Apply, Free
  <2> QED
    BY <1>1, <2>1 DEF CanApply, RoomLeft
<1> QED
  BY <1>2, <1>3

LEMMA StepTypes == Types /\ [Next]_vars => Types'
<1> SUFFICES ASSUME Types, [Next]_vars PROVE Types'
  OBVIOUS
<1> USE DEF Types
<1>1. ASSUME NEW h \in Hosts, AddNode(h), UserCalls PROVE Types'
  <2>1. Cardinality(Free) > Cardinality(apply.toAdd) /\ Named(h) = {} /\ PutIn(h)
    BY <1>1 DEF AddNode
  <2>2. Cardinality(Free) \in Nat /\ IsFiniteSet(Free) /\ Cardinality(apply.toAdd) \in Nat
    BY InstancesAreFinite, HostsAreFinite, FS_CardinalityType DEF Free, TypeOK
  <2>3. Free # {}
    BY <2>1, <2>2, FS_EmptySet
  <2>4. /\ nodes' \subseteq Instances /\ hashed' \subseteq Instances
        /\ host' \in [Instances -> Hosts \cup {Nobody}]
        /\ \A i \in nodes' : host'[i] \in Hosts
        /\ Fresh \in Free /\ Free' = Free \ {Fresh}
    BY <2>1, <2>3, PutInEffect
  <2>5. Cardinality(Free') = Cardinality(Free) - 1
    BY <2>2, <2>4, FS_RemoveElement
  <2>6. RoomLeft'
    BY <1>1, <2>1, <2>2, <2>5 DEF AddNode, RoomLeft
  <2> QED
    BY <1>1, <2>4, <2>6, BoundsAssumption DEF AddNode, UserCalls, TypeOK, WaitsForOne, calls
<1>2. ASSUME NEW h \in Hosts, RemoveNode(h), UserCalls PROVE Types'
  <2>1. TakeOut(h) /\ UNCHANGED <<host, discovery, apply, forgotten>> /\ touched' = touched \cup {h}
    BY <1>2 DEF RemoveNode
  <2> QED
    BY <1>2, <2>1, TakeOutTypes, BoundsAssumption DEF UserCalls, TypeOK, RoomLeft, Free
<1>3. ASSUME SetHash, UserCalls PROVE Types'
  BY <1>3, BoundsAssumption DEF SetHash, UserCalls, TypeOK, RoomLeft, Free, WaitsForOne, calls
<1>4. ASSUME Connect, UserCalls PROVE Types'
  <2>1. conn' \in [Instances -> {"off", "connecting", "on"}]
    BY <1>4, DialTypes DEF Connect
  <2> QED
    BY <1>4, <2>1, BoundsAssumption DEF Connect, UserCalls, TypeOK, RoomLeft, Free, WaitsForOne, history
<1>5. ASSUME Disconnect \/ Reconnect, UserCalls PROVE Types'
  <2>1. Cut(nodes) /\ UNCHANGED <<nodes, hashed, host, apply, history>>
    BY <1>5 DEF Disconnect, Reconnect
  <2>2. conn' \in [Instances -> {"off", "connecting", "on"}]
    BY <1>5 DEF Disconnect, Reconnect, TypeOK
  <2>3. discovery' \in {"none", "starting", "running", "failed"}
    BY <1>5 DEF Disconnect, Reconnect, TypeOK
  <2> QED
    BY <1>5, <2>1, <2>2, <2>3, CutTypes, BoundsAssumption DEF UserCalls, TypeOK, RoomLeft, Free, history
<1>6. ASSUME Quit, UserCalls PROVE Types'
  BY <1>6, BoundsAssumption DEF Quit, UserCalls, TypeOK, RoomLeft, Free, WaitsForOne, calls, history
<1>7. ASSUME NEW i \in Instances, ConnectOne(i), UserCalls PROVE Types'
  <2>1. conn' \in [Instances -> {"off", "connecting", "on"}]
    BY <1>7, DialTypes DEF ConnectOne
  <2> QED
    BY <1>7, <2>1, BoundsAssumption DEF ConnectOne, UserCalls, TypeOK, RoomLeft, Free, WaitsForOne, calls, history
<1>8. ASSUME NEW l \in Lookups, Lookup(l), UserCalls PROVE Types'
  <2>1. PICK found \in ({{i} : i \in hashed} \cup {hashed}) \ {{}} :
           lookup' = [lookup EXCEPT ![l] = [stage |-> "visiting", todo |-> SetToSeq(found)]]
    BY <1>8 DEF Lookup
  <2>2. found \in SUBSET Instances
    BY DEF TypeOK
  <2>3. SetToSeq(found) \in Seq(Instances)
    BY <2>2, InstancesAreFinite, SetToSeqIsSeq
  <2>4. lookup' \in [Lookups -> [stage : {"idle", "visiting", "waiting", "hung"}, todo : Seq(Instances)]]
    BY <2>1, <2>3 DEF TypeOK
  <2>5. WaitsForOne'
    BY <2>1 DEF TypeOK, WaitsForOne
  <2> QED
    BY <1>8, <2>4, <2>5, BoundsAssumption DEF Lookup, UserCalls, TypeOK, RoomLeft, Free, history
<1>9. ASSUME Fails PROVE Types'
  <2>1. failures' \in 0 .. MaxFailures /\ made' = made
    BY <1>9, BoundsAssumption DEF Fails, TypeOK
  <2>2. CASE NotStarted
    BY <2>1, <2>2 DEF NotStarted, TypeOK, RoomLeft, Free, WaitsForOne, calls, history
  <2>3. ASSUME NEW i \in Instances, Refused(i) PROVE Types'
    BY <2>1, <2>3 DEF Refused, TypeOK, RoomLeft, Free, WaitsForOne, history
  <2>4. ASSUME NEW i \in Instances, Lost(i) PROVE Types'
    BY <2>1, <2>4 DEF Lost, TypeOK, RoomLeft, Free, WaitsForOne, calls, history
  <2> QED
    BY <1>9, <2>2, <2>3, <2>4 DEF Fails
<1>10. ASSUME NEW config \in Configs, Started(config) \/ Update(config), Goes PROVE Types'
  <2>1. CanApply(config) /\ Apply(config) /\ UNCHANGED <<nodes, hashed, host, conn, calls, forgotten, overtaken>>
    BY <1>10 DEF Started, Update
  <2>2. discovery' \in {"none", "starting", "running", "failed"}
    BY <1>10 DEF Started, Update, TypeOK
  <2> QED
    BY <1>10, <2>1, <2>2, ApplyTypes DEF Goes, TypeOK, WaitsForOne, calls
<1>11. ASSUME NEW h \in Hosts, AddDiscovered(h), Goes PROVE Types'
  <2>1. h \in apply.toAdd /\ PutIn(h) /\ apply' = [apply EXCEPT !.toAdd = @ \ {h}]
    BY <1>11 DEF AddDiscovered
  <2>2. /\ Cardinality(Free) \in Nat /\ IsFiniteSet(Free)
        /\ Cardinality(apply.toAdd) \in Nat /\ IsFiniteSet(apply.toAdd)
    BY InstancesAreFinite, HostsAreFinite, FS_CardinalityType DEF Free, TypeOK
  <2>3. Cardinality(apply.toAdd \ {h}) = Cardinality(apply.toAdd) - 1
    BY <2>1, <2>2, FS_RemoveElement
  <2>4. Cardinality(apply.toAdd \ {h}) \in Nat
    BY <2>2, FS_Subset, FS_CardinalityType
  <2>5. Free # {}
    BY <2>2, <2>3, <2>4, FS_EmptySet DEF RoomLeft
  <2>6. /\ nodes' \subseteq Instances /\ hashed' \subseteq Instances
        /\ host' \in [Instances -> Hosts \cup {Nobody}]
        /\ \A i \in nodes' : host'[i] \in Hosts
        /\ (Fresh \in Free /\ Free' = Free \ {Fresh}) \/ Free' = Free
    BY <2>1, <2>5, PutInEffect
  <2>7. Cardinality(Free') = Cardinality(Free) - 1 \/ Cardinality(Free') = Cardinality(Free)
    BY <2>2, <2>6, FS_RemoveElement
  <2>8. apply'.toAdd = apply.toAdd \ {h}
    BY <2>1 DEF TypeOK
  <2>9. RoomLeft'
    BY <2>2, <2>3, <2>7, <2>8 DEF RoomLeft
  <2>10. apply' \in [stage : {"idle", "adding", "done"}, config : SUBSET Hosts,
                    toAdd : SUBSET Hosts, toRemove : SUBSET Hosts, served : BOOLEAN]
    BY <2>1 DEF TypeOK
  <2> QED
    BY <1>11, <2>6, <2>9, <2>10 DEF AddDiscovered, Goes, TypeOK, WaitsForOne, calls, history
<1>12. ASSUME NEW h \in Hosts, RemoveDiscovered(h), Goes PROVE Types'
  <2>1. /\ TakeOut(h) /\ UNCHANGED <<host, discovery, touched, forgotten>>
        /\ apply' = [apply EXCEPT !.toRemove = @ \ {h}]
    BY <1>12 DEF RemoveDiscovered
  <2> QED
    BY <1>12, <2>1, TakeOutTypes DEF Goes, TypeOK, RoomLeft, Free
<1>13. ASSUME Applied, Goes PROVE Types'
  BY <1>13 DEF Applied, Goes, TypeOK, RoomLeft, Free, WaitsForOne, calls, history
<1>14. ASSUME NEW l \in Lookups, Visit(l), Goes PROVE Types'
  <2> DEFINE todo == lookup[l].todo
  <2>1. lookup[l].stage = "visiting" /\ todo \in Seq(Instances)
    BY <1>14 DEF Visit, TypeOK
  <2>2. lookup[l] = [stage |-> "visiting", todo |-> todo]
    BY <2>1 DEF TypeOK
  <2>3. todo # <<>> => Tail(todo) \in Seq(Instances)
    BY <2>1, TailInList
  <2>4. PICK r \in [stage : {"idle", "visiting", "waiting"}, todo : Seq(Instances)] :
           /\ lookup' = [lookup EXCEPT ![l] = r]
           /\ r.stage = "waiting" => r.todo # <<>>
    <3>1. CASE todo = <<>>
      <4> DEFINE r == [stage |-> "idle", todo |-> todo]
      <4>1. lookup' = [lookup EXCEPT ![l] = r]
        BY <1>14, <2>2, <3>1 DEF Visit
      <4>2. /\ r \in [stage : {"idle", "visiting", "waiting"}, todo : Seq(Instances)]
            /\ r.stage = "waiting" => r.todo # <<>>
        BY <2>1
      <4> HIDE DEF r
      <4> QED
        BY <4>1, <4>2
    <3>2. CASE todo # <<>> /\ conn[Head(todo)] = "on"
      <4> DEFINE r == [stage |-> "visiting", todo |-> Tail(todo)]
      <4>1. lookup' = [lookup EXCEPT ![l] = r]
        BY <1>14, <2>2, <3>2 DEF Visit
      <4>2. /\ r \in [stage : {"idle", "visiting", "waiting"}, todo : Seq(Instances)]
            /\ r.stage = "waiting" => r.todo # <<>>
        BY <2>3, <3>2
      <4> HIDE DEF r
      <4> QED
        BY <4>1, <4>2
    <3>3. CASE todo # <<>> /\ conn[Head(todo)] # "on"
      <4> DEFINE r == [stage |-> "waiting", todo |-> todo]
      <4>1. lookup' = [lookup EXCEPT ![l] = r]
        BY <1>14, <2>2, <3>3 DEF Visit
      <4>2. /\ r \in [stage : {"idle", "visiting", "waiting"}, todo : Seq(Instances)]
            /\ r.stage = "waiting" => r.todo # <<>>
        BY <2>1, <3>3
      <4> HIDE DEF r
      <4> QED
        BY <4>1, <4>2
    <3> QED
      BY <3>1, <3>2, <3>3
  <2>5. lookup' \in [Lookups -> [stage : {"idle", "visiting", "waiting", "hung"}, todo : Seq(Instances)]]
    BY <2>4 DEF TypeOK
  <2>6. WaitsForOne'
    BY <2>4 DEF TypeOK, WaitsForOne
  <2>7. conn' \in [Instances -> {"off", "connecting", "on"}]
    <3>1. conn' = conn \/ Dial({Head(todo)})
      BY <1>14 DEF Visit
    <3>2. CASE conn' = conn
      BY <3>2 DEF TypeOK
    <3>3. CASE Dial({Head(todo)})
      BY <3>3, DialTypes
    <3> QED
      BY <3>1, <3>2, <3>3
  <2> QED
    BY <1>14, <2>5, <2>6, <2>7 DEF Visit, Goes, TypeOK, RoomLeft, Free, history
<1>15. ASSUME Connected, Goes PROVE Types'
  BY <1>15 DEF Connected, Goes, TypeOK, RoomLeft, Free, WaitsForOne, history
<1>16. ASSUME NEW i \in Instances, Ready(i), Goes PROVE Types'
  <2>1. \A l \in Lookups : Waits(l, i) => Tail(lookup[l].todo) \in Seq(Instances)
    BY TailInList DEF Waits, WaitsForOne, TypeOK
  <2>2. lookup' \in [Lookups -> [stage : {"idle", "visiting", "waiting", "hung"}, todo : Seq(Instances)]]
    BY <1>16, <2>1 DEF Ready, TypeOK
  <2>3. WaitsForOne'
    BY <1>16 DEF Ready, WaitsForOne
  <2> QED
    BY <1>16, <2>2, <2>3 DEF Ready, Goes, TypeOK, RoomLeft, Free, history
<1>17. CASE UNCHANGED vars
  BY <1>17 DEF vars, calls, history, TypeOK, RoomLeft, Free, WaitsForOne
<1> QED
  BY <1>1, <1>2, <1>3, <1>4, <1>5, <1>6, <1>7, <1>8, <1>9, <1>10, <1>11, <1>12, <1>13, <1>14,
     <1>15, <1>16, <1>17 DEF Next, UserCalls, Goes

\* Every state of every behaviour is well typed: in particular a node that is
\* put in (index.ts 504-533) never lacks an instance, so that the other
\* theorems are not about states the bound has spoilt.
THEOREM TypeCorrect == Spec => []TypeOK
<1>1. Spec => []Types
  BY InitTypes, StepTypes, PTL DEF Spec
<1> QED
  BY <1>1, PTL DEF Types

-----------------------------------------------------------------------------
\* Routing

\* Whoever puts in a node finds an instance for it.
LEMMA RoomForOneMore ==
    ASSUME Types, NEW h \in Hosts, AddNode(h) \/ AddDiscovered(h)
    PROVE  PutIn(h) /\ (Named(h) = {} => Fresh \in Free /\ Fresh \in Instances)
<1>1. /\ Cardinality(Free) \in Nat /\ Cardinality(apply.toAdd) \in Nat
      /\ IsFiniteSet(Free) /\ IsFiniteSet(apply.toAdd)
  BY InstancesAreFinite, HostsAreFinite, FS_CardinalityType DEF Free, Types, TypeOK
<1>2. CASE AddNode(h)
  <2>1. Cardinality(Free) # 0
    BY <1>1, <1>2 DEF AddNode
  <2> QED
    BY <1>2, <2>1, FS_EmptySet, FreshIsFree DEF AddNode
<1>3. CASE AddDiscovered(h)
  <2>1. apply.toAdd # {}
    BY <1>3 DEF AddDiscovered
  <2>2. Cardinality(apply.toAdd) # 0
    BY <1>1, <2>1, FS_EmptySet
  <2>3. Cardinality(Free) # 0
    BY <1>1, <2>2 DEF Types, RoomLeft
  <2> QED
    BY <1>3, <2>3, FS_EmptySet, FreshIsFree DEF AddDiscovered
<1> QED
  BY <1>2, <1>3

\* The nodes change in three ways: one is put in, one is taken out, or all are
\* forgotten by a new provider.
LEMMA NodesStep ==
    ASSUME Types, [Next]_vars
    PROVE  \/ \E h \in Hosts : /\ PutIn(h) /\ UNCHANGED forgotten
                               /\ Named(h) = {} => Fresh \in Free /\ Fresh \in Instances
           \/ \E h \in Hosts : TakeOut(h) /\ UNCHANGED <<host, forgotten>>
           \/ SetHash
           \/ UNCHANGED <<nodes, hashed, host, forgotten>>
<1>1. ASSUME NEW h \in Hosts, AddNode(h) \/ AddDiscovered(h)
      PROVE  PutIn(h) /\ UNCHANGED forgotten /\ (Named(h) = {} => Fresh \in Free /\ Fresh \in Instances)
  BY <1>1, RoomForOneMore DEF AddNode, AddDiscovered, history
<1>2. ASSUME NEW h \in Hosts, RemoveNode(h) \/ RemoveDiscovered(h)
      PROVE  TakeOut(h) /\ UNCHANGED <<host, forgotten>>
  BY <1>2 DEF RemoveNode, RemoveDiscovered
<1>3. CASE \/ Connect \/ Disconnect \/ Quit \/ Reconnect \/ NotStarted \/ Applied \/ Connected
           \/ \E i \in Instances : ConnectOne(i) \/ Refused(i) \/ Lost(i) \/ Ready(i)
           \/ \E l \in Lookups : Lookup(l) \/ Visit(l)
           \/ \E config \in Configs : Started(config) \/ Update(config)
  BY <1>3 DEF Connect, Disconnect, Quit, Reconnect, NotStarted, Applied, Connected, ConnectOne,
              Refused, Lost, Ready, Lookup, Visit, Started, Update, history
<1>4. CASE UNCHANGED vars
  BY <1>4 DEF vars
<1> QED
  BY <1>1, <1>2, <1>3, <1>4 DEF Next, UserCalls, Fails, Goes

\* Every node has its share of the keys, or another of the same host has it,
\* but for those a new provider was not told of.
NodesCovered == \A i \in nodes : i \in forgotten \/ \E j \in hashed : host[j] = host[i]

\* Only nodes that exist were forgotten: one that is put in is not.
ForgottenExist == \A i \in forgotten : host[i] # Nobody

Routing == NodesMatchHash /\ NodesCovered /\ ForgottenExist

LEMMA InitRouting == Init => Routing
BY DEF Init, Routing, NodesMatchHash, NodesCovered, ForgottenExist

LEMMA StepRouting == Types /\ Routing /\ [Next]_vars => Routing'
<1> SUFFICES ASSUME Types, Routing, [Next]_vars PROVE Routing'
  OBVIOUS
<1> USE DEF Routing
<1>1. /\ nodes \subseteq Instances /\ hashed \subseteq nodes /\ host \in [Instances -> Hosts \cup {Nobody}]
      /\ \A i \in nodes : host[i] \in Hosts /\ host[i] # Nobody
  BY DEF Types, TypeOK, NodesMatchHash
<1>2. ASSUME NEW h \in Hosts, PutIn(h), UNCHANGED forgotten,
             Named(h) = {} => Fresh \in Free /\ Fresh \in Instances
      PROVE  Routing'
  <2>1. CASE Named(h) # {}
    BY <1>2, <2>1 DEF PutIn, NodesMatchHash, NodesCovered, ForgottenExist
  <2>2. CASE Named(h) = {}
    <3>1. /\ nodes' = nodes \cup {Fresh} /\ forgotten' = forgotten
          /\ hashed' = {i \in hashed : host[i] # h} \cup {Fresh}
          /\ host' = [host EXCEPT ![Fresh] = h]
      BY <1>2, <2>2 DEF PutIn
    <3>2. Fresh \in Instances /\ host[Fresh] = Nobody /\ Fresh \notin nodes
      BY <1>1, <1>2, <2>2 DEF Free
    <3>3. \A i \in Instances : host'[i] = IF i = Fresh THEN h ELSE host[i]
      BY <1>1, <3>1, <3>2
    <3>4. \A i \in nodes : host[i] = h => h \in V6
      BY <2>2 DEF Named
    <3>5. NodesMatchHash'
      <4>1. hashed' \subseteq nodes'
        BY <1>1, <3>1
      <4>2. ASSUME NEW i \in nodes' \ hashed', i \notin forgotten
            PROVE  host'[i] \in V6 /\ \E j \in nodes' : j # i /\ host'[j] = host'[i]
        <5>1. i \in nodes /\ i # Fresh /\ host'[i] = host[i]
          BY <1>1, <3>1, <3>3, <4>2
        <5>2. CASE i \in hashed
          <6>1. host[i] = h /\ h \in V6
            BY <3>1, <3>4, <4>2, <5>1, <5>2
          <6> QED
            BY <3>1, <3>2, <3>3, <5>1, <6>1
        <5>3. CASE i \notin hashed
          <6>1. host[i] \in V6 /\ \E j \in nodes : j # i /\ host[j] = host[i]
            BY <4>2, <5>1, <5>3 DEF NodesMatchHash
          <6> QED
            BY <1>1, <3>1, <3>2, <3>3, <5>1, <6>1
        <5> QED
          BY <5>2, <5>3
      <4> QED
        BY <3>1, <4>1, <4>2 DEF NodesMatchHash
    <3>6. NodesCovered'
      <4>1. ASSUME NEW i \in nodes', i \notin forgotten
            PROVE  \E j \in hashed' : host'[j] = host'[i]
        <5>1. CASE host'[i] = h
          BY <3>1, <3>2, <3>3, <5>1
        <5>2. CASE host'[i] # h
          <6>1. i \in nodes /\ host'[i] = host[i] /\ i \in Instances
            BY <1>1, <3>1, <3>2, <3>3, <4>1, <5>2
          <6>2. PICK j \in hashed : host[j] = host[i]
            BY <4>1, <6>1 DEF NodesCovered
          <6>3. j \in Instances /\ j # Fresh /\ host'[j] = host[j] /\ j \in hashed'
            BY <1>1, <3>1, <3>2, <3>3, <5>2, <6>1, <6>2
          <6> QED
            BY <6>1, <6>2, <6>3
        <5> QED
          BY <5>1, <5>2
      <4> QED
        BY <3>1, <4>1 DEF NodesCovered
    <3>7. ForgottenExist'
      BY <3>1, <3>2, <3>3 DEF ForgottenExist, Types, TypeOK
    <3> QED
      BY <3>5, <3>6, <3>7
  <2> QED
    BY <2>1, <2>2
<1>3. ASSUME NEW h \in Hosts, TakeOut(h), UNCHANGED <<host, forgotten>>
      PROVE  Routing'
  <2>1. /\ nodes' = nodes \ Named(h) /\ hashed' = {i \in hashed : host[i] # h \/ Named(h) = {}}
        /\ host' = host /\ forgotten' = forgotten
    BY <1>3 DEF TakeOut
  <2>2. Named(h) = {} \/ (h \notin V6 /\ Named(h) = {i \in nodes : host[i] = h})
    BY DEF Named
  <2>3. NodesMatchHash'
    BY <2>1, <2>2 DEF NodesMatchHash
  <2>4. NodesCovered'
    BY <2>1, <2>2 DEF NodesCovered
  <2> QED
    BY <2>1, <2>3, <2>4 DEF ForgottenExist
<1>4. CASE SetHash
  BY <1>1, <1>4 DEF SetHash, NodesMatchHash, NodesCovered, ForgottenExist
<1>5. CASE UNCHANGED <<nodes, hashed, host, forgotten>>
  BY <1>5 DEF NodesMatchHash, NodesCovered, ForgottenExist
<1>6. \/ \E h \in Hosts : /\ PutIn(h) /\ UNCHANGED forgotten
                          /\ Named(h) = {} => Fresh \in Free /\ Fresh \in Instances
      \/ \E h \in Hosts : TakeOut(h) /\ UNCHANGED <<host, forgotten>>
      \/ SetHash
      \/ UNCHANGED <<nodes, hashed, host, forgotten>>
  BY NodesStep
<1>7. CASE \E h \in Hosts : /\ PutIn(h) /\ UNCHANGED forgotten
                            /\ Named(h) = {} => Fresh \in Free /\ Fresh \in Instances
  BY <1>2, <1>7
<1>8. CASE \E h \in Hosts : TakeOut(h) /\ UNCHANGED <<host, forgotten>>
  BY <1>3, <1>8
<1> QED
  BY <1>4, <1>5, <1>6, <1>7, <1>8

\* Keys are routed to nodes of the list only, and to all of them but those a
\* new hash provider was not told of and an IPv6 node that was added twice.
THEOREM HashMatchesNodes == Spec => []NodesMatchHash
<1>1. Spec => [](Types /\ Routing)
  BY InitTypes, StepTypes, InitRouting, StepRouting, PTL DEF Spec
<1> QED
  BY <1>1, PTL DEF Routing

-----------------------------------------------------------------------------
\* Connections of nodes that were removed

\* What lookups will still connect is a node of the list, or one that was
\* removed since they began.
VisitsKnown == \A l \in Lookups : ToVisit(l) \subseteq nodes \cup overtaken

Connections == NoOrphan /\ VisitsKnown

\* A call that hangs visits no more nodes; the others visit what they did.
LEMMA CutVisits ==
    ASSUME NEW gone, Types, Cut(gone), NEW l \in Lookups
    PROVE  ToVisit(l)' \subseteq ToVisit(l)
<1>1. lookup' = [m \in Lookups |-> IF Hangs(lookup[m], gone)
                                   THEN [lookup[m] EXCEPT !.stage = "hung"] ELSE lookup[m]]
  BY DEF Cut
<1>2. lookup'[l] = lookup[l] \/ lookup'[l].stage = "hung"
  BY <1>1 DEF Types, TypeOK
<1> QED
  BY <1>2 DEF ToVisit

LEMMA SeqOfSet ==
    ASSUME NEW S, NEW s \in Seq(S)
    PROVE  ToSet(s) \subseteq S
BY DEF ToSet

LEMMA InitConnections == Init => Connections
BY DEF Init, Connections, NoOrphan, VisitsKnown, ToVisit

LEMMA StepConnections == Types /\ Types' /\ Routing /\ Connections /\ [Next]_vars => Connections'
<1> SUFFICES ASSUME Types, Types', Routing, Connections, [Next]_vars PROVE Connections'
  OBVIOUS
<1> USE DEF Connections
<1>1. /\ conn \in [Instances -> {"off", "connecting", "on"}] /\ nodes \subseteq Instances
      /\ \A l \in Lookups : lookup[l].todo \in Seq(Instances)
  BY DEF Types, TypeOK
<1>2. ASSUME NEW h \in Hosts, AddNode(h) \/ AddDiscovered(h) PROVE Connections'
  <2>1. PutIn(h) /\ UNCHANGED <<conn, lookup, overtaken>>
    BY <1>2 DEF AddNode, AddDiscovered, calls, history
  <2>2. nodes \subseteq nodes'
    BY <2>1 DEF PutIn
  <2> QED
    BY <2>1, <2>2 DEF NoOrphan, VisitsKnown, ToVisit
<1>3. ASSUME NEW h \in Hosts, RemoveNode(h) \/ RemoveDiscovered(h) PROVE Connections'
  <2> DEFINE gone == Named(h)
  <2>1. /\ nodes' = nodes \ gone
        /\ conn' = [i \in Instances |-> IF i \in gone THEN "off" ELSE conn[i]]
        /\ Cut(gone)
        /\ overtaken' = overtaken \cup (gone \cap UNION {ToVisit(l) : l \in Lookups})
    BY <1>3 DEF RemoveNode, RemoveDiscovered, TakeOut
  <2> HIDE DEF gone
  <2>2. NoOrphan'
    BY <1>1, <2>1 DEF NoOrphan
  <2>3. ASSUME NEW l \in Lookups PROVE ToVisit(l)' \subseteq nodes' \cup overtaken'
    <3>1. ToVisit(l)' \subseteq ToVisit(l)
      BY <2>1, CutVisits
    <3>2. ToVisit(l) \subseteq nodes \cup overtaken
      BY DEF VisitsKnown
    <3>3. gone \cap ToVisit(l) \subseteq overtaken'
      BY <2>1
    <3> QED
      BY <2>1, <3>1, <3>2, <3>3
  <2> QED
    BY <2>2, <2>3 DEF VisitsKnown
<1>4. CASE Disconnect \/ Reconnect
  <2>1. Cut(nodes) /\ UNCHANGED <<nodes, overtaken>>
    BY <1>4 DEF Disconnect, Reconnect, history
  <2>2. NoOrphan'
    BY <1>1, <1>4, <2>1 DEF Disconnect, Reconnect, NoOrphan
  <2>3. VisitsKnown'
    BY <2>1, CutVisits DEF VisitsKnown
  <2> QED
    BY <2>2, <2>3
<1>5. CASE \/ SetHash \/ NotStarted \/ Applied \/ Connected
           \/ \E config \in Configs : Started(config) \/ Update(config)
  <2>1. UNCHANGED <<nodes, conn, lookup, overtaken>>
    BY <1>5 DEF SetHash, NotStarted, Applied, Connected, Started, Update, calls, history
  <2> QED
    BY <2>1 DEF NoOrphan, VisitsKnown, ToVisit
<1>6. CASE Connect \/ Quit \/ \E i \in Instances : ConnectOne(i) \/ Lost(i)
  <2>1. UNCHANGED <<nodes, lookup, overtaken>>
    BY <1>6 DEF Connect, Quit, ConnectOne, Lost, calls, history
  <2>2. \A i \in Instances : conn'[i] # "off" => conn[i] # "off" \/ i \in nodes
    BY <1>1, <1>6 DEF Connect, Quit, ConnectOne, Lost, Dial
  <2> QED
    BY <2>1, <2>2 DEF NoOrphan, VisitsKnown, ToVisit
<1>7. ASSUME NEW m \in Lookups, Lookup(m) PROVE Connections'
  <2>1. PICK found \in ({{i} : i \in hashed} \cup {hashed}) \ {{}} :
           lookup' = [lookup EXCEPT ![m] = [stage |-> "visiting", todo |-> SetToSeq(found)]]
    BY <1>7 DEF Lookup
  <2>2. found \subseteq nodes
    BY DEF Routing, NodesMatchHash
  <2>3. SetToSeq(found) \in Seq(found)
    BY <1>1, <2>2, InstancesAreFinite, SetToSeqIsSeq
  <2>4. ToSet(SetToSeq(found)) \subseteq nodes
    BY <2>2, <2>3, SeqOfSet
  <2>5. UNCHANGED <<nodes, conn, overtaken>>
    BY <1>7 DEF Lookup, history
  <2>6. \A l \in Lookups : ToVisit(l)' \subseteq ToVisit(l) \cup nodes
    BY <2>1, <2>4 DEF ToVisit, Types, TypeOK
  <2> QED
    BY <2>5, <2>6 DEF NoOrphan, VisitsKnown
<1>8. ASSUME NEW m \in Lookups, Visit(m) PROVE Connections'
  <2> DEFINE todo == lookup[m].todo
  <2>1. /\ lookup[m].stage = "visiting" /\ todo \in Seq(Instances)
        /\ UNCHANGED <<nodes, overtaken>>
    BY <1>1, <1>8 DEF Visit, history
  <2>2. ToSet(todo) \subseteq nodes \cup overtaken
    BY <2>1 DEF VisitsKnown, ToVisit
  <2>3. todo # <<>> => Head(todo) \in ToSet(todo) /\ ToSet(Tail(todo)) \subseteq ToSet(todo)
    BY <2>1, TailInList
  <2>4. \A i \in Instances : conn'[i] # "off" => conn[i] # "off" \/ (todo # <<>> /\ i = Head(todo))
    BY <1>1, <1>8 DEF Visit, Dial
  <2>5. NoOrphan'
    BY <2>1, <2>2, <2>3, <2>4 DEF NoOrphan
  <2>6. \A l \in Lookups : l # m => lookup'[l] = lookup[l]
    BY <1>8 DEF Visit, Types, TypeOK
  <2>7. ToVisit(m)' \subseteq ToSet(todo)
    <3>1. lookup[m] = [stage |-> "visiting", todo |-> todo]
      BY <2>1 DEF Types, TypeOK
    <3>2. CASE todo = <<>>
      <4>1. lookup'[m].stage = "idle"
        BY <1>8, <3>2 DEF Visit, Types, TypeOK
      <4> QED
        BY <4>1 DEF ToVisit
    <3>3. CASE todo # <<>> /\ conn[Head(todo)] = "on"
      <4>1. lookup' = [lookup EXCEPT ![m] = [stage |-> "visiting", todo |-> Tail(todo)]]
        BY <1>8, <3>1, <3>3 DEF Visit
      <4>2. lookup'[m] = [stage |-> "visiting", todo |-> Tail(todo)]
        BY <4>1 DEF Types, TypeOK
      <4> QED
        BY <2>3, <3>3, <4>2 DEF ToVisit
    <3>4. CASE todo # <<>> /\ conn[Head(todo)] # "on"
      <4>1. lookup' = [lookup EXCEPT ![m] = [stage |-> "waiting", todo |-> todo]]
        BY <1>8, <3>1, <3>4 DEF Visit
      <4>2. lookup'[m] = [stage |-> "waiting", todo |-> todo]
        BY <4>1 DEF Types, TypeOK
      <4> QED
        BY <2>3, <3>4, <4>2 DEF ToVisit
    <3> QED
      BY <3>2, <3>3, <3>4
  <2>8. VisitsKnown'
    BY <2>1, <2>2, <2>6, <2>7 DEF VisitsKnown, ToVisit
  <2> QED
    BY <2>5, <2>8
<1>9. ASSUME NEW i \in Instances, Ready(i) \/ Refused(i) PROVE Connections'
  <2>1. UNCHANGED <<nodes, overtaken>>
    BY <1>9 DEF Ready, Refused, history
  <2>2. \A j \in Instances : conn'[j] # "off" => conn[j] # "off"
    BY <1>1, <1>9 DEF Ready, Refused
  <2>3. ASSUME NEW l \in Lookups PROVE ToVisit(l)' \subseteq ToVisit(l)
    <3>1. CASE Waits(l, i)
      <4>1. \/ lookup'[l] = [stage |-> "visiting", todo |-> Tail(lookup[l].todo)]
            \/ lookup'[l] = [stage |-> "idle", todo |-> <<>>]
        BY <1>9, <3>1 DEF Ready, Refused
      <4>2. lookup'[l].stage = "idle" \/ ToVisit(l)' = ToSet(Tail(lookup[l].todo))
        <5>1. CASE lookup'[l] = [stage |-> "visiting", todo |-> Tail(lookup[l].todo)]
          <6>1. lookup'[l].stage = "visiting" /\ lookup'[l].todo = Tail(lookup[l].todo)
            BY <5>1
          <6> QED
            BY <6>1 DEF ToVisit
        <5>2. CASE lookup'[l] = [stage |-> "idle", todo |-> <<>>]
          BY <5>2
        <5> QED
          BY <4>1, <5>1, <5>2
      <4>3. ToVisit(l) = ToSet(Tail(lookup[l].todo))
        BY <3>1 DEF ToVisit, Waits
      <4>4. lookup'[l].stage = "idle" => ToVisit(l)' = {}
        BY DEF ToVisit
      <4> QED
        BY <4>2, <4>3, <4>4
    <3>2. CASE ~Waits(l, i)
      <4>1. lookup'[l] = lookup[l]
        BY <1>9, <3>2 DEF Ready, Refused
      <4> QED
        BY <4>1 DEF ToVisit
    <3> QED
      BY <3>1, <3>2
  <2> QED
    BY <2>1, <2>2, <2>3 DEF NoOrphan, VisitsKnown
<1>10. CASE UNCHANGED vars
  BY <1>10 DEF vars, NoOrphan, VisitsKnown, ToVisit
<1> QED
  BY <1>2, <1>3, <1>4, <1>5, <1>6, <1>7, <1>8, <1>9, <1>10 DEF Next, UserCalls, Fails, Goes

\* A node that was removed has no connection, unless a lookup that began
\* before the removal makes one for it afterwards.
THEOREM RemovedMeansClosed == Spec => []NoOrphan
<1>1. Spec => [](Types /\ Routing /\ Connections)
  BY InitTypes, StepTypes, InitRouting, StepRouting, InitConnections, StepConnections, PTL DEF Spec
<1> QED
  BY <1>1, PTL DEF Connections

-----------------------------------------------------------------------------
\* Configurations

\* While a configuration is applied the nodes differ from it by what is left to
\* add and to remove, by what users changed, and by IPv6 nodes.
DiffersByTheRest ==
    apply.stage # "idle" =>
        /\ apply.config # {}
        /\ apply.toAdd \subseteq apply.config /\ apply.toRemove \cap apply.config = {}
        /\ apply.config \ Ids \subseteq apply.toAdd \cup touched
        /\ Ids \ apply.config \subseteq apply.toRemove \cup touched \cup V6
        /\ apply.stage = "done" => apply.toAdd = {} /\ apply.toRemove = {}

\* As long as no user interferes, every node that counts is still known to the
\* provider, which has some.
StillServed ==
    apply.stage = "adding" /\ apply.served /\ touched = {} =>
        forgotten \cap nodes = {} /\ hashed # {}

\* What a step does to the hosts of the nodes: one more, one less, or none.
LEMMA IdsAfterPutIn ==
    ASSUME Types, NEW h \in Hosts, PutIn(h), Named(h) = {} => Fresh \in Free /\ Fresh \in Instances
    PROVE  Ids' = Ids \cup {h}
<1>1. nodes \subseteq Instances /\ host \in [Instances -> Hosts \cup {Nobody}]
      /\ \A i \in nodes : host[i] # Nobody
  BY DEF Types, TypeOK
<1>2. CASE Named(h) # {}
  <2>1. h \in Ids
    BY <1>2 DEF Named, Ids
  <2> QED
    BY <1>2, <2>1 DEF PutIn, Ids
<1>3. CASE Named(h) = {}
  <2>1. nodes' = nodes \cup {Fresh} /\ host' = [host EXCEPT ![Fresh] = h]
    BY <1>3 DEF PutIn
  <2>2. host'[Fresh] = h /\ \A i \in nodes : host'[i] = host[i]
    BY <1>1, <1>3, <2>1 DEF Free
  <2> QED
    BY <2>1, <2>2 DEF Ids
<1> QED
  BY <1>2, <1>3

LEMMA IdsAfterTakeOut ==
    ASSUME NEW h \in Hosts, TakeOut(h), UNCHANGED host
    PROVE  Ids' \subseteq Ids /\ Ids \ {h} \subseteq Ids' /\ (h \in V6 \/ h \notin Ids')
<1>1. nodes' = nodes \ Named(h) /\ host' = host
  BY DEF TakeOut
<1> QED
  BY <1>1 DEF Named, Ids

LEMMA InitFollows == Init => DiffersByTheRest /\ StillServed
BY DEF Init, Idle, DiffersByTheRest, StillServed

LEMMA StepDiffers == Types /\ DiffersByTheRest /\ [Next]_vars => DiffersByTheRest'
<1> SUFFICES ASSUME Types, DiffersByTheRest, [Next]_vars PROVE DiffersByTheRest'
  OBVIOUS
<1>1. apply \in [stage : {"idle", "adding", "done"}, config : SUBSET Hosts,
                 toAdd : SUBSET Hosts, toRemove : SUBSET Hosts, served : BOOLEAN]
      /\ Ids \subseteq Hosts
  BY DEF Types, TypeOK, Ids
<1>2. ASSUME NEW h \in Hosts, AddNode(h) PROVE DiffersByTheRest'
  <2>1. Ids' = Ids \cup {h}
    BY <1>2, RoomForOneMore, IdsAfterPutIn
  <2>2. touched' = touched \cup {h} /\ apply' = apply
    BY <1>2 DEF AddNode
  <2> QED
    BY <2>1, <2>2 DEF DiffersByTheRest
<1>3. ASSUME NEW h \in Hosts, RemoveNode(h) PROVE DiffersByTheRest'
  <2>1. Ids' \subseteq Ids /\ Ids \ {h} \subseteq Ids'
    BY <1>3, IdsAfterTakeOut DEF RemoveNode
  <2>2. touched' = touched \cup {h} /\ apply' = apply
    BY <1>3 DEF RemoveNode
  <2> QED
    BY <2>1, <2>2 DEF DiffersByTheRest
<1>4. CASE SetHash
  BY <1>1, <1>4 DEF SetHash, DiffersByTheRest, Ids
<1>5. ASSUME NEW config \in Configs, Started(config) \/ Update(config) PROVE DiffersByTheRest'
  <2>1. Apply(config) /\ UNCHANGED <<nodes, host>>
    BY <1>5 DEF Started, Update
  <2>2. Ids' = Ids
    BY <2>1 DEF Ids
  <2> QED
    BY <2>1, <2>2 DEF Apply, Idle, DiffersByTheRest
<1>6. ASSUME NEW h \in Hosts, AddDiscovered(h) PROVE DiffersByTheRest'
  <2>1. Ids' = Ids \cup {h}
    BY <1>6, RoomForOneMore, IdsAfterPutIn
  <2>2. /\ apply.stage = "adding" /\ h \in apply.toAdd /\ touched' = touched
        /\ apply' = [apply EXCEPT !.toAdd = @ \ {h}]
    BY <1>6 DEF AddDiscovered, history
  <2>3. /\ apply'.stage = "adding" /\ apply'.config = apply.config
        /\ apply'.toAdd = apply.toAdd \ {h} /\ apply'.toRemove = apply.toRemove
    BY <1>1, <2>2
  <2> QED
    BY <2>1, <2>2, <2>3 DEF DiffersByTheRest
<1>7. ASSUME NEW h \in Hosts, RemoveDiscovered(h) PROVE DiffersByTheRest'
  <2>1. Ids' \subseteq Ids /\ Ids \ {h} \subseteq Ids' /\ (h \in V6 \/ h \notin Ids')
    BY <1>7, IdsAfterTakeOut DEF RemoveDiscovered
  <2>2. /\ apply.stage = "adding" /\ h \in apply.toRemove /\ touched' = touched
        /\ apply' = [apply EXCEPT !.toRemove = @ \ {h}]
    BY <1>7 DEF RemoveDiscovered
  <2>3. /\ apply'.stage = "adding" /\ apply'.config = apply.config
        /\ apply'.toAdd = apply.toAdd /\ apply'.toRemove = apply.toRemove \ {h}
    BY <1>1, <2>2
  <2> QED
    BY <2>1, <2>2, <2>3 DEF DiffersByTheRest
<1>8. CASE Applied
  <2>1. /\ apply.stage = "adding" /\ apply.toAdd = {} /\ apply.toRemove = {}
        /\ apply' = [apply EXCEPT !.stage = "done"] /\ Ids' = Ids /\ touched' = touched
    BY <1>8 DEF Applied, history, Ids
  <2>2. /\ apply'.config = apply.config /\ apply'.toAdd = {} /\ apply'.toRemove = {}
    BY <1>1, <2>1
  <2> QED
    BY <2>1, <2>2 DEF DiffersByTheRest
<1>9. CASE \/ Connect \/ Disconnect \/ Quit \/ Reconnect \/ NotStarted \/ Connected
           \/ \E i \in Instances : ConnectOne(i) \/ Refused(i) \/ Lost(i) \/ Ready(i)
           \/ \E l \in Lookups : Lookup(l) \/ Visit(l)
           \/ UNCHANGED vars
  <2>1. UNCHANGED <<nodes, host, apply, touched>>
    BY <1>9 DEF Connect, Disconnect, Quit, Reconnect, NotStarted, Connected, ConnectOne,
                Refused, Lost, Ready, Lookup, Visit, history, vars
  <2> QED
    BY <2>1 DEF DiffersByTheRest, Ids
<1> QED
  BY <1>2, <1>3, <1>4, <1>5, <1>6, <1>7, <1>8, <1>9 DEF Next, UserCalls, Fails, Goes

LEMMA StepServed ==
    Types /\ Routing /\ DiffersByTheRest /\ StillServed /\ [Next]_vars => StillServed'
<1> SUFFICES ASSUME Types, Routing, DiffersByTheRest, StillServed, [Next]_vars,
                    apply'.stage = "adding" /\ apply'.served /\ touched' = {}
             PROVE  forgotten' \cap nodes' = {} /\ hashed' # {}
  BY DEF StillServed
<1>1. apply \in [stage : {"idle", "adding", "done"}, config : SUBSET Hosts,
                 toAdd : SUBSET Hosts, toRemove : SUBSET Hosts, served : BOOLEAN]
  BY DEF Types, TypeOK
<1>2. ASSUME NEW h \in Hosts PROVE ~AddNode(h) /\ ~RemoveNode(h)
  BY DEF AddNode, RemoveNode
<1>3. CASE SetHash
  <2>1. Hosts = {} /\ apply' = apply
    BY <1>3 DEF SetHash
  <2>2. apply.config # {} /\ apply.config \subseteq Hosts
    BY <1>1, <2>1 DEF DiffersByTheRest
  <2> QED
    BY <2>1, <2>2
<1>4. ASSUME NEW config \in Configs, Started(config) \/ Update(config)
      PROVE  forgotten' \cap nodes' = {} /\ hashed' # {}
  <2>1. Apply(config) /\ UNCHANGED <<nodes, hashed, forgotten>>
    BY <1>4 DEF Started, Update
  <2> QED
    BY <2>1 DEF Apply, Idle
<1>5. ASSUME NEW h \in Hosts, AddDiscovered(h)
      PROVE  forgotten' \cap nodes' = {} /\ hashed' # {}
  <2>1. /\ apply.stage = "adding" /\ UNCHANGED <<touched, forgotten>>
        /\ apply' = [apply EXCEPT !.toAdd = @ \ {h}]
    BY <1>5 DEF AddDiscovered, history
  <2>2. forgotten \cap nodes = {} /\ hashed # {}
    BY <1>1, <2>1 DEF StillServed
  <2>3. PutIn(h) /\ (Named(h) = {} => Fresh \in Free)
    BY <1>5, RoomForOneMore
  <2> QED
    BY <2>1, <2>2, <2>3 DEF PutIn, Free, Routing, ForgottenExist
<1>6. ASSUME NEW h \in Hosts, RemoveDiscovered(h)
      PROVE  forgotten' \cap nodes' = {} /\ hashed' # {}
  <2>1. /\ apply.stage = "adding" /\ apply.toAdd = {} /\ h \in apply.toRemove /\ TakeOut(h)
        /\ UNCHANGED <<touched, forgotten>> /\ apply' = [apply EXCEPT !.toRemove = @ \ {h}]
    BY <1>6 DEF RemoveDiscovered
  <2>2. forgotten \cap nodes = {} /\ touched = {}
    BY <1>1, <2>1 DEF StillServed
  <2>3. PICK c \in apply.config : c \in Ids /\ c # h
    BY <2>1, <2>2 DEF DiffersByTheRest
  <2>4. PICK i \in nodes : host[i] = c
    BY <2>3 DEF Ids
  <2>5. PICK j \in hashed : host[j] = c
    BY <2>2, <2>4 DEF Routing, NodesCovered
  <2>6. nodes' \subseteq nodes /\ j \in hashed'
    BY <2>1, <2>3, <2>5 DEF TakeOut
  <2> QED
    BY <2>1, <2>2, <2>6
<1>7. CASE \/ Connect \/ Disconnect \/ Quit \/ Reconnect \/ NotStarted \/ Connected
           \/ \E i \in Instances : ConnectOne(i) \/ Refused(i) \/ Lost(i) \/ Ready(i)
           \/ \E l \in Lookups : Lookup(l) \/ Visit(l)
           \/ UNCHANGED vars
  <2>1. UNCHANGED <<nodes, hashed, forgotten, apply, touched>>
    BY <1>7 DEF Connect, Disconnect, Quit, Reconnect, NotStarted, Connected, ConnectOne,
                Refused, Lost, Ready, Lookup, Visit, history, vars
  <2> QED
    BY <2>1 DEF StillServed
<1>8. CASE Applied
  BY <1>1, <1>8 DEF Applied
<1> QED
  BY <1>2, <1>3, <1>4, <1>5, <1>6, <1>7, <1>8 DEF Next, UserCalls, Fails, Goes

LEMMA AllInvariants == Spec => [](Types /\ Routing /\ DiffersByTheRest /\ StillServed)
BY InitTypes, StepTypes, InitRouting, StepRouting, InitFollows, StepDiffers, StepServed,
   PTL DEF Spec

\* When a configuration has been applied the nodes are those it lists, but for
\* what users changed meanwhile and the IPv6 nodes it no longer lists.
THEOREM ConfigIsFollowed == Spec => []TopologyFollowsConfig
<1>1. DiffersByTheRest => TopologyFollowsConfig
  BY DEF DiffersByTheRest, TopologyFollowsConfig
<1> QED
  BY <1>1, AllInvariants, PTL

\* While a configuration is applied a key always has a node.
THEOREM KeysAlwaysServed == Spec => []LookupsFindNodes
<1>1. StillServed => LookupsFindNodes
  BY DEF StillServed, LookupsFindNodes
<1> QED
  BY <1>1, AllInvariants, PTL

=============================================================================
