------------------------- MODULE AutoDiscoveryProofs -------------------------
(***************************************************************************)
(* Proofs about AutoDiscovery, for any number of calls of start() and      *)
(* stop(), of versions and of failures.                                    *)
(*                                                                         *)
(* What start(), stop() and poll() leave behind depends on what was in     *)
(* progress when they ran.  The invariant says so: as long as no listener  *)
(* interrupted a start(), at most one task is in progress, it alone awaits *)
(* the one connection there may be, and a task that stop() overtook has no *)
(* way to succeed any more.                                                *)
(***************************************************************************)
EXTENDS AutoDiscovery, TLAPS

\* An answered task has a version, and only calls of stop() are in progress.
Typed ==
    /\ TypeOK
    /\ \A t \in Tasks : stage[t] = "answered" => answer[t] \in Versions
    /\ stopping <= stops

\* Sockets are used in order, each by a node.
Used == \A s \in Sockets : socket[s] # "unused" =>
            owner[s] \in Nodes /\ \A x \in 1 .. s - 1 : socket[x] # "unused"

\* Nothing is in progress but one task; only poll() reconnects.
Alone ==
    /\ \A t, u \in Tasks : InProgress(t) /\ InProgress(u) => t = u
    /\ ~isPolling => stage[Poll] = "idle"
    /\ \A t \in Starts : stage[t] # "repairing"

\* No timer ticks during a start(), and only while discovery runs.
Timed ==
    /\ timers \subseteq {pollingTimer}
    /\ timers # {} => isRunning /\ \A t \in Starts : ~InProgress(t)
    /\ isRunning => timers # {} \/ \E t \in Starts : InProgress(t)

\* A live socket is the last one made, and the one of the configuration node;
\* a connection that is being made is awaited, one that is made is known to
\* be, and the sockets before it have closed.
OneSocket ==
    /\ \A s \in Sockets : Alive(s) =>
          /\ configNode \in Nodes /\ current[configNode] = s /\ owner[s] = configNode
          /\ \A x \in Sockets : x > s => socket[x] = "unused"
    /\ \A s \in Sockets : socket[s] = "connecting" => \E t \in Tasks : Awaits(t, s)
    /\ \A s \in Sockets : socket[s] = "open" =>
          connected[configNode] /\ \A x \in Sockets : socket[x] # "destroyed"

\* The one command that may wait is that of the task that fetches.
Queued == \A n \in Nodes : \A i \in DOMAIN queue[n] :
              i = 1 /\ stage[queue[n][i]] = "fetching" /\ node[queue[n][i]] = n

Dead == \A s \in Sockets : ~Alive(s)

\* stop() leaves no connection, and a task it overtook can only fail.
Quiet ==
    /\ stopping > 0 => ~isRunning /\ Dead /\ \A t \in Tasks : stage[t] \notin Due
    /\ stopped => ~isRunning /\ Dead /\ configNode = None
    /\ ~isRunning => \A t \in Tasks : InProgress(t) =>
          /\ stopping > 0 \/ configNode = None
          /\ Dead
          /\ stage[t] \notin {"ensured", "answered"}

Orderly == ~overtaken => Alone /\ Timed /\ OneSocket /\ Queued /\ Quiet

Inv == Typed /\ Used /\ Orderly

-----------------------------------------------------------------------------
(* Types                                                                   *)

LEMMA Names ==
    /\ Tasks \subseteq Nat /\ Sockets \subseteq Nat \ {0} /\ Poll \in Tasks
    /\ Starts \subseteq Tasks /\ Poll \notin Starts
    /\ \A s \in Sockets : \A x \in 1 .. s - 1 : x \in Sockets
BY BoundsAssumption DEF Tasks, Starts, Poll, Sockets

LEMMA SequenceSteps ==
    ASSUME NEW S, NEW q \in Seq(S), NEW e \in S
    PROVE  /\ Append(q, e) \in Seq(S)
           /\ q # <<>> => Head(q) \in S /\ Tail(q) \in Seq(S)
OBVIOUS

LEMMA SetEntry ==
    ASSUME NEW D, NEW R, NEW f \in [D -> R], NEW d, NEW e, d \in D => e \in R
    PROVE  [f EXCEPT ![d] = e] \in [D -> R]
OBVIOUS

\* What waits in a queue is a task.
LEMMA QueuedTasks ==
    ASSUME TypeOK, NEW n \in Nodes
    PROVE  ToSet(queue[n]) = {queue[n][i] : i \in DOMAIN queue[n]} /\ ToSet(queue[n]) \subseteq Tasks
<1>1. queue[n] \in Seq(Tasks)
  BY DEF TypeOK
<1> QED
  BY <1>1 DEF ToSet

\* What becomes of a task that awaits a connection which is made or fails.
LEMMA Wakes ==
    ASSUME TypeOK, NEW s \in Sockets, NEW fails \in BOOLEAN, WakeAwaiting(s, fails)
    PROVE  /\ node' = node /\ awaited' = awaited /\ answer' = answer
           /\ \/ /\ \A t \in Tasks : ~Awaits(t, s)
                 /\ stage' = stage /\ isPolling' = isPolling
              \/ \E t \in Tasks :
                    /\ Awaits(t, s)
                    /\ \/ /\ stage[t] = "repairing" /\ isPolling' = FALSE
                          /\ stage' = [stage EXCEPT ![t] = "idle"]
                       \/ /\ stage[t] # "repairing" /\ isPolling' = isPolling
                          /\ stage' = [stage EXCEPT ![t] = IF fails THEN "rejected" ELSE "ensured"]
<1>1. CASE \E t \in Tasks : Awaits(t, s)
  <2> DEFINE u == CHOOSE t \in Tasks : Awaits(t, s)
  <2>1. u \in Tasks /\ Awaits(u, s)
    BY <1>1
  <2>2. Woken(u, IF fails THEN "rejected" ELSE "ensured")
    BY <1>1 DEF WakeAwaiting
  <2> HIDE DEF u
  <2> QED
    BY <2>1, <2>2 DEF Woken, Keep
<1>2. CASE ~ \E t \in Tasks : Awaits(t, s)
  BY <1>2 DEF WakeAwaiting, taskVars
<1> QED
  BY <1>1, <1>2

LEMMA WakesTyped ==
    ASSUME TypeOK, NEW s \in Sockets, NEW fails \in BOOLEAN, WakeAwaiting(s, fails)
    PROVE  /\ stage' \in [Tasks -> Stages] /\ isPolling' \in BOOLEAN
           /\ \A t \in Tasks : stage'[t] = "answered" => stage[t] = "answered"
BY Wakes DEF TypeOK, Stages, Due, Awaiting

LEMMA TypedInit == Init => Typed
<1> SUFFICES ASSUME Init PROVE Typed
  OBVIOUS
<1> QED
  BY Names, BoundsAssumption DEF Init, Typed, TypeOK, Versions, Stages, Unasked, Poll, None

LEMMA EnsureTyped ==
    ASSUME TypeOK, NEW t \in Tasks, EnsureConfigNode(t)
    PROVE  /\ configNode' \in Nodes \cup {None}
           /\ stage' \in [Tasks -> Stages] /\ node' \in [Tasks -> Nodes \cup {None}]
           /\ awaited' \in [Tasks -> Sockets \cup {None}] /\ answer' = answer
           /\ socket' \in [Sockets -> {"unused", "connecting", "open", "destroyed", "closed"}]
           /\ owner' \in [Sockets -> Nodes \cup {None}]
           /\ current' \in [Nodes -> Sockets \cup {None}]
           /\ connected' = connected /\ queue' = queue /\ wire' = wire
           /\ \A x \in Tasks : stage'[x] = "answered" => stage[x] = "answered"
<1>1. CASE configNode # None /\ connected[configNode]
  BY <1>1 DEF TypeOK, EnsureConfigNode, Stages, Due, Awaiting, nodeVars
<1>2. CASE ~(configNode # None /\ connected[configNode])
  <2>1. PICK n \in Nodes : configNode' = n /\ ConnectNode(n, t)
    BY <1>2, Zenon DEF EnsureConfigNode
  <2> QED
    BY <2>1 DEF TypeOK, ConnectNode, OpenSocket, Stages, Due, Awaiting, Nodes
<1> QED
  BY <1>1, <1>2

LEMMA DisconnectTyped ==
    ASSUME TypeOK, DisconnectNode(configNode)
    PROVE  /\ socket' \in [Sockets -> {"unused", "connecting", "open", "destroyed", "closed"}]
           /\ current' \in [Nodes -> Sockets \cup {None}]
           /\ connected' \in [Nodes -> BOOLEAN]
           /\ owner' = owner /\ queue' = queue /\ wire' = wire
BY DEF TypeOK, DisconnectNode, Kill

LEMMA ReconnectTyped ==
    ASSUME TypeOK, configNode # None, ReconnectNode(configNode, Poll)
    PROVE  /\ stage' \in [Tasks -> Stages] /\ node' \in [Tasks -> Nodes \cup {None}]
           /\ awaited' \in [Tasks -> Sockets \cup {None}] /\ answer' = answer
           /\ socket' \in [Sockets -> {"unused", "connecting", "open", "destroyed", "closed"}]
           /\ owner' \in [Sockets -> Nodes \cup {None}]
           /\ current' \in [Nodes -> Sockets \cup {None}]
           /\ connected' \in [Nodes -> BOOLEAN]
           /\ queue' \in [Nodes -> Seq(Tasks)] /\ wire' = wire
           /\ \A x \in Tasks : stage'[x] = "answered" => stage[x] = "answered"
<1>1. PICK s \in Sockets : OpenSocket(Kill(socket, current[configNode]), s, configNode, Poll)
  BY DEF ReconnectNode
<1>2. Kill(socket, current[configNode])
          \in [Sockets -> {"unused", "connecting", "open", "destroyed", "closed"}]
  BY DEF TypeOK, Kill
<1>3. /\ node' \in [Tasks -> Nodes \cup {None}] /\ awaited' \in [Tasks -> Sockets \cup {None}]
      /\ socket' \in [Sockets -> {"unused", "connecting", "open", "destroyed", "closed"}]
      /\ owner' \in [Sockets -> Nodes \cup {None}] /\ current' \in [Nodes -> Sockets \cup {None}]
  BY <1>1, <1>2 DEF TypeOK, OpenSocket
<1>4. stage' \in [Tasks -> Stages] /\ \A x \in Tasks : stage'[x] = "answered" => stage[x] = "answered"
  BY DEF TypeOK, ReconnectNode, Stages, Due, Awaiting
<1>5. queue' \in [Nodes -> Seq(Tasks)]
  BY DEF TypeOK, ReconnectNode
<1> QED
  BY <1>3, <1>4, <1>5 DEF TypeOK, ReconnectNode

LEMMA TypedStep == Typed /\ [Next]_vars => Typed'
<1> SUFFICES ASSUME Typed, [Next]_vars PROVE Typed'
  OBVIOUS
<1> USE DEF Typed
<1>1. ASSUME NEW t \in Tasks, Start(t) PROVE Typed'
  BY <1>1, EnsureTyped DEF Start, TypeOK, envVars
<1>2. ASSUME NEW t \in Tasks, FetchConfig(t) PROVE Typed'
  <2>1. queue' \in [Nodes -> Seq(Tasks)]
    <3>1. PICK n : n = node[t] /\ queue' = [queue EXCEPT ![n] = Append(queue[n], t)]
      BY <1>2 DEF FetchConfig
    <3>2. queue \in [Nodes -> Seq(Tasks)]
      BY DEF TypeOK
    <3>3. n \in Nodes => Append(queue[n], t) \in Seq(Tasks)
      BY <3>2, SequenceSteps
    <3>4. [queue EXCEPT ![n] = Append(queue[n], t)] \in [Nodes -> Seq(Tasks)]
      BY <3>2, <3>3, SetEntry
    <3> QED
      BY <3>1, <3>4
  <2>2. wire' \in [Sockets -> Seq(Versions \cup {Unasked, Bad})]
    <3>1. PICK s : wire' = [wire EXCEPT ![s] = Append(wire[s], Unasked)]
      BY <1>2 DEF FetchConfig
    <3> DEFINE R == Versions \cup {Unasked, Bad}
    <3>2. wire \in [Sockets -> Seq(R)] /\ Unasked \in R
      BY DEF TypeOK
    <3> HIDE DEF R
    <3>3. s \in Sockets => Append(wire[s], Unasked) \in Seq(R)
      BY <3>2, SequenceSteps
    <3>4. [wire EXCEPT ![s] = Append(wire[s], Unasked)] \in [Sockets -> Seq(R)]
      BY <3>2, <3>3, SetEntry
    <3> QED
      BY <3>1, <3>4 DEF R
  <2>3. /\ stage' \in [Tasks -> Stages]
        /\ \A x \in Tasks : stage'[x] = "answered" => stage[x] = "answered"
    BY <1>2 DEF FetchConfig, Keep, TypeOK, Stages, Due, Awaiting
  <2> QED
    BY <1>2, <2>1, <2>2, <2>3 DEF FetchConfig, Keep, TypeOK, selfVars, envVars, stopVars
<1>3. ASSUME NEW t \in Tasks, StartSucceeds(t) PROVE Typed'
  BY <1>3, Names DEF StartSucceeds, SetTimer, Keep, TypeOK, Stages, Due, Awaiting, nodeVars, envVars, stopVars
<1>4. ASSUME NEW t \in Tasks, StartFails(t) PROVE Typed'
  BY <1>4 DEF StartFails, Keep, TypeOK, Stages, Due, Awaiting, nodeVars, envVars, stopVars
<1>5. ASSUME NEW t \in Tasks, StartStoppedByListener(t) PROVE Typed'
  <2>1. stops' \in 0 .. MaxStops /\ stopping' \in 0 .. MaxStops /\ stopping' <= stops'
    BY <1>5, BoundsAssumption DEF StartStoppedByListener, TypeOK
  <2>2. /\ configVersion' \in Versions \cup {-1} /\ announced' \in Versions \cup {-1}
        /\ timers' \subseteq Starts /\ pollingTimer' \in Starts \cup {None}
    BY <1>5 DEF StartStoppedByListener, TypeOK
  <2>3. /\ stage' \in [Tasks -> Stages]
        /\ \A x \in Tasks : stage'[x] = "answered" => stage[x] = "answered"
    BY <1>5 DEF StartStoppedByListener, Keep, TypeOK, Stages, Due, Awaiting
  <2> QED
    BY <1>5, <2>1, <2>2, <2>3, DisconnectTyped DEF StartStoppedByListener, Keep, TypeOK, envVars
<1>6. ASSUME PollSucceeds PROVE Typed'
  BY <1>6, Names DEF PollSucceeds, Keep, TypeOK, Stages, nodeVars, envVars, stopVars
<1>7. ASSUME PollFails PROVE Typed'
  <2>1. CASE configNode # None /\ ~connected[configNode]
    BY <1>7, <2>1, ReconnectTyped DEF PollFails, TypeOK, envVars, stopVars
  <2>2. CASE ~(configNode # None /\ ~connected[configNode])
    BY <1>7, <2>2, Names DEF PollFails, Keep, TypeOK, Stages, nodeVars, envVars, stopVars
  <2> QED
    BY <2>1, <2>2
<1>8. ASSUME NEW i \in Starts, Tick(i) PROVE Typed'
  BY <1>8, Names, EnsureTyped DEF Tick, TypeOK, envVars, stopVars
<1>9. ASSUME Stop PROVE Typed'
  <2>1. stops' \in 0 .. MaxStops /\ stopping' \in 0 .. MaxStops /\ stopping' <= stops'
    BY <1>9, BoundsAssumption DEF Stop, TypeOK
  <2> QED
    BY <1>9, <2>1, DisconnectTyped DEF Stop, TypeOK, taskVars, envVars
<1>10. ASSUME StopContinues PROVE Typed'
  <2>1. stopping' \in 0 .. MaxStops /\ stopping' <= stops'
    BY <1>10, BoundsAssumption DEF StopContinues, TypeOK
  <2> QED
    BY <1>10, <2>1 DEF StopContinues, TypeOK, taskVars, nodeVars, envVars
<1>11. ASSUME NEW s \in Sockets, Ready(s) PROVE Typed'
  BY <1>11, Wakes, WakesTyped DEF Ready, TypeOK, envVars, stopVars
<1>12. ASSUME NEW s \in Sockets, Refused(s) PROVE Typed'
  <2>1. faults' \in 0 .. MaxFaults
    BY <1>12, BoundsAssumption DEF Refused, TypeOK
  <2> QED
    BY <1>12, <2>1, Wakes, WakesTyped DEF Refused, TypeOK, stopVars
<1>13. ASSUME NEW s \in Sockets, Lost(s) PROVE Typed'
  <2>1. faults' \in 0 .. MaxFaults
    BY <1>13, BoundsAssumption DEF Lost, TypeOK
  <2> QED
    BY <1>13, <2>1 DEF Lost, TypeOK, taskVars, selfVars, stopVars
<1>14. ASSUME NEW s \in Sockets, Close(s) PROVE Typed'
  <2>1. queue' \in [Nodes -> Seq(Tasks)]
    <3>1. PICK n : queue' = [queue EXCEPT ![n] = <<>>]
      BY <1>14 DEF Close
    <3>2. <<>> \in Seq(Tasks) /\ queue \in [Nodes -> Seq(Tasks)]
      BY DEF TypeOK
    <3>3. [queue EXCEPT ![n] = <<>>] \in [Nodes -> Seq(Tasks)]
      BY <3>2, SetEntry
    <3> QED
      BY <3>1, <3>3
  <2>2. /\ stage' \in [Tasks -> Stages]
        /\ \A x \in Tasks : stage'[x] = "answered" => stage[x] = "answered"
    BY <1>14 DEF Close, TypeOK, Stages, Due
  <2> QED
    BY <1>14, <2>1, <2>2 DEF Close, TypeOK, selfVars, envVars, stopVars
<1>15. ASSUME NEW s \in Sockets, Deliver(s) PROVE Typed'
  <2>1. PICK n : n = owner[s]
    OBVIOUS
  <2>2. wire[s] \in Seq(Versions \cup {Unasked, Bad})
    BY DEF TypeOK
  <2>3. /\ wire[s] # <<>> /\ Head(wire[s]) # Unasked
        /\ wire' = [wire EXCEPT ![s] = Tail(wire[s])]
    BY <1>15 DEF Deliver
  <2>4. Head(wire[s]) \in Versions \cup {Bad} /\ Tail(wire[s]) \in Seq(Versions \cup {Unasked, Bad})
    BY <2>2, <2>3
  <2>5. wire' \in [Sockets -> Seq(Versions \cup {Unasked, Bad})]
    BY <2>3, <2>4 DEF TypeOK
  <2>6. CASE queue[n] = <<>>
    <3>1. UNCHANGED <<queue, taskVars>>
      BY <1>15, <2>1, <2>6 DEF Deliver
    <3> QED
      BY <1>15, <3>1, <2>5 DEF Deliver, TypeOK, taskVars, selfVars, envVars, stopVars
  <2>7. CASE queue[n] # <<>>
    <3>1. PICK t, e : /\ t = Head(queue[n]) /\ e = Head(wire[s])
                      /\ queue' = [queue EXCEPT ![n] = Tail(queue[n])]
                      /\ answer' = [answer EXCEPT ![t] = e]
                      /\ stage' = [stage EXCEPT ![t] = Received(e)]
                      /\ node' = node /\ awaited' = awaited
      BY <1>15, <2>1, <2>7 DEF Deliver
    <3>2. e \in Versions \cup {Bad}
      BY <2>4, <3>1
    <3>3. Received(e) \in Stages /\ (Received(e) = "answered" => e \in Versions)
      BY <3>2 DEF Received, Stages, Due
    <3>4. stage' \in [Tasks -> Stages] /\ answer' \in [Tasks -> Versions \cup {Unasked, Bad}]
      BY <3>1, <3>2, <3>3 DEF TypeOK
    <3>5. \A x \in Tasks : stage'[x] = "answered" => answer'[x] \in Versions
      BY <3>1, <3>3 DEF TypeOK
    <3>6. queue' \in [Nodes -> Seq(Tasks)]
      <4>1. queue \in [Nodes -> Seq(Tasks)]
        BY DEF TypeOK
      <4>2. n \in Nodes => Tail(queue[n]) \in Seq(Tasks)
        BY <4>1, <2>7
      <4>3. [queue EXCEPT ![n] = Tail(queue[n])] \in [Nodes -> Seq(Tasks)]
        BY <4>1, <4>2, SetEntry
      <4> QED
        BY <3>1, <4>3
    <3> QED
      BY <1>15, <2>5, <3>1, <3>4, <3>5, <3>6 DEF Deliver, TypeOK, selfVars, envVars, stopVars
  <2> QED
    BY <2>6, <2>7
<1>16. ASSUME NEW s \in Sockets, NEW reply \in {published, Bad}, ServerAnswers(s, reply) PROVE Typed'
  <2>1. faults' \in 0 .. MaxFaults
    BY <1>16, BoundsAssumption DEF ServerAnswers, TypeOK
  <2>2. PICK i \in DOMAIN wire[s] : wire' = [wire EXCEPT ![s][i] = reply]
    BY <1>16 DEF ServerAnswers
  <2>3. reply \in Versions \cup {Unasked, Bad} /\ wire[s] \in Seq(Versions \cup {Unasked, Bad})
    BY DEF TypeOK
  <2>4. [wire[s] EXCEPT ![i] = reply] \in Seq(Versions \cup {Unasked, Bad})
    BY <2>3
  <2>5. wire' \in [Sockets -> Seq(Versions \cup {Unasked, Bad})]
    BY <2>2, <2>4 DEF TypeOK
  <2> QED
    BY <1>16, <2>1, <2>5 DEF ServerAnswers, TypeOK, taskVars, selfVars, stopVars
<1>17. ASSUME Publish PROVE Typed'
  <2>1. published' \in Versions
    BY <1>17, BoundsAssumption DEF Publish, TypeOK, Versions
  <2> QED
    BY <1>17, <2>1 DEF Publish, TypeOK, taskVars, selfVars, nodeVars, stopVars
<1>18. ASSUME UNCHANGED vars PROVE Typed'
  BY <1>18 DEF TypeOK, vars, taskVars, selfVars, nodeVars, envVars, stopVars
<1> QED
  BY <1>1, <1>2, <1>3, <1>4, <1>5, <1>6, <1>7, <1>8, <1>9, <1>10, <1>11, <1>12, <1>13, <1>14,
     <1>15, <1>16, <1>17, <1>18 DEF Next, Continue, Network

-----------------------------------------------------------------------------
(* Order                                                                   *)

\* The types of what changes.
LEMMA Shapes ==
    ASSUME Inv
    PROVE  /\ stage \in [Tasks -> Stages] /\ node \in [Tasks -> Nodes \cup {None}]
           /\ awaited \in [Tasks -> Sockets \cup {None}]
           /\ socket \in [Sockets -> {"unused", "connecting", "open", "destroyed", "closed"}]
           /\ owner \in [Sockets -> Nodes \cup {None}] /\ current \in [Nodes -> Sockets \cup {None}]
           /\ connected \in [Nodes -> BOOLEAN] /\ queue \in [Nodes -> Seq(Tasks)]
           /\ isRunning \in BOOLEAN /\ isPolling \in BOOLEAN /\ stopped \in BOOLEAN
           /\ configNode \in Nodes \cup {None} /\ stopping \in Nat
           /\ timers \subseteq Starts
BY BoundsAssumption DEF Inv, Typed, TypeOK

\* With nothing in progress no connection is being made and no command waits.
LEMMA NothingWaits ==
    ASSUME Inv, ~overtaken, \A t \in Tasks : ~InProgress(t)
    PROVE  /\ \A s \in Sockets : socket[s] # "connecting"
           /\ \A n \in Nodes : queue[n] = <<>>
<1>1. \A s \in Sockets : socket[s] # "connecting"
  BY DEF Inv, Orderly, OneSocket, Awaits, InProgress
<1>2. ASSUME NEW n \in Nodes, queue[n] # <<>> PROVE FALSE
  <2>1. queue[n] \in Seq(Tasks)
    BY Shapes
  <2>2. 1 \in DOMAIN queue[n] /\ queue[n][1] \in Tasks
    BY <1>2, <2>1
  <2>3. stage[queue[n][1]] = "fetching"
    BY <2>2 DEF Inv, Orderly, Queued
  <2> QED
    BY <2>2, <2>3 DEF InProgress
<1> QED
  BY <1>1, <1>2

\* While a continuation is due nothing waits for the network.
LEMMA DueAlone ==
    ASSUME Inv, ~overtaken, NEW t \in Tasks, stage[t] \in Due
    PROVE  /\ \A u \in Tasks : InProgress(u) => u = t
           /\ \A s \in Sockets : socket[s] # "connecting"
           /\ \A n \in Nodes : queue[n] = <<>>
           /\ ~(stopping > 0)
<1>1. InProgress(t)
  BY DEF InProgress, Due
<1>2. \A u \in Tasks : InProgress(u) => u = t
  BY <1>1 DEF Inv, Orderly, Alone
<1>3. \A s \in Sockets : socket[s] # "connecting"
  <2> SUFFICES ASSUME NEW s \in Sockets, socket[s] = "connecting" PROVE FALSE
    OBVIOUS
  <2>1. PICK u \in Tasks : Awaits(u, s)
    BY DEF Inv, Orderly, OneSocket
  <2>2. u = t
    BY <1>2, <2>1 DEF Awaits, InProgress
  <2> QED
    BY <2>1, <2>2 DEF Awaits, Due
<1>4. ASSUME NEW n \in Nodes, queue[n] # <<>> PROVE FALSE
  <2>1. queue[n] \in Seq(Tasks)
    BY Shapes
  <2>2. 1 \in DOMAIN queue[n] /\ queue[n][1] \in Tasks
    BY <1>4, <2>1
  <2>3. stage[queue[n][1]] = "fetching"
    BY <2>2 DEF Inv, Orderly, Queued
  <2>4. queue[n][1] = t
    BY <1>2, <2>2, <2>3 DEF InProgress
  <2> QED
    BY <2>3, <2>4 DEF Due
<1>5. ~(stopping > 0)
  BY DEF Inv, Orderly, Quiet
<1> QED
  BY <1>2, <1>3, <1>4, <1>5

\* ensureConfigNode() takes the connection there is, or makes the only one.
LEMMA Ensures ==
    ASSUME Inv, ~overtaken, NEW t \in Tasks, \A u \in Tasks : ~InProgress(u), EnsureConfigNode(t)
    PROVE  /\ OneSocket' /\ Queued'
           /\ stage'[t] \in {"ensured", "connecting"}
           /\ \A u \in Tasks : u # t => stage'[u] = stage[u]
<1>1. CASE configNode # None /\ connected[configNode]
  <2>1. /\ stage' = [stage EXCEPT ![t] = "ensured"] /\ awaited' = awaited
        /\ configNode' = configNode /\ socket' = socket /\ owner' = owner /\ current' = current
        /\ connected' = connected /\ queue' = queue
    BY <1>1 DEF EnsureConfigNode, nodeVars
  <2>3. OneSocket'
    BY <2>1, NothingWaits DEF Inv, Orderly, OneSocket, Alive
  <2>4. Queued'
    BY <2>1, NothingWaits DEF Queued
  <2> QED
    BY <2>1, <2>3, <2>4, Shapes
<1>2. CASE ~(configNode # None /\ connected[configNode])
  <2>1. PICK n \in Nodes : Fresh(n) /\ configNode' = n /\ ConnectNode(n, t)
    BY <1>2, Zenon DEF EnsureConfigNode
  <2>2. /\ socket' = [socket EXCEPT ![n] = "connecting"] /\ owner' = [owner EXCEPT ![n] = n]
        /\ current' = [current EXCEPT ![n] = n] /\ awaited' = [awaited EXCEPT ![t] = n]
        /\ stage' = [stage EXCEPT ![t] = "connecting"] /\ connected' = connected /\ queue' = queue
        /\ socket[n] = "unused" /\ \A x \in 1 .. n - 1 : socket[x] # "unused"
    BY <2>1 DEF ConnectNode, OpenSocket, Fresh
  <2>3. Dead
    BY <1>2, NothingWaits, Names DEF Dead, Alive, Inv, Orderly, OneSocket, None, Nodes
  <2>5. ASSUME NEW x \in Sockets, x > n PROVE socket[x] = "unused"
    <3>1. n \in 1 .. x - 1
      BY <2>5, Names DEF Nodes
    <3> QED
      BY <2>2, <3>1 DEF Inv, Used
  <2>6. OneSocket'
    <3>1. ASSUME NEW s \in Sockets PROVE s # n => socket'[s] = socket[s] /\ ~Alive(s)
      BY <2>2, <2>3, Shapes DEF Dead
    <3>2. socket'[n] = "connecting" /\ owner'[n] = n /\ current'[n] = n
      BY <2>2, Shapes DEF Nodes
    <3>3. Awaits(t, n)'
      BY <2>2, Shapes DEF Awaits
    <3>4. ASSUME NEW x \in Sockets, x > n PROVE socket'[x] = "unused"
      BY <2>5, <3>1, <3>4, Names DEF Nodes
    <3> QED
      BY <2>1, <3>1, <3>2, <3>3, <3>4 DEF OneSocket, Alive, Nodes
  <2>7. Queued'
    BY <2>2, NothingWaits DEF Queued
  <2> QED
    BY <2>2, <2>6, <2>7, Shapes
<1> QED
  BY <1>1, <1>2

LEMMA OrderlyStart ==
    ASSUME Inv, ~overtaken', NEW t \in Tasks, Start(t)
    PROVE  Orderly'
<1>1. /\ ~isRunning /\ isRunning' /\ stopped' = FALSE /\ isPolling' = isPolling /\ timers' = timers
      /\ pollingTimer' = pollingTimer /\ ~overtaken /\ stopping' = stopping /\ t \in Starts
      /\ \A u \in Tasks : ~InProgress(u)
      /\ EnsureConfigNode(t) /\ stopping = 0 /\ stage[t] = "idle"
  BY DEF Start, MayStart, Settled
<1>2. /\ OneSocket' /\ Queued' /\ stage'[t] \in {"ensured", "connecting"}
      /\ \A u \in Tasks : u # t => stage'[u] = stage[u]
  BY <1>1, Ensures
<1>3. timers = {}
  BY <1>1 DEF Inv, Orderly, Timed
<1>4. Alone'
  BY <1>1, <1>2, Names DEF Inv, Orderly, Alone, InProgress
<1>5. Timed'
  BY <1>1, <1>2, <1>3 DEF Timed, InProgress
<1>6. Quiet'
  BY <1>1 DEF Quiet
<1> QED
  BY <1>2, <1>4, <1>5, <1>6 DEF Orderly

LEMMA OrderlyTick ==
    ASSUME Inv, ~overtaken', NEW i \in Starts, Tick(i)
    PROVE  Orderly'
<1>1. /\ ~isPolling /\ isPolling' /\ isRunning' = isRunning /\ stopped' = stopped /\ timers' = timers
      /\ pollingTimer' = pollingTimer /\ ~overtaken /\ stopping' = stopping /\ i \in timers
      /\ EnsureConfigNode(Poll) /\ stopping = 0
  BY DEF Tick, Settled, stopVars
<1>2. \A u \in Tasks : ~InProgress(u)
  BY <1>1 DEF Inv, Orderly, Timed, Alone, InProgress, Tasks
<1>3. /\ OneSocket' /\ Queued' /\ stage'[Poll] \in {"ensured", "connecting"}
      /\ \A u \in Tasks : u # Poll => stage'[u] = stage[u]
  BY <1>1, <1>2, Names, Ensures
<1>4. isRunning /\ ~stopped
  BY <1>1 DEF Inv, Orderly, Timed, Quiet
<1>5. Alone'
  BY <1>1, <1>2, <1>3, Names DEF Inv, Orderly, Alone, InProgress
<1>6. Timed'
  BY <1>1, <1>2, <1>3, Names DEF Inv, Orderly, Timed, InProgress
<1>7. Quiet'
  BY <1>1, <1>4 DEF Quiet
<1> QED
  BY <1>3, <1>5, <1>6, <1>7 DEF Orderly

\* A step of the task whose continuation is due, which leaves the node alone.
LEMMA DueStep ==
    ASSUME Inv, ~overtaken, NEW t \in Tasks, stage[t] \in Due,
           socket' = socket, current' = current, owner' = owner, connected' = connected,
           configNode' = configNode, queue' = queue
    PROVE  OneSocket' /\ Queued' /\ (Dead' <=> Dead)
<1>2. OneSocket'
  BY DueAlone DEF Inv, Orderly, OneSocket, Alive
<1>3. Queued'
  BY DueAlone DEF Queued
<1>4. Dead' <=> Dead
  BY DEF Dead, Alive
<1> QED
  BY <1>2, <1>3, <1>4

LEMMA OrderlyFetchConfig ==
    ASSUME Inv, ~overtaken', NEW t \in Tasks, FetchConfig(t)
    PROVE  Orderly'
<1>1. /\ stage[t] = "ensured" /\ stage' = [stage EXCEPT ![t] = "fetching"] /\ node' = node
      /\ awaited' = awaited /\ queue' = [queue EXCEPT ![node[t]] = Append(queue[node[t]], t)]
      /\ socket' = socket /\ owner' = owner /\ current' = current /\ connected' = connected
      /\ isRunning' = isRunning /\ isPolling' = isPolling /\ timers' = timers
      /\ pollingTimer' = pollingTimer /\ configNode' = configNode /\ stopping' = stopping
      /\ stopped' = stopped /\ ~overtaken
  BY DEF FetchConfig, Keep, selfVars, stopVars
<1>2. /\ \A u \in Tasks : InProgress(u) => u = t
      /\ \A s \in Sockets : socket[s] # "connecting"
      /\ \A n \in Nodes : queue[n] = <<>>
      /\ ~(stopping > 0)
  BY <1>1, DueAlone DEF Due
<1>3. stage'[t] = "fetching" /\ \A u \in Tasks : u # t => stage'[u] = stage[u]
  BY <1>1, Shapes
<1>5. Alone'
  <2>1. \A u \in Tasks : InProgress(u)' => InProgress(u)
    BY <1>1, <1>3 DEF InProgress
  <2>2. stage[Poll] = "idle" => stage'[Poll] = "idle"
    BY <1>1, <1>3, Names
  <2> QED
    BY <1>1, <1>2, <1>3, <2>1, <2>2 DEF Inv, Orderly, Alone
<1>6. Timed'
  <2>1. \A u \in Tasks : InProgress(u)' <=> InProgress(u)
    BY <1>1, <1>3 DEF InProgress
  <2> QED
    BY <1>1, <2>1, Names DEF Inv, Orderly, Timed
<1>7. OneSocket'
  BY <1>1, <1>2 DEF Inv, Orderly, OneSocket, Alive
<1>8. Queued'
  <2> SUFFICES ASSUME NEW n \in Nodes, NEW i \in DOMAIN queue'[n]
               PROVE  i = 1 /\ stage'[queue'[n][i]] = "fetching" /\ node'[queue'[n][i]] = n
    BY DEF Queued
  <2>1. queue[n] = <<>>
    BY <1>2
  <2>2. n # node[t] => queue'[n] = <<>>
    BY <1>1, <2>1, Shapes
  <2>3. n = node[t] => queue'[n] = <<t>>
    BY <1>1, <2>1, Shapes
  <2> QED
    BY <1>1, <1>3, <2>2, <2>3
<1>9. Quiet'
  <2>1. isRunning
    BY <1>1, <1>2 DEF Inv, Orderly, Quiet, InProgress
  <2> QED
    BY <1>1, <1>2, <2>1 DEF Inv, Orderly, Quiet
<1> QED
  BY <1>5, <1>6, <1>7, <1>8, <1>9 DEF Orderly

LEMMA OrderlyStartSucceeds ==
    ASSUME Inv, ~overtaken', NEW t \in Tasks, StartSucceeds(t)
    PROVE  Orderly'
<1>1. /\ stage[t] = "answered" /\ t \in Starts /\ stage' = [stage EXCEPT ![t] = "done"]
      /\ timers' = timers \cup {t} /\ pollingTimer' = t
      /\ socket' = socket /\ owner' = owner /\ current' = current /\ connected' = connected
      /\ queue' = queue /\ configNode' = configNode
      /\ isRunning' = isRunning /\ isPolling' = isPolling
      /\ stopping' = stopping /\ stopped' = stopped /\ ~overtaken
  BY DEF StartSucceeds, SetTimer, Keep, nodeVars, stopVars
<1>2. /\ \A u \in Tasks : InProgress(u) => u = t
      /\ ~(stopping > 0)
      /\ OneSocket' /\ Queued'
  BY <1>1, DueAlone, DueStep DEF Due
<1>3. stage'[t] = "done" /\ \A u \in Tasks : u # t => stage'[u] = stage[u]
  BY <1>1, Shapes
<1>4. \A u \in Tasks : ~InProgress(u)'
  BY <1>2, <1>3 DEF InProgress
<1>5. timers = {} /\ isRunning
  BY <1>1 DEF Inv, Orderly, Timed, Quiet, InProgress
<1>6. Alone'
  BY <1>1, <1>3, <1>4, Names DEF Inv, Orderly, Alone
<1>7. Timed'
  BY <1>1, <1>4, <1>5, Names DEF Timed
<1>8. Quiet'
  BY <1>1, <1>2, <1>5 DEF Inv, Orderly, Quiet
<1> QED
  BY <1>2, <1>6, <1>7, <1>8 DEF Orderly

LEMMA OrderlyStartFails ==
    ASSUME Inv, ~overtaken', NEW t \in Tasks, StartFails(t)
    PROVE  Orderly'
<1>1. /\ stage[t] = "rejected" /\ t \in Starts /\ stage' = [stage EXCEPT ![t] = "failed"]
      /\ timers' = timers /\ pollingTimer' = pollingTimer /\ isRunning' = FALSE
      /\ socket' = socket /\ owner' = owner /\ current' = current /\ connected' = connected
      /\ queue' = queue /\ configNode' = configNode /\ isPolling' = isPolling
      /\ stopping' = stopping /\ stopped' = stopped /\ ~overtaken
  BY DEF StartFails, Keep, nodeVars, stopVars
<1>2. /\ \A u \in Tasks : InProgress(u) => u = t
      /\ ~(stopping > 0)
      /\ OneSocket' /\ Queued' /\ (Dead' <=> Dead)
  BY <1>1, DueAlone, DueStep DEF Due
<1>3. stage'[t] = "failed" /\ \A u \in Tasks : u # t => stage'[u] = stage[u]
  BY <1>1, Shapes
<1>4. \A u \in Tasks : ~InProgress(u)'
  BY <1>2, <1>3 DEF InProgress
<1>5. timers = {}
  BY <1>1 DEF Inv, Orderly, Timed, InProgress
<1>6. Alone'
  BY <1>1, <1>3, <1>4, Names DEF Inv, Orderly, Alone
<1>7. Timed'
  BY <1>1, <1>5 DEF Timed
<1>8. Quiet'
  BY <1>1, <1>2, <1>4 DEF Inv, Orderly, Quiet
<1> QED
  BY <1>2, <1>6, <1>7, <1>8 DEF Orderly

LEMMA OrderlyPollSucceeds ==
    ASSUME Inv, ~overtaken', PollSucceeds
    PROVE  Orderly'
<1>1. /\ stage[Poll] = "answered" /\ stage' = [stage EXCEPT ![Poll] = "idle"]
      /\ timers' = timers /\ pollingTimer' = pollingTimer /\ isRunning' = isRunning
      /\ socket' = socket /\ owner' = owner /\ current' = current /\ connected' = connected
      /\ queue' = queue /\ configNode' = configNode /\ isPolling' = FALSE
      /\ stopping' = stopping /\ stopped' = stopped /\ ~overtaken
  BY DEF PollSucceeds, Keep, nodeVars, stopVars
<1>2. /\ \A u \in Tasks : InProgress(u) => u = Poll
      /\ ~(stopping > 0)
      /\ OneSocket' /\ Queued' /\ (Dead' <=> Dead)
  BY <1>1, DueAlone, DueStep, Names DEF Due
<1>3. stage'[Poll] = "idle" /\ \A u \in Tasks : u # Poll => stage'[u] = stage[u]
  BY <1>1, Shapes, Names
<1>4. \A u \in Tasks : ~InProgress(u)'
  BY <1>2, <1>3 DEF InProgress
<1>5. Alone'
  BY <1>1, <1>3, <1>4, Names DEF Inv, Orderly, Alone
<1>6. Timed'
  <2>1. \A u \in Starts : ~InProgress(u)
    BY <1>2, Names
  <2> QED
    BY <1>1, <1>4, <2>1, Names DEF Inv, Orderly, Timed
<1>7. Quiet'
  BY <1>1, <1>2, <1>4 DEF Inv, Orderly, Quiet
<1> QED
  BY <1>2, <1>5, <1>6, <1>7 DEF Orderly

LEMMA OrderlyStop ==
    ASSUME Inv, ~overtaken', Stop
    PROVE  Orderly'
<1>1. /\ stage' = stage /\ node' = node /\ awaited' = awaited /\ queue' = queue
      /\ timers' = timers \ {pollingTimer} /\ pollingTimer' = None /\ isRunning' = FALSE
      /\ isPolling' = isPolling /\ configNode' = configNode /\ owner' = owner
      /\ stopping' = stopping + 1 /\ stopped' = stopped /\ ~overtaken
      /\ socket' = IF configNode = None THEN socket ELSE Kill(socket, current[configNode])
      /\ \A t \in Tasks : stage[t] \notin Due
  BY DEF Stop, DisconnectNode, taskVars, Settled
<1>2. \A s \in Sockets : ~Alive(s)' /\ (socket'[s] = "unused" <=> socket[s] = "unused")
  <2>1. ASSUME NEW s \in Sockets, Alive(s) PROVE configNode # None /\ current[configNode] = s
    BY <1>1, <2>1, Names DEF Inv, Orderly, OneSocket, None, Nodes
  <2>2. CASE configNode = None
    BY <1>1, <2>1, <2>2 DEF Alive
  <2>3. CASE configNode # None
    <3>1. \A s \in Sockets : socket'[s] = IF s = current[configNode] /\ Alive(s)
                                          THEN "destroyed" ELSE socket[s]
      BY <1>1, <2>3, Zenon DEF Kill, Alive
    <3> QED
      BY <2>1, <3>1 DEF Alive
  <2> QED
    BY <2>2, <2>3
<1>4. Alone'
  BY <1>1 DEF Inv, Orderly, Alone, InProgress
<1>5. Timed'
  BY <1>1 DEF Inv, Orderly, Timed
<1>6. OneSocket'
  BY <1>2 DEF OneSocket, Alive
<1>7. Queued'
  BY <1>1 DEF Inv, Orderly, Queued
<1>8. Quiet'
  <2>1. Dead'
    BY <1>2 DEF Dead
  <2>2. stopping' > 0
    BY <1>1, Shapes
  <2> QED
    BY <1>1, <2>1, <2>2 DEF Inv, Orderly, Quiet, Due
<1> QED
  BY <1>4, <1>5, <1>6, <1>7, <1>8 DEF Orderly

LEMMA OrderlyStopContinues ==
    ASSUME Inv, ~overtaken', StopContinues
    PROVE  Orderly'
<1>1. /\ stage' = stage /\ node' = node /\ queue' = queue /\ socket' = socket
      /\ timers' = timers /\ pollingTimer' = pollingTimer /\ isRunning' = isRunning
      /\ isPolling' = isPolling /\ configNode' = None
      /\ stopping > 0 /\ stopping' = stopping - 1 /\ ~overtaken
  BY DEF StopContinues, taskVars, nodeVars
<1>2. ~isRunning /\ Dead /\ \A t \in Tasks : stage[t] \notin Due
  BY <1>1 DEF Inv, Orderly, Quiet
<1>3. Dead'
  BY <1>1, <1>2 DEF Dead, Alive
<1>4. Alone' /\ Timed' /\ Queued'
  BY <1>1 DEF Inv, Orderly, Alone, Timed, Queued, InProgress
<1>5. OneSocket'
  BY <1>3 DEF OneSocket, Dead, Alive
<1>6. Quiet'
  BY <1>1, <1>2, <1>3 DEF Quiet, Due
<1> QED
  BY <1>4, <1>5, <1>6 DEF Orderly

LEMMA OrderlyPollFails ==
    ASSUME Inv, ~overtaken', PollFails
    PROVE  Orderly'
<1>1. /\ stage[Poll] = "rejected"
      /\ timers' = timers /\ pollingTimer' = pollingTimer /\ isRunning' = isRunning
      /\ configNode' = configNode /\ stopping' = stopping /\ stopped' = stopped /\ ~overtaken
  BY DEF PollFails, stopVars
<1>2. /\ \A u \in Tasks : InProgress(u) => u = Poll
      /\ \A s \in Sockets : socket[s] # "connecting"
      /\ \A n \in Nodes : queue[n] = <<>>
      /\ ~(stopping > 0)
  BY <1>1, DueAlone, Names DEF Due
<1>3. \A u \in Starts : ~InProgress(u)
  BY <1>2, Names
<1>4. CASE configNode # None /\ ~connected[configNode]
  <2> DEFINE n == configNode
  <2>1. PICK s \in Sockets : Fresh(s) /\ OpenSocket(Kill(socket, current[n]), s, n, Poll)
    BY <1>1, <1>4 DEF PollFails, ReconnectNode
  <2>2. /\ n \in Nodes
        /\ socket' = [Kill(socket, current[n]) EXCEPT ![s] = "connecting"]
        /\ owner' = [owner EXCEPT ![s] = n] /\ current' = [current EXCEPT ![n] = s]
        /\ awaited' = [awaited EXCEPT ![Poll] = s]
        /\ socket[s] = "unused" /\ \A x \in 1 .. s - 1 : socket[x] # "unused"
    BY <1>4, <2>1, Shapes DEF OpenSocket, Fresh
  <2>3. /\ stage' = [x \in Tasks |-> IF x = Poll THEN "repairing"
                                ELSE IF x \in ToSet(queue[n]) THEN "rejected" ELSE stage[x]]
        /\ connected' = [connected EXCEPT ![n] = FALSE] /\ queue' = [queue EXCEPT ![n] = <<>>]
        /\ isPolling' = isPolling
    BY <1>1, <1>4 DEF PollFails, ReconnectNode
  <2>4. ToSet(queue[n]) = {}
    BY <1>2, <2>2 DEF ToSet
  <2>5. stage'[Poll] = "repairing" /\ \A u \in Tasks : u # Poll => stage'[u] = stage[u]
    BY <2>3, <2>4, Names
  <2>6. \A x \in Sockets : ~Alive(x)
    BY <1>1, <1>2, <1>4 DEF Inv, Orderly, OneSocket, Alive
  <2>7. \A x \in Sockets : socket'[x] = IF x = s THEN "connecting" ELSE socket[x]
    <3>1. \A x \in Sockets : Kill(socket, current[n])[x] = socket[x]
      BY <2>6 DEF Kill, Alive
    <3> QED
      BY <2>2, <3>1 DEF Kill
  <2>9. OneSocket'
    <3>1. ASSUME NEW x \in Sockets, x > s PROVE socket'[x] = "unused"
      <4>1. s \in 1 .. x - 1 /\ x # s
        BY <3>1, Names
      <4> QED
        BY <2>2, <2>7, <4>1 DEF Inv, Used
    <3>2. Awaits(Poll, s)'
      BY <2>2, <2>5, Names, Shapes DEF Awaits
    <3>3. current'[n] = s /\ owner'[s] = n
      BY <2>2, Shapes
    <3>4. \A x \in Sockets : x # s => ~Alive(x)'
      BY <2>6, <2>7 DEF Alive
    <3>5. \A x \in Sockets : Alive(x)' => configNode' \in Nodes /\ current'[configNode'] = x /\ owner'[x] = configNode'
      BY <1>1, <2>2, <3>3, <3>4
    <3>6. \A x \in Sockets : socket'[x] = "connecting" => \E t \in Tasks : Awaits(t, x)'
      BY <3>2, <3>4, Names DEF Alive
    <3>7. \A x \in Sockets : socket'[x] # "open"
      BY <2>7, <3>4 DEF Alive
    <3>8. \A x, y \in Sockets : Alive(x)' /\ y > x => socket'[y] = "unused"
      BY <3>1, <3>4
    <3> QED
      BY <3>5, <3>6, <3>7, <3>8 DEF OneSocket
  <2>10. Alone'
    BY <1>2, <2>3, <2>5, <1>1, Names DEF Inv, Orderly, Alone, InProgress
  <2>11. Timed'
    BY <1>1, <1>3, <2>5, Names DEF Inv, Orderly, Timed, InProgress
  <2>12. Queued'
    BY <1>2, <2>2, <2>3, Shapes DEF Queued
  <2>13. Quiet'
    <3>1. isRunning /\ ~stopped
      BY <1>1, <1>2, <1>4, Names DEF Inv, Orderly, Quiet, InProgress
    <3> QED
      BY <1>1, <1>2, <3>1 DEF Quiet
  <2> QED
    BY <2>9, <2>10, <2>11, <2>12, <2>13 DEF Orderly
<1>5. CASE ~(configNode # None /\ ~connected[configNode])
  <2>1. /\ stage' = [stage EXCEPT ![Poll] = "idle"] /\ isPolling' = FALSE
        /\ socket' = socket /\ owner' = owner /\ current' = current /\ connected' = connected
        /\ queue' = queue
    BY <1>5 DEF PollFails, Keep, nodeVars
  <2>2. OneSocket' /\ Queued' /\ (Dead' <=> Dead)
    BY <1>1, <2>1, DueStep, Names DEF Due
  <2>3. stage'[Poll] = "idle" /\ \A u \in Tasks : u # Poll => stage'[u] = stage[u]
    BY <2>1, Shapes, Names
  <2>4. \A u \in Tasks : ~InProgress(u)'
    BY <1>2, <2>3 DEF InProgress
  <2>5. Alone'
    BY <1>1, <2>1, <2>3, <2>4, Names DEF Inv, Orderly, Alone
  <2>6. Timed'
    BY <1>1, <1>3, <2>4, Names DEF Inv, Orderly, Timed
  <2>7. Quiet'
    BY <1>1, <1>2, <2>2, <2>4 DEF Inv, Orderly, Quiet
  <2> QED
    BY <2>2, <2>5, <2>6, <2>7 DEF Orderly
<1> QED
  BY <1>4, <1>5

\* A connection is being made: one task awaits it, and no command waits.
LEMMA Connecting ==
    ASSUME Inv, ~overtaken, NEW s \in Sockets, socket[s] = "connecting"
    PROVE  /\ \A x \in Sockets : Alive(x) => x = s
           /\ configNode \in Nodes /\ current[configNode] = s /\ owner[s] = configNode
           /\ \A x \in Sockets : x > s => socket[x] = "unused"
           /\ \A n \in Nodes : queue[n] = <<>>
           /\ isRunning /\ ~stopped
           /\ \E t \in Tasks : Awaits(t, s) /\ \A u \in Tasks : InProgress(u) => u = t
<1>1. Alive(s)
  BY DEF Alive
<1>2. PICK t \in Tasks : Awaits(t, s)
  BY DEF Inv, Orderly, OneSocket
<1>3. InProgress(t) /\ \A u \in Tasks : InProgress(u) => u = t
  BY <1>2 DEF Inv, Orderly, Alone, Awaits, InProgress
<1>4. ASSUME NEW n \in Nodes, queue[n] # <<>> PROVE FALSE
  <2>1. queue[n] \in Seq(Tasks)
    BY Shapes
  <2>2. 1 \in DOMAIN queue[n] /\ queue[n][1] \in Tasks
    BY <1>4, <2>1
  <2>3. stage[queue[n][1]] = "fetching"
    BY <2>2 DEF Inv, Orderly, Queued
  <2> QED
    BY <1>2, <1>3, <2>2, <2>3 DEF Awaits, InProgress
<1>5. isRunning /\ ~stopped
  BY <1>1, <1>3 DEF Inv, Orderly, Quiet, Dead
<1> QED
  BY <1>1, <1>2, <1>3, <1>4, <1>5 DEF Inv, Orderly, OneSocket

\* What the task does that awaited it.
LEMMA Woke ==
    ASSUME Inv, ~overtaken, NEW s \in Sockets, socket[s] = "connecting",
           NEW fails \in BOOLEAN, WakeAwaiting(s, fails),
           timers' = timers, pollingTimer' = pollingTimer, isRunning' = isRunning
    PROVE  Alone' /\ Timed' /\ node' = node
<1>1. PICK t \in Tasks : Awaits(t, s) /\ \A u \in Tasks : InProgress(u) => u = t
  BY Connecting
<1>2. InProgress(t)
  BY <1>1 DEF Awaits, InProgress
<1>3. /\ node' = node
      /\ \E u \in Tasks :
            /\ Awaits(u, s)
            /\ \/ /\ stage[u] = "repairing" /\ isPolling' = FALSE
                  /\ stage' = [stage EXCEPT ![u] = "idle"]
               \/ /\ stage[u] # "repairing" /\ isPolling' = isPolling
                  /\ stage' = [stage EXCEPT ![u] = IF fails THEN "rejected" ELSE "ensured"]
  BY <1>1, Wakes DEF Inv, Typed
<1>4. PICK u \in Tasks :
            /\ Awaits(u, s)
            /\ \/ /\ stage[u] = "repairing" /\ isPolling' = FALSE
                  /\ stage' = [stage EXCEPT ![u] = "idle"]
               \/ /\ stage[u] # "repairing" /\ isPolling' = isPolling
                  /\ stage' = [stage EXCEPT ![u] = IF fails THEN "rejected" ELSE "ensured"]
  BY <1>3
<1>5. u = t
  BY <1>1, <1>4 DEF Awaits, InProgress
<1>6. \A x \in Tasks : x # t => stage'[x] = stage[x]
  BY <1>4, <1>5, Shapes
<1>7. CASE stage[t] = "repairing"
  <2>1. t = Poll /\ stage'[t] = "idle" /\ isPolling' = FALSE
    BY <1>4, <1>5, <1>7, Shapes DEF Inv, Orderly, Alone, Tasks
  <2>2. Alone'
    BY <1>1, <1>6, <2>1, Names DEF Inv, Orderly, Alone, InProgress
  <2>3. Timed'
    BY <1>1, <1>6, <2>1, Names DEF Inv, Orderly, Timed, InProgress
  <2> QED
    BY <1>3, <2>2, <2>3
<1>8. CASE stage[t] # "repairing"
  <2>1. stage'[t] \in {"rejected", "ensured"} /\ isPolling' = isPolling
    BY <1>4, <1>5, <1>8, Shapes
  <2>2. \A x \in Tasks : InProgress(x)' <=> InProgress(x)
    BY <1>2, <1>6, <2>1 DEF InProgress
  <2>3. stage[Poll] = "idle" => stage'[Poll] = "idle"
    BY <1>2, <1>6, Names DEF InProgress
  <2>4. Alone'
    BY <1>6, <2>1, <2>2, <2>3, Names DEF Inv, Orderly, Alone
  <2>5. Timed'
    BY <2>2, Names DEF Inv, Orderly, Timed
  <2> QED
    BY <1>3, <2>4, <2>5
<1> QED
  BY <1>7, <1>8

LEMMA OrderlyReady ==
    ASSUME Inv, ~overtaken', NEW s \in Sockets, Ready(s)
    PROVE  Orderly'
<1>1. /\ InOrder(s) /\ socket[s] = "connecting" /\ stopping = 0
      /\ socket' = [socket EXCEPT ![s] = "open"] /\ connected' = [connected EXCEPT ![owner[s]] = TRUE]
      /\ WakeAwaiting(s, FALSE)
      /\ timers' = timers /\ pollingTimer' = pollingTimer /\ isRunning' = isRunning
      /\ owner' = owner /\ current' = current /\ queue' = queue /\ configNode' = configNode
      /\ stopping' = stopping /\ stopped' = stopped /\ ~overtaken
  BY DEF Ready, Settled, stopVars
<1>2. Alone' /\ Timed'
  BY <1>1, Woke
<1>3. \A x \in Sockets : socket'[x] = IF x = s THEN "open" ELSE socket[x]
  BY <1>1, Shapes
<1>5. OneSocket'
  <2>1. /\ \A x \in Sockets : x # s => ~Alive(x)'
        /\ configNode \in Nodes /\ current[configNode] = s /\ owner[s] = configNode
        /\ \A x \in Sockets : x > s => socket'[x] = "unused"
    BY <1>1, <1>3, Connecting, Names DEF Alive
  <2>2. connected'[configNode]
    BY <1>1, <2>1, Shapes
  <2>3. ASSUME NEW x \in Sockets PROVE socket'[x] # "destroyed"
    <3>1. CASE x < s
      <4>1. x \in 1 .. s - 1
        BY <3>1, Names
      <4> QED
        BY <1>1, <1>3, <3>1, <4>1, Names DEF InOrder
    <3>2. CASE x = s
      BY <1>3, <3>2
    <3>3. CASE x > s
      BY <2>1, <3>3
    <3> QED
      BY <3>1, <3>2, <3>3, Names
  <2> QED
    BY <1>1, <1>3, <2>1, <2>2, <2>3 DEF OneSocket, Alive
<1>6. Queued'
  BY <1>1, Connecting DEF Queued
<1>7. Quiet'
  BY <1>1, Connecting DEF Quiet
<1> QED
  BY <1>2, <1>5, <1>6, <1>7 DEF Orderly

LEMMA OrderlyRefused ==
    ASSUME Inv, ~overtaken', NEW s \in Sockets, Refused(s)
    PROVE  Orderly'
<1>1. /\ socket[s] = "connecting" /\ stopping = 0
      /\ socket' = [socket EXCEPT ![s] = "destroyed"]
      /\ WakeAwaiting(s, TRUE)
      /\ timers' = timers /\ pollingTimer' = pollingTimer /\ isRunning' = isRunning
      /\ queue' = queue /\ stopping' = stopping /\ stopped' = stopped /\ ~overtaken
  BY DEF Refused, Settled, stopVars
<1>2. Alone' /\ Timed'
  BY <1>1, Woke
<1>3. \A x \in Sockets : socket'[x] = IF x = s THEN "destroyed" ELSE socket[x]
  BY <1>1, Shapes
<1>5. OneSocket'
  BY <1>1, <1>3, Connecting DEF OneSocket, Alive
<1>6. Queued'
  BY <1>1, Connecting DEF Queued
<1>7. Quiet'
  BY <1>1, Connecting DEF Quiet
<1> QED
  BY <1>2, <1>5, <1>6, <1>7 DEF Orderly

LEMMA OrderlyLost ==
    ASSUME Inv, ~overtaken', NEW s \in Sockets, Lost(s)
    PROVE  Orderly'
<1>1. /\ socket[s] = "open" /\ stage' = stage /\ node' = node /\ queue' = queue
      /\ socket' = [socket EXCEPT ![s] = "destroyed"]
      /\ timers' = timers /\ pollingTimer' = pollingTimer /\ isRunning' = isRunning
      /\ isPolling' = isPolling /\ configNode' = configNode
      /\ stopping' = stopping /\ stopped' = stopped /\ ~overtaken
  BY DEF Lost, selfVars, taskVars, stopVars
<1>2. \A x \in Sockets : socket'[x] = IF x = s THEN "destroyed" ELSE socket[x]
  BY <1>1, Shapes
<1>3. \A x \in Sockets : ~Alive(x)'
  BY <1>1, <1>2 DEF Inv, Orderly, OneSocket, Alive
<1>5. Alone' /\ Timed' /\ Queued'
  BY <1>1 DEF Inv, Orderly, Alone, Timed, Queued, InProgress
<1>6. OneSocket'
  BY <1>3 DEF OneSocket, Alive
<1>7. Quiet'
  BY <1>1, <1>3 DEF Inv, Orderly, Quiet, Dead, InProgress
<1> QED
  BY <1>5, <1>6, <1>7 DEF Orderly

LEMMA OrderlyClose ==
    ASSUME Inv, ~overtaken', NEW s \in Sockets, Close(s)
    PROVE  Orderly'
<1> DEFINE m == owner[s]
           Q == ToSet(queue[m])
<1>1. /\ socket[s] = "destroyed" /\ stopping = 0 /\ socket' = [socket EXCEPT ![s] = "closed"]
      /\ connected' = [connected EXCEPT ![m] = FALSE] /\ queue' = [queue EXCEPT ![m] = <<>>]
      /\ stage' = [t \in Tasks |-> IF t \in Q THEN "rejected" ELSE stage[t]]
      /\ node' = node /\ awaited' = awaited /\ owner' = owner /\ current' = current
      /\ timers' = timers /\ pollingTimer' = pollingTimer /\ isRunning' = isRunning
      /\ isPolling' = isPolling /\ configNode' = configNode
      /\ stopping' = stopping /\ stopped' = stopped /\ ~overtaken
  BY DEF Close, selfVars, stopVars, Settled
<1>2. \A x \in Sockets : socket'[x] = IF x = s THEN "closed" ELSE socket[x]
  BY <1>1, Shapes
<1>3. \A x \in Sockets : Alive(x)' <=> Alive(x)
  BY <1>1, <1>2 DEF Alive
<1>4. m \in Nodes
  BY <1>1 DEF Inv, Used
<1>5. ASSUME NEW t \in Tasks, stage'[t] # stage[t]
      PROVE  stage[t] = "fetching" /\ stage'[t] = "rejected"
             /\ \E i \in DOMAIN queue[m] : queue[m][i] = t
  <2>1. t \in Q /\ stage'[t] = "rejected"
    BY <1>1, <1>5
  <2>2. PICK i \in DOMAIN queue[m] : queue[m][i] = t
    BY <1>4, <2>1, QueuedTasks DEF Inv, Typed
  <2> QED
    BY <1>1, <1>4, <2>1, <2>2 DEF Inv, Orderly, Queued
<1> HIDE DEF m, Q
<1>7. \A t \in Tasks : InProgress(t)' <=> InProgress(t)
  BY <1>5 DEF InProgress
<1>8. Alone'
  BY <1>1, <1>5, <1>7, Names DEF Inv, Orderly, Alone
<1>9. Timed'
  BY <1>1, <1>7, Names DEF Inv, Orderly, Timed
<1>10. OneSocket'
  <2>1. \A x \in Sockets : socket'[x] # "open"
    BY <1>1, <1>2 DEF Inv, Orderly, OneSocket
  <2>2. ASSUME NEW x \in Sockets, socket'[x] = "connecting" PROVE \E t \in Tasks : Awaits(t, x)'
    <3>1. socket[x] = "connecting"
      BY <1>2, <2>2
    <3>2. PICK t \in Tasks : Awaits(t, x)
      BY <1>1, <3>1 DEF Inv, Orderly, OneSocket
    <3>3. Awaits(t, x)'
      BY <1>1, <1>5, <3>2 DEF Awaits
    <3> QED
      BY <3>3
  <2>3. ASSUME NEW x \in Sockets, Alive(x)'
        PROVE  /\ configNode' \in Nodes /\ current'[configNode'] = x /\ owner'[x] = configNode'
               /\ \A y \in Sockets : y > x => socket'[y] = "unused"
    <3>1. Alive(x)
      BY <1>3, <2>3
    <3>2. /\ configNode \in Nodes /\ current[configNode] = x /\ owner[x] = configNode
          /\ \A y \in Sockets : y > x => socket[y] = "unused"
      BY <1>1, <3>1 DEF Inv, Orderly, OneSocket
    <3> QED
      BY <1>1, <1>2, <3>2
  <2> QED
    BY <2>1, <2>2, <2>3 DEF OneSocket
<1>11. Queued'
  <2> SUFFICES ASSUME NEW n \in Nodes, NEW i \in DOMAIN queue'[n]
               PROVE  i = 1 /\ stage'[queue'[n][i]] = "fetching" /\ node'[queue'[n][i]] = n
    BY DEF Queued
  <2>1. n # m /\ queue'[n] = queue[n]
    BY <1>1, Shapes
  <2>2. i = 1 /\ stage[queue[n][i]] = "fetching" /\ node[queue[n][i]] = n
    BY <1>1, <2>1 DEF Inv, Orderly, Queued
  <2>3. queue[n][i] \in Tasks
    <3>1. queue[n] \in Seq(Tasks)
      BY Shapes
    <3> QED
      BY <2>1, <3>1
  <2>4. stage'[queue[n][i]] = stage[queue[n][i]]
    <3> SUFFICES ASSUME stage'[queue[n][i]] # stage[queue[n][i]] PROVE FALSE
      OBVIOUS
    <3>1. PICK j \in DOMAIN queue[m] : queue[m][j] = queue[n][i]
      BY <1>5, <2>3
    <3>2. node[queue[m][j]] = m
      BY <1>1, <1>4, <3>1 DEF Inv, Orderly, Queued
    <3> QED
      BY <2>1, <2>2, <3>1, <3>2
  <2> QED
    BY <1>1, <2>1, <2>2, <2>4
<1>12. Quiet'
  <2>1. Dead' <=> Dead
    BY <1>3 DEF Dead
  <2>2. \A t \in Tasks : stage'[t] \in {"ensured", "answered"} => stage[t] = stage'[t]
    BY <1>5
  <2> QED
    BY <1>1, <1>7, <2>1, <2>2 DEF Inv, Orderly, Quiet
<1> QED
  BY <1>8, <1>9, <1>10, <1>11, <1>12 DEF Orderly

LEMMA OrderlyDeliver ==
    ASSUME Inv, ~overtaken', NEW s \in Sockets, Deliver(s)
    PROVE  Orderly'
<1> DEFINE m == owner[s]
<1>1. /\ socket[s] = "open" /\ stopping = 0 /\ socket' = socket /\ owner' = owner /\ current' = current
      /\ connected' = connected /\ timers' = timers /\ pollingTimer' = pollingTimer
      /\ isRunning' = isRunning /\ isPolling' = isPolling /\ configNode' = configNode
      /\ stopping' = stopping /\ stopped' = stopped /\ ~overtaken
  BY DEF Deliver, selfVars, stopVars, Settled
<1>2. m \in Nodes /\ ~Dead
  BY <1>1 DEF Inv, Orderly, OneSocket, Alive, Dead
<1>4. CASE queue[m] = <<>>
  <2>1. UNCHANGED <<queue, taskVars>>
    BY <1>4 DEF Deliver
  <2>2. stage' = stage /\ node' = node /\ awaited' = awaited /\ queue' = queue
    BY <2>1 DEF taskVars
  <2>3. Alone' /\ Timed' /\ Queued'
    BY <1>1, <2>2 DEF Inv, Orderly, Alone, Timed, Queued, InProgress
  <2>4. OneSocket'
    BY <1>1, <2>2 DEF Inv, Orderly, OneSocket, Alive, Awaits
  <2>5. Quiet'
    BY <1>1, <2>2 DEF Inv, Orderly, Quiet, Dead, Alive, InProgress
  <2> QED
    BY <2>3, <2>4, <2>5 DEF Orderly
<1>5. CASE queue[m] # <<>>
  <2>1. PICK t : t = queue[m][1]
    OBVIOUS
  <2>2. queue[m] \in Seq(Tasks)
    BY <1>2, Shapes
  <2>3. /\ t \in Tasks /\ Head(queue[m]) = t /\ 1 \in DOMAIN queue[m]
        /\ \A i \in DOMAIN Tail(queue[m]) : i + 1 \in DOMAIN queue[m]
        /\ DOMAIN Tail(queue[m]) \subseteq Nat \ {0} /\ Tail(queue[m]) \in Seq(Tasks)
    BY <1>5, <2>1, <2>2
  <2>4. stage[t] = "fetching" /\ node[t] = m
    BY <1>1, <1>2, <2>1, <2>3 DEF Inv, Orderly, Queued
  <2>5. \A u \in Tasks : InProgress(u) => u = t
    BY <1>1, <2>3, <2>4 DEF Inv, Orderly, Alone, InProgress
  <2>6. Tail(queue[m]) = <<>>
    <3>1. \A i \in DOMAIN Tail(queue[m]) : FALSE
      BY <1>1, <1>2, <2>3 DEF Inv, Orderly, Queued
    <3> QED
      BY <2>3, <3>1
  <2>7. PICK next \in {"rejected", "answered"} :
            /\ stage' = [stage EXCEPT ![t] = next]
            /\ queue' = [queue EXCEPT ![m] = Tail(queue[m])] /\ node' = node /\ awaited' = awaited
    BY <1>5, <2>3 DEF Deliver, Received
  <2>8. /\ stage'[t] = next /\ \A u \in Tasks : u # t => stage'[u] = stage[u]
        /\ \A n \in Nodes : queue'[n] = IF n = m THEN <<>> ELSE queue[n]
    BY <2>3, <2>6, <2>7, Shapes
  <2>9. \A u \in Tasks : InProgress(u)' <=> InProgress(u)
    BY <2>3, <2>4, <2>7, <2>8 DEF InProgress
  <2>10. Alone'
    <3>1. stage[Poll] = "idle" => stage'[Poll] = "idle"
      BY <2>4, <2>8, Names
    <3> QED
      BY <1>1, <2>3, <2>7, <2>8, <2>9, <3>1, Names DEF Inv, Orderly, Alone
  <2>11. Timed'
    BY <1>1, <2>9, Names DEF Inv, Orderly, Timed
  <2>12. OneSocket'
    <3>1. \A x \in Sockets : socket'[x] # "connecting"
      BY <1>1, <2>4, <2>5 DEF Inv, Orderly, OneSocket, Awaits, InProgress
    <3> QED
      BY <1>1, <3>1 DEF Inv, Orderly, OneSocket, Alive
  <2>13. Queued'
    <3> SUFFICES ASSUME NEW n \in Nodes, NEW i \in DOMAIN queue'[n] PROVE FALSE
      BY DEF Queued
    <3>1. n # m /\ queue'[n] = queue[n]
      BY <2>8
    <3>2. stage[queue[n][i]] = "fetching" /\ node[queue[n][i]] = n
      BY <1>1, <3>1 DEF Inv, Orderly, Queued
    <3>3. queue[n][i] \in Tasks
      <4>1. queue[n] \in Seq(Tasks)
        BY Shapes
      <4> QED
        BY <3>1, <4>1
    <3> QED
      BY <2>4, <2>5, <3>1, <3>2, <3>3 DEF InProgress
  <2>14. Quiet'
    <3>1. isRunning /\ ~stopped
      BY <1>1, <1>2, <2>3, <2>4 DEF Inv, Orderly, Quiet, InProgress
    <3> QED
      BY <1>1, <3>1 DEF Quiet
  <2> QED
    BY <2>10, <2>11, <2>12, <2>13, <2>14 DEF Orderly
<1> QED
  BY <1>4, <1>5

\* A step takes the next socket for a node, or none.
LEMMA UsedStep ==
    ASSUME Inv, [Next]_vars
    PROVE  Used'
<1> DEFINE Stays == /\ owner' = owner
                    /\ \A s \in Sockets : socket'[s] = "unused" <=> socket[s] = "unused"
           Taken == \E n \in Nodes, s \in Sockets :
                        /\ Fresh(s) /\ owner' = [owner EXCEPT ![s] = n]
                        /\ \A x \in Sockets : socket'[x] = "unused" <=> x # s /\ socket[x] = "unused"
<1>1. ASSUME NEW states \in [Sockets -> {"unused", "connecting", "open", "destroyed", "closed"}],
             NEW n \in Nodes, NEW s \in Sockets, NEW t \in Tasks, Fresh(s), OpenSocket(states, s, n, t),
             \A x \in Sockets : states[x] = "unused" <=> socket[x] = "unused"
      PROVE  Taken
  <2>1. owner' = [owner EXCEPT ![s] = n] /\ socket' = [states EXCEPT ![s] = "connecting"]
    BY <1>1 DEF OpenSocket
  <2>2. \A x \in Sockets : socket'[x] = "unused" <=> x # s /\ socket[x] = "unused"
    BY <1>1, <2>1
  <2> QED
    BY <1>1, <2>1, <2>2
<1>2. ASSUME NEW x PROVE /\ Kill(socket, x) \in [Sockets -> {"unused", "connecting", "open", "destroyed", "closed"}]
                         /\ \A s \in Sockets : Kill(socket, x)[s] = "unused" <=> socket[s] = "unused"
  BY Shapes DEF Kill
<1>3. ASSUME NEW t \in Tasks, EnsureConfigNode(t) PROVE Stays \/ Taken
  <2>1. CASE configNode # None /\ connected[configNode]
    BY <1>3, <2>1 DEF EnsureConfigNode, nodeVars
  <2>2. CASE ~(configNode # None /\ connected[configNode])
    <3>1. PICK n \in Nodes : Fresh(n) /\ ConnectNode(n, t)
      BY <1>3, <2>2, Zenon DEF EnsureConfigNode
    <3>2. n \in Sockets /\ OpenSocket(socket, n, n, t)
      BY <3>1 DEF ConnectNode, Nodes
    <3> QED
      BY <1>1, <3>1, <3>2, Shapes
  <2> QED
    BY <2>1, <2>2
<1>4. ASSUME DisconnectNode(configNode) PROVE Stays
  BY <1>2, <1>4, Zenon DEF DisconnectNode
<1>5. ASSUME configNode # None, ReconnectNode(configNode, Poll) PROVE Taken
  <2>1. PICK s \in Sockets : Fresh(s) /\ OpenSocket(Kill(socket, current[configNode]), s, configNode, Poll)
    BY <1>5 DEF ReconnectNode
  <2> QED
    BY <1>1, <1>2, <1>5, <2>1, Names, Shapes
<1>6. Stays \/ Taken
  <2> HIDE DEF Stays, Taken
  <2>1. ASSUME \/ \E t \in Tasks : Start(t)
               \/ \E i \in Starts : Tick(i)
        PROVE Stays \/ Taken
    BY <1>3, <2>1, Names DEF Start, Tick
  <2>2. ASSUME PollFails PROVE Stays \/ Taken
    BY <1>5, <2>2 DEF PollFails, nodeVars, Stays
  <2>3. ASSUME Stop \/ \E t \in Tasks : StartStoppedByListener(t) PROVE Stays
    BY <1>4, <2>3 DEF Stop, StartStoppedByListener
  <2>4. ASSUME NEW s \in Sockets, Ready(s) \/ Refused(s) \/ Lost(s) \/ Close(s) PROVE Stays
    <3>1. PICK state : socket' = [socket EXCEPT ![s] = state] /\ socket[s] # "unused"
                       /\ state # "unused" /\ owner' = owner
      BY <2>4 DEF Ready, Refused, Lost, Close
    <3> QED
      BY <3>1, Shapes DEF Stays
  <2>5. ASSUME \/ \E s \in Sockets : Deliver(s) \/ \E reply \in {published, Bad} : ServerAnswers(s, reply)
               \/ PollSucceeds \/ StopContinues \/ Publish \/ UNCHANGED vars
               \/ \E t \in Tasks : Continue(t)
        PROVE  Stays
    BY <2>5 DEF Deliver, ServerAnswers, PollSucceeds, StopContinues, Publish, Continue, FetchConfig,
                StartSucceeds, StartFails, nodeVars, vars, Stays
  <2> QED
    BY <2>1, <2>2, <2>3, <2>4, <2>5 DEF Next, Network
<1>7. CASE Stays
  BY <1>7, Names DEF Inv, Used
<1>8. CASE Taken
  <2>1. PICK n \in Nodes, s \in Sockets :
            /\ Fresh(s) /\ owner' = [owner EXCEPT ![s] = n]
            /\ \A x \in Sockets : socket'[x] = "unused" <=> x # s /\ socket[x] = "unused"
    BY <1>8
  <2> SUFFICES ASSUME NEW z \in Sockets, socket'[z] # "unused"
               PROVE  owner'[z] \in Nodes /\ \A x \in 1 .. z - 1 : socket'[x] # "unused"
    BY DEF Used
  <2>2. owner'[z] \in Nodes
    BY <2>1, Shapes DEF Inv, Used
  <2>3. ASSUME NEW x \in 1 .. z - 1 PROVE socket'[x] # "unused"
    <3>1. x \in Sockets
      BY Names
    <3>2. socket[x] # "unused" \/ x = s
      BY <2>1 DEF Inv, Used, Fresh
    <3> QED
      BY <2>1, <3>1, <3>2
  <2> QED
    BY <2>2, <2>3
<1> QED
  BY <1>6, <1>7, <1>8

LEMMA OrderlyStep ==
    ASSUME Inv, [Next]_vars
    PROVE  Orderly'
<1> SUFFICES ASSUME ~overtaken' PROVE Orderly'
  BY DEF Orderly
<1>1. ASSUME NEW t \in Tasks, StartStoppedByListener(t) PROVE FALSE
  BY <1>1 DEF StartStoppedByListener
<1>2. ASSUME UNCHANGED <<selfVars, taskVars, stopVars, socket, owner, current, connected, queue>>
      PROVE  Orderly'
  BY <1>2 DEF Inv, Orderly, Alone, Timed, OneSocket, Queued, Quiet, Dead, Alive, Awaits, InProgress,
              selfVars, taskVars, stopVars
<1>3. ASSUME \/ \E s \in Sockets : \E reply \in {published, Bad} : ServerAnswers(s, reply)
             \/ Publish \/ UNCHANGED vars
      PROVE  UNCHANGED <<selfVars, taskVars, stopVars, socket, owner, current, connected, queue>>
  BY <1>3 DEF ServerAnswers, Publish, vars, nodeVars
<1> QED
  BY <1>1, <1>2, <1>3, OrderlyStart, OrderlyTick, OrderlyFetchConfig, OrderlyStartSucceeds,
     OrderlyStartFails, OrderlyPollSucceeds, OrderlyPollFails, OrderlyStop, OrderlyStopContinues,
     OrderlyReady, OrderlyRefused, OrderlyLost, OrderlyClose, OrderlyDeliver
     DEF Next, Continue, Network

LEMMA InvInit == Init => Inv
<1> SUFFICES ASSUME Init PROVE Inv
  OBVIOUS
<1>1. Used /\ Orderly
  BY Names DEF Init, Used, Orderly, Alone, Timed, OneSocket, Queued, Quiet, Dead, Alive, InProgress
<1> QED
  BY <1>1, TypedInit DEF Inv

LEMMA InvHolds == Spec => []Inv
<1>1. Inv /\ [Next]_vars => Inv'
  BY TypedStep, UsedStep, OrderlyStep DEF Inv
<1> QED
  BY InvInit, <1>1, PTL DEF Spec

\* Every variable keeps its type, the versions that are announced among them.
THEOREM TypeCorrect == Spec => []TypeOK
<1>1. Inv => TypeOK
  BY DEF Inv, Typed
<1> QED
  BY InvHolds, <1>1, PTL

\* Unless a listener calls stop(), one interval timer ticks, the one stop()
\* can clear, exactly while discovery runs and its start() has returned
\* (auto-discovery.ts 85-126).
THEOREM TimersAreStoppable == Spec => []OneTimer
<1>1. Inv => OneTimer
  BY DEF Inv, Orderly, Timed, OneTimer
<1> QED
  BY InvHolds, <1>1, PTL

\* Unless a listener calls stop(), the only connection discovery may hold is
\* that of the configuration node it knows (auto-discovery.ts 217-241, 285-289).
THEOREM ConnectionsAreKnown == Spec => []NoOrphan
<1>1. Inv => NoOrphan
  BY Names DEF Inv, Orderly, OneSocket, NoOrphan, None, Nodes
<1> QED
  BY InvHolds, <1>1, PTL

\* Unless a listener calls stop(), stop() leaves neither a timer nor a
\* connection, wherever the tasks were (auto-discovery.ts 116-128).
THEOREM StopIsFinal == Spec => []StoppedIsQuiet
<1>1. Inv => StoppedIsQuiet
  BY DEF Inv, Orderly, Timed, Quiet, Dead, StoppedIsQuiet
<1> QED
  BY InvHolds, <1>1, PTL

=============================================================================
