---------------------------- MODULE AutoDiscovery ----------------------------
(***************************************************************************)
(* AutoDiscovery of src/src/auto-discovery.ts: the object that keeps a     *)
(* connection to the configuration endpoint of a cluster and announces the *)
(* versions of its configuration.                                          *)
(*                                                                         *)
(* start(), stop() and the polls of the interval timer interleave at their *)
(* awaits.  A task is one such activity: poll() is task 0, which _isPolling *)
(* makes the only one of its kind, and the k-th call of start() is task k.  *)
(* A configuration is known by its version.                                *)
(*                                                                         *)
(* The configuration node is a MemcacheNode; here it is as much of it as   *)
(* this object can see: its socket, _connected, its queue of commands, and *)
(* which task awaits a connection.                                         *)
(***************************************************************************)
EXTENDS Integers, Sequences, FiniteSets, SequencesExt

CONSTANTS
    MaxStarts,    \* bound on the calls of start()
    MaxStops,     \* bound on the calls of stop()
    MaxVersion,   \* the last version the cluster publishes
    MaxFaults     \* bound on the failures of network and server

ASSUME BoundsAssumption ==
    /\ MaxStarts \in Nat /\ MaxStops \in Nat /\ MaxVersion \in Nat \ {0} /\ MaxFaults \in Nat

Poll   == 0
Starts == 1 .. MaxStarts
Tasks  == {Poll} \cup Starts

\* A task opens one connection, and one more for each failure it meets or
\* stop() causes; every connection but those of a repair has a new node.
Sockets == 1 .. MaxStarts + MaxStops + 2 * MaxFaults + 1
Nodes   == Sockets
None    == 0

Versions == 1 .. MaxVersion
Unasked  == 0        \* a command the server has not processed
Bad      == -2       \* an error line, no data, or data that does not parse

\* Where a task is.  In the first three a continuation is due at once (a
\* microtask); in the next three it awaits the network; then it has ended.
Due      == {"ensured", "rejected", "answered"}
Awaiting == {"connecting", "fetching", "repairing"}
Stages   == Due \cup Awaiting \cup {"idle", "done", "failed"}

VARIABLES
    isRunning,      \* _isRunning
    isPolling,      \* _isPolling
    configVersion,  \* _configVersion
    timers,         \* interval timers that still tick, named by their start()
    pollingTimer,   \* _pollingTimer
    configNode,     \* _configNode
    stage,          \* where each task is
    node,           \* the node each task uses
    awaited,        \* the socket whose connect() each task awaits
    answer,         \* what the task's command was answered with
    socket,         \* state of each socket
    owner,          \* the node of each socket
    current,        \* _socket of each node
    connected,      \* _connected of each node
    queue,          \* _commandQueue of each node: the tasks that wait
    wire,           \* per socket: its commands, then answers, in order
    published,      \* the version the cluster has
    announced,      \* the version of the last event with a configuration
    stops,          \* calls of stop()
    stopping,       \* calls of stop() before `_configNode = undefined`
    stopped,        \* the last call was stop(), and it has returned
    overtaken,      \* a start() set its timer although a listener had called stop()
    faults

taskVars == <<stage, node, awaited, answer>>
nodeVars == <<socket, owner, current, connected, queue, wire>>
envVars  == <<published, faults>>
stopVars == <<stops, stopping, stopped, overtaken>>
selfVars == <<isRunning, isPolling, configVersion, timers, pollingTimer, configNode, announced>>
vars     == <<selfVars, taskVars, nodeVars, envVars, stopVars>>

Init ==
    /\ isRunning = FALSE /\ isPolling = FALSE
    /\ configVersion = -1 /\ announced = -1
    /\ timers = {} /\ pollingTimer = None /\ configNode = None
    /\ stage = [t \in Tasks |-> "idle"]
    /\ node = [t \in Tasks |-> None]
    /\ awaited = [t \in Tasks |-> None]
    /\ answer = [t \in Tasks |-> Unasked]
    /\ socket = [s \in Sockets |-> "unused"]
    /\ owner = [s \in Sockets |-> None]
    /\ current = [n \in Nodes |-> None]
    /\ connected = [n \in Nodes |-> FALSE]
    /\ queue = [n \in Nodes |-> <<>>]
    /\ wire = [s \in Sockets |-> <<>>]
    /\ published = 1 /\ faults = 0
    /\ stops = 0 /\ stopping = 0 /\ stopped = FALSE /\ overtaken = FALSE

-----------------------------------------------------------------------------
\* When things can happen

\* Continuations run before the next event of network or timer.
Settled == stopping = 0 /\ \A t \in Tasks : stage[t] \notin Due

\* A task that waits for a socket that was destroyed waits for ever.
InProgress(t) == stage[t] \notin {"idle", "done", "failed"}

\* The client starts an object once; other users are assumed to start it again
\* only when nothing of the last time is in progress.
MayStart == Settled /\ \A t \in Tasks : ~InProgress(t)

-----------------------------------------------------------------------------
\* The configuration node, as this object uses it

Alive(s) == socket[s] \in {"connecting", "open"}

Kill(states, s) ==
    [x \in Sockets |-> IF x = s /\ states[x] \in {"connecting", "open"}
                       THEN "destroyed" ELSE states[x]]

\* Sockets are taken in order.
Fresh(s) == socket[s] = "unused" /\ \A x \in 1 .. s - 1 : socket[x] # "unused"

\* Socket s, for a connect() of node n that task t awaits.
OpenSocket(states, s, n, t) ==
    /\ socket' = [states EXCEPT ![s] = "connecting"]
    /\ owner' = [owner EXCEPT ![s] = n]
    /\ current' = [current EXCEPT ![n] = s]
    /\ node' = [node EXCEPT ![t] = n]
    /\ awaited' = [awaited EXCEPT ![t] = s]

\* A new node takes the name of its first socket.
ConnectNode(n, t) ==
    /\ OpenSocket(socket, n, n, t)
    /\ stage' = [stage EXCEPT ![t] = "connecting"]
    /\ UNCHANGED <<answer, connected, queue, wire>>

\* reconnect(): the commands that wait are rejected, a fresh socket replaces
\* the one there is.
ReconnectNode(n, t) ==
    /\ \E s \in Sockets : Fresh(s) /\ OpenSocket(Kill(socket, current[n]), s, n, t)
    /\ stage' = [x \in Tasks |-> IF x = t THEN "repairing"
                                 ELSE IF x \in ToSet(queue[n]) THEN "rejected" ELSE stage[x]]
    /\ connected' = [connected EXCEPT ![n] = FALSE]
    /\ queue' = [queue EXCEPT ![n] = <<>>]
    /\ UNCHANGED <<answer, wire>>

\* disconnect(): what awaits the connection, or a command, is not told.
DisconnectNode(n) ==
    /\ socket' = IF n = None THEN socket ELSE Kill(socket, current[n])
    /\ connected' = [x \in Nodes |-> IF x = n THEN FALSE ELSE connected[x]]
    /\ current' = [x \in Nodes |-> IF x = n THEN None ELSE current[x]]
    /\ UNCHANGED <<owner, queue, wire>>

-----------------------------------------------------------------------------
\* Tasks

Keep(t, next) ==
    /\ stage' = [stage EXCEPT ![t] = next]
    /\ UNCHANGED <<node, awaited, answer>>

\* (mutant) a fresh node every time.
EnsureFreshNode(t) == \E n \in Nodes : Fresh(n) /\ configNode' = n /\ ConnectNode(n, t)

\* ensureConfigNode(): a node that is not connected is replaced, not closed.
EnsureConfigNode(t) ==
    IF configNode # None /\ connected[configNode]
    THEN /\ stage' = [stage EXCEPT ![t] = "ensured"]
         /\ node' = [node EXCEPT ![t] = configNode]
         /\ UNCHANGED <<configNode, awaited, answer, nodeVars>>
    ELSE \E n \in Nodes : Fresh(n) /\ configNode' = n /\ ConnectNode(n, t)

\* (mutant) start() does not look whether discovery is running.
StartAgain(t) ==
    /\ stage[t] = "idle" /\ t \in Starts /\ \A x \in 1 .. t - 1 : stage[x] # "idle"
    /\ MayStart
    /\ isRunning' = TRUE
    /\ stopped' = FALSE
    /\ EnsureConfigNode(t)
    /\ UNCHANGED <<isPolling, configVersion, timers, pollingTimer, announced, envVars,
                   stops, stopping, overtaken>>

\* start(), up to its first await.
Start(t) ==
    /\ stage[t] = "idle" /\ t \in Starts /\ \A x \in 1 .. t - 1 : stage[x] # "idle"
    /\ MayStart
    /\ ~isRunning
    /\ isRunning' = TRUE
    /\ stopped' = FALSE
    /\ EnsureConfigNode(t)
    /\ UNCHANGED <<isPolling, configVersion, timers, pollingTimer, announced, envVars,
                   stops, stopping, overtaken>>

\* A tick of an interval timer calls poll().
Tick(i) ==
    /\ Settled
    /\ i \in timers
    /\ ~isPolling
    /\ isPolling' = TRUE
    /\ EnsureConfigNode(Poll)
    /\ UNCHANGED <<isRunning, configVersion, timers, pollingTimer, announced, envVars, stopVars>>

\* fetchConfig(), right after ensureConfigNode(), which returns a connected
\* node: only a stop() in the same tick as start() could come between.
FetchConfig(t) ==
    LET n == node[t] IN
    /\ stage[t] = "ensured"
    /\ Keep(t, "fetching")
    /\ queue' = [queue EXCEPT ![n] = Append(@, t)]
    /\ wire' = [wire EXCEPT ![current[n]] = Append(@, Unasked)]
    /\ UNCHANGED <<socket, owner, current, connected, selfVars, envVars, stopVars>>

\* The rest of start(): the version is announced, then the timer is set,
\* whatever became of _isRunning during the awaits.
SetTimer(t) ==
    /\ timers' = timers \cup {t}
    /\ pollingTimer' = t

StartSucceeds(t) ==
    /\ stage[t] = "answered" /\ t \in Starts
    /\ configVersion' = answer[t]
    /\ announced' = answer[t]
    /\ SetTimer(t)
    /\ Keep(t, "done")
    /\ UNCHANGED <<isRunning, isPolling, configNode, nodeVars, envVars, stopVars>>

\* A listener of the autoDiscover event calls stop(), before the timer is set.
StartStoppedByListener(t) ==
    /\ stops < MaxStops
    /\ stage[t] = "answered" /\ t \in Starts
    /\ configVersion' = answer[t]
    /\ announced' = answer[t]
    /\ isRunning' = FALSE
    /\ timers' = (timers \ {pollingTimer}) \cup {t}
    /\ pollingTimer' = t
    /\ DisconnectNode(configNode)
    /\ stops' = stops + 1 /\ stopping' = stopping + 1
    /\ overtaken' = TRUE
    /\ Keep(t, "done")
    /\ UNCHANGED <<isPolling, configNode, envVars, stopped>>

StartFails(t) ==
    /\ stage[t] = "rejected" /\ t \in Starts
    /\ isRunning' = FALSE
    /\ Keep(t, "failed")
    /\ UNCHANGED <<isPolling, configVersion, timers, pollingTimer, configNode, announced,
                   nodeVars, envVars, stopVars>>

\* The rest of a poll whose discover() succeeds: a version that differs from
\* the last one seen is announced.
PollSucceeds ==
    /\ stage[Poll] = "answered"
    /\ configVersion' = answer[Poll]
    /\ announced' = IF answer[Poll] = configVersion THEN announced ELSE answer[Poll]
    /\ isPolling' = FALSE
    /\ Keep(Poll, "idle")
    /\ UNCHANGED <<isRunning, timers, pollingTimer, configNode, nodeVars, envVars, stopVars>>

\* (mutant) a failed poll forgets to reset _isPolling.
PollFailsPolling ==
    /\ stage[Poll] = "rejected"
    /\ IF configNode # None /\ ~connected[configNode]
       THEN ReconnectNode(configNode, Poll) /\ UNCHANGED isPolling
       ELSE Keep(Poll, "idle") /\ UNCHANGED <<isPolling, nodeVars>>
    /\ UNCHANGED <<isRunning, configVersion, timers, pollingTimer, configNode, announced,
                   envVars, stopVars>>

\* The catch of poll(): the configuration node of now is reconnected.
PollFails ==
    /\ stage[Poll] = "rejected"
    /\ IF configNode # None /\ ~connected[configNode]
       THEN ReconnectNode(configNode, Poll) /\ UNCHANGED isPolling
       ELSE Keep(Poll, "idle") /\ isPolling' = FALSE /\ UNCHANGED nodeVars
    /\ UNCHANGED <<isRunning, configVersion, timers, pollingTimer, configNode, announced,
                   envVars, stopVars>>

\* (mutant) stop() leaves the timer alone.
StopKeepsTimer ==
    /\ stops < MaxStops
    /\ Settled
    /\ isRunning' = FALSE
    /\ DisconnectNode(configNode)
    /\ stops' = stops + 1 /\ stopping' = stopping + 1
    /\ UNCHANGED <<isPolling, configVersion, timers, pollingTimer, configNode, announced,
                   taskVars, envVars, stopped, overtaken>>

\* stop(), up to its await, and what follows it.
Stop ==
    /\ stops < MaxStops
    /\ Settled
    /\ isRunning' = FALSE
    /\ timers' = timers \ {pollingTimer}
    /\ pollingTimer' = None
    /\ DisconnectNode(configNode)
    /\ stops' = stops + 1 /\ stopping' = stopping + 1
    /\ UNCHANGED <<isPolling, configVersion, configNode, announced, taskVars, envVars, stopped,
                   overtaken>>

StopContinues ==
    /\ stopping > 0
    /\ stopping' = stopping - 1
    /\ configNode' = None
    /\ stopped' = (isRunning = FALSE)
    /\ UNCHANGED <<isRunning, isPolling, configVersion, timers, pollingTimer, announced,
                   taskVars, nodeVars, envVars, stops, overtaken>>

-----------------------------------------------------------------------------
\* Network, server and cluster

\* What a task does when the connect() it awaits has settled.
Woken(t, next) ==
    IF stage[t] = "repairing"
    THEN Keep(t, "idle") /\ isPolling' = FALSE
    ELSE Keep(t, next) /\ UNCHANGED isPolling

Awaits(t, s) == stage[t] \in {"connecting", "repairing"} /\ awaited[t] = s

\* The event handlers settle the promise of connect() of their own socket.
WakeAwaiting(s, fails) ==
    IF \E t \in Tasks : Awaits(t, s)
    THEN LET t == CHOOSE t \in Tasks : Awaits(t, s) IN
         Woken(t, IF fails THEN "rejected" ELSE "ensured")
    ELSE UNCHANGED <<taskVars, isPolling>>

\* libuv runs close callbacks before it polls again; that a timer can be in
\* between (LateClose of MemcacheNode) is left out here.
InOrder(s) == \A x \in 1 .. s - 1 : socket[x] # "destroyed"

Ready(s) ==
    /\ Settled
    /\ InOrder(s)
    /\ socket[s] = "connecting"
    /\ socket' = [socket EXCEPT ![s] = "open"]
    /\ connected' = [connected EXCEPT ![owner[s]] = TRUE]
    /\ WakeAwaiting(s, FALSE)
    /\ UNCHANGED <<owner, current, queue, wire, isRunning, configVersion, timers,
                   pollingTimer, configNode, announced, envVars, stopVars>>

\* (mutant) the error of a connection attempt is only reported.
RefusedUnnoticed(s) ==
    /\ Settled
    /\ faults < MaxFaults
    /\ faults' = faults + 1
    /\ socket[s] = "connecting"
    /\ ~connected[owner[s]]
    /\ socket' = [socket EXCEPT ![s] = "destroyed"]
    /\ UNCHANGED <<owner, current, connected, queue, wire, taskVars, selfVars, published, stopVars>>

\* A refused connection, or a handshake that takes too long.  The error
\* handler rejects only while the node is not connected.
Refused(s) ==
    /\ Settled
    /\ faults < MaxFaults
    /\ faults' = faults + 1
    /\ socket[s] = "connecting"
    /\ ~connected[owner[s]]
    /\ socket' = [socket EXCEPT ![s] = "destroyed"]
    /\ WakeAwaiting(s, TRUE)
    /\ UNCHANGED <<owner, current, connected, queue, wire, isRunning, configVersion, timers,
                   pollingTimer, configNode, announced, published, stopVars>>

\* The connection is lost; a silent server is given up by the idle timeout.
Lost(s) ==
    /\ Settled
    /\ faults < MaxFaults
    /\ faults' = faults + 1
    /\ socket[s] = "open"
    /\ socket' = [socket EXCEPT ![s] = "destroyed"]
    /\ UNCHANGED <<owner, current, connected, queue, wire, taskVars, selfVars, published, stopVars>>

Close(s) ==
    /\ Settled
    /\ socket[s] = "destroyed"
    /\ socket' = [socket EXCEPT ![s] = "closed"]
    /\ connected' = [connected EXCEPT ![owner[s]] = FALSE]
    /\ stage' = [t \in Tasks |-> IF t \in ToSet(queue[owner[s]]) THEN "rejected" ELSE stage[t]]
    /\ queue' = [queue EXCEPT ![owner[s]] = <<>>]
    /\ UNCHANGED <<owner, current, wire, node, awaited, answer, selfVars, envVars, stopVars>>

\* The server answers the commands of a connection in order, with the
\* version there is when it does.
ServerAnswers(s, reply) ==
    /\ Settled
    /\ socket[s] = "open"
    /\ reply = Bad => faults < MaxFaults
    /\ faults' = IF reply = Bad THEN faults + 1 ELSE faults
    /\ \E i \in DOMAIN wire[s] :
          /\ wire[s][i] = Unasked
          /\ \A j \in 1 .. i - 1 : wire[s][j] # Unasked
          /\ wire' = [wire EXCEPT ![s][i] = reply]
    /\ UNCHANGED <<socket, owner, current, connected, queue, taskVars, selfVars, published, stopVars>>

\* (mutant) what the server answers is not looked at.
AcceptAnything(reply) == "answered"

Received(reply) == IF reply = Bad THEN "rejected" ELSE "answered"

Deliver(s) ==
    /\ Settled
    /\ socket[s] = "open"
    /\ wire[s] # <<>> /\ Head(wire[s]) # Unasked
    /\ wire' = [wire EXCEPT ![s] = Tail(@)]
    /\ IF queue[owner[s]] = <<>>
       THEN UNCHANGED <<queue, taskVars>>
       ELSE LET t == Head(queue[owner[s]]) IN
            /\ queue' = [queue EXCEPT ![owner[s]] = Tail(@)]
            /\ answer' = [answer EXCEPT ![t] = Head(wire[s])]
            /\ stage' = [stage EXCEPT ![t] = Received(Head(wire[s]))]
            /\ UNCHANGED <<node, awaited>>
    /\ UNCHANGED <<socket, owner, current, connected, selfVars, envVars, stopVars>>

\* A node joins the cluster or leaves it.
Publish ==
    /\ published < MaxVersion
    /\ published' = published + 1
    /\ UNCHANGED <<selfVars, taskVars, nodeVars, faults, stopVars>>

-----------------------------------------------------------------------------
Continue(t) == FetchConfig(t) \/ StartSucceeds(t) \/ StartFails(t)

Network(s) ==
    \/ Ready(s) \/ Refused(s) \/ Lost(s) \/ Close(s) \/ Deliver(s)
    \/ \E reply \in {published, Bad} : ServerAnswers(s, reply)

Next ==
    \/ \E t \in Tasks : Start(t) \/ Continue(t) \/ StartStoppedByListener(t)
    \/ PollSucceeds \/ PollFails
    \/ \E i \in Starts : Tick(i)
    \/ Stop \/ StopContinues
    \/ \E s \in Sockets : Network(s)
    \/ Publish

Spec == Init /\ [][Next]_vars

\* Continuations run, intervals tick, sockets close, and what the network has
\* accepted it delivers or fails; failures are bounded, calls are not promised.
Fairness ==
    /\ \A t \in Tasks : WF_vars(Continue(t) \/ StartStoppedByListener(t))
    /\ WF_vars(PollSucceeds \/ PollFails)
    /\ WF_vars(StopContinues)
    /\ \A i \in Starts : WF_vars(Tick(i))
    /\ \A s \in Sockets : WF_vars(Network(s))

FairSpec == Spec /\ Fairness

-----------------------------------------------------------------------------
\* Properties

TypeOK ==
    /\ isRunning \in BOOLEAN /\ isPolling \in BOOLEAN
    /\ stopped \in BOOLEAN /\ overtaken \in BOOLEAN
    /\ configVersion \in Versions \cup {-1} /\ announced \in Versions \cup {-1}
    /\ timers \subseteq Starts /\ pollingTimer \in Starts \cup {None}
    /\ configNode \in Nodes \cup {None}
    /\ stage \in [Tasks -> Stages]
    /\ node \in [Tasks -> Nodes \cup {None}]
    /\ awaited \in [Tasks -> Sockets \cup {None}]
    /\ answer \in [Tasks -> Versions \cup {Unasked, Bad}]
    /\ socket \in [Sockets -> {"unused", "connecting", "open", "destroyed", "closed"}]
    /\ owner \in [Sockets -> Nodes \cup {None}]
    /\ current \in [Nodes -> Sockets \cup {None}]
    /\ connected \in [Nodes -> BOOLEAN]
    /\ queue \in [Nodes -> Seq(Tasks)]
    /\ wire \in [Sockets -> Seq(Versions \cup {Unasked, Bad})]
    /\ published \in Versions /\ faults \in 0 .. MaxFaults
    /\ stops \in 0 .. MaxStops /\ stopping \in 0 .. MaxStops

\* The following hold as long as no listener of autoDiscover calls stop(),
\* after which the timer of the interrupted start() is out of control.

\* Discovery holds at most one connection, the one of the current
\* configuration node: none that ensureConfigNode() or reconnect() replaced
\* is left open (auto-discovery.ts 217-241, 285-289).
NoOrphan ==
    ~overtaken => \A s \in Sockets :
        Alive(s) => configNode # None /\ current[configNode] = s

\* One interval timer ticks, the one stop() can clear, exactly while
\* discovery runs and its start() has returned (auto-discovery.ts 85-126).
OneTimer ==
    ~overtaken =>
        /\ timers \subseteq {pollingTimer}
        /\ timers # {} => isRunning
        /\ isRunning => timers # {} \/ \E t \in Starts : InProgress(t)

\* After stop() nothing is left of discovery, neither a timer nor a
\* connection, whatever it was doing (auto-discovery.ts 116-128).
StoppedIsQuiet ==
    stopped /\ ~overtaken => timers = {} /\ \A s \in Sockets : ~Alive(s)

\* Every version the cluster publishes is announced in the end, or a later
\* one, unless discovery is stopped: polling survives every failure
\* (auto-discovery.ts 262-294).
Converges ==
    \A v \in Versions :
        (timers # {} /\ published = v) ~> (announced >= v \/ timers = {} \/ overtaken)

\* Every start() settles that stop() does not interrupt
\* (auto-discovery.ts 76-111).
StartsSettle ==
    \A t \in Starts : (stage[t] # "idle" /\ stops = 0)
                          ~> (stage[t] \in {"done", "failed"} \/ stops > 0)

\* An error of discovery is not final, the next poll tries again: after a failed
\* start() a timer polls again sooner or later (index.ts 1678-1685,
\* auto-discovery.ts 88-91, README.md 1045-1046).
ErrorsRetried ==
    \A t \in Starts : (stage[t] = "failed" /\ stops = 0) ~> (timers # {} \/ stops > 0)

=============================================================================
