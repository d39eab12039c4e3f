---------------------------- MODULE MemcacheNode ----------------------------
(***************************************************************************)
(* One MemcacheNode of src/src/node.ts in text mode (no SASL): the sockets *)
(* it has opened, the command queue, the state of the response parser, the *)
(* promises it hands to its callers, and the memcached server behind it.   *)
(*                                                                         *)
(* A JavaScript callback runs to completion, so each public method and     *)
(* each socket event handler is one action.  What interleaves is their     *)
(* order: calls, 'connect'/'secureConnect', 'data', 'error', 'timeout' and *)
(* 'close' events, of every socket the node ever opened.                   *)
(*                                                                         *)
(* The text of the protocol is abstracted to the lines the parser tells    *)
(* apart.  A line carries the command it answers, so that the model can    *)
(* say whose bytes a caller was given; the code does not have that tag.    *)
(***************************************************************************)
EXTENDS Integers, Sequences

CONSTANTS
    MaxSockets,    \* bound: how many sockets the node opens in a behaviour
    MaxCommands,   \* bound: how many commands are accepted in a behaviour
    Kinds,         \* the kinds of command the callers issue
    Calls,         \* the connection methods the callers use
    Overlapping,   \* TRUE: a connection method may be called before the
                   \* promise of the previous one has settled
    LateClose      \* TRUE: the 'close' event of a destroyed socket may be
                   \* delivered after events of the next socket

AllKinds == {"single", "multi", "stats", "config", "quit", "raw"}
AllCalls == {"connect", "disconnect", "reconnect", "quit"}

ASSUME MaxSocketsAssumption  == MaxSockets \in Nat
ASSUME MaxCommandsAssumption == MaxCommands \in Nat
ASSUME KindsAssumption       == Kinds \subseteq AllKinds \ {"quit"}
ASSUME CallsAssumption       == Calls \subseteq AllCalls
ASSUME OrderAssumption       == Overlapping \in BOOLEAN /\ LateClose \in BOOLEAN

Sockets  == 1 .. MaxSockets      \* in the order they are created
Commands == 1 .. MaxCommands     \* in the order they are accepted
None     == 0

VARIABLES
    \* fields of the class
    connected,      \* _connected
    socket,         \* _socket, None when undefined
    commandQueue,   \* _commandQueue
    currentCommand, \* _currentCommand, None when undefined
    multilineData,  \* _multilineData: for each entry, the command it answers
    pendingValue,   \* _pendingValueBytes > 0
    buffer,         \* the unfinished line or value held in _buffer
    \* what the class promised and to whom
    kind,           \* the command's text and parse options
    via,            \* the socket the command was written to
    foundKeys,      \* how many keys foundKeys of the queue item lists
    outcome,        \* how the promise of command() settled
    connectPromise, \* how the promise of connect() that made the socket settled
    quitting,       \* the "quit" commands that a quit() call awaits
    \* the runtime and the server
    socketState,    \* life of each socket
    toServer,       \* commands written and not yet executed
    fromServer      \* lines sent and not yet delivered

parserVars  == <<multilineData, pendingValue, buffer>>
commandVars == <<commandQueue, currentCommand, kind, via, foundKeys, outcome>>
netVars     == <<socketState, toServer, fromServer>>
vars == <<connected, socket, parserVars, commandVars, connectPromise, quitting, netVars>>

Lines == {"STORED", "VALUE", "EMPTY", "data", "blank", "END", "STAT", "CONFIG",
          "ERROR", "JUNK"}

NoLine    == [from |-> None, line |-> "JUNK"]
Unsettled == [how |-> "unsettled", values |-> <<>>, by |-> None]

Issued(c)  == kind[c] # "none"
Settled(c) == outcome[c].how # "unsettled"
Alive(s)   == socketState[s] \in {"connecting", "open"}

\* The commands that wait for an answer, oldest first.
Pending ==
    IF currentCommand = None THEN commandQueue
                             ELSE <<currentCommand>> \o commandQueue

TokenType == [line : Lines, cmd : Commands]

TypeOK ==
    /\ connected \in BOOLEAN
    /\ socket \in Sockets \cup {None}
    /\ commandQueue \in Seq(Commands)
    /\ currentCommand \in Commands \cup {None}
    /\ multilineData \in Seq(Commands \cup {None})
    /\ pendingValue \in BOOLEAN
    /\ buffer \in [from : Sockets \cup {None}, line : Lines]
    /\ kind \in [Commands -> AllKinds \cup {"none"}]
    /\ via \in [Commands -> Sockets \cup {None}]
    /\ foundKeys \in [Commands -> Nat]
    /\ outcome \in [Commands ->
            [how : {"unsettled", "resolved", "failed", "closed"},
             values : Seq(Commands \cup {None}), by : Sockets \cup {None}]]
    /\ connectPromise \in [Sockets -> {"none", "pending", "resolved", "rejected"}]
    /\ quitting \in SUBSET Commands
    /\ socketState \in [Sockets -> {"none", "connecting", "open", "destroyed", "closed"}]
    /\ toServer \in [Sockets -> Seq(Commands)]
    /\ fromServer \in [Sockets -> Seq(TokenType)]

Init ==
    /\ connected = FALSE
    /\ socket = None
    /\ commandQueue = <<>>
    /\ currentCommand = None
    /\ multilineData = <<>>
    /\ pendingValue = FALSE
    /\ buffer = NoLine
    /\ kind = [c \in Commands |-> "none"]
    /\ via = [c \in Commands |-> None]
    /\ foundKeys = [c \in Commands |-> 0]
    /\ outcome = [c \in Commands |-> Unsettled]
    /\ connectPromise = [s \in Sockets |-> "none"]
    /\ quitting = {}
    /\ socketState = [s \in Sockets |-> "none"]
    /\ toServer = [s \in Sockets |-> <<>>]
    /\ fromServer = [s \in Sockets |-> <<>>]

-----------------------------------------------------------------------------
\* Building blocks of the handlers

\* socket.destroy(): no 'data' is delivered after it, and 'close' follows
\* asynchronously.  Destroying None or a closed socket changes nothing.
Destroy(s) ==
    [t \in Sockets |-> IF t = s /\ Alive(t) THEN "destroyed" ELSE socketState[t]]

Drop(streams, s) ==
    [t \in Sockets |-> IF t = s THEN <<>> ELSE streams[t]]

DestroySocket(s) ==
    /\ socketState' = Destroy(s)
    /\ toServer' = Drop(toServer, s)
    /\ fromServer' = Drop(fromServer, s)

Settle(c, how, values) ==
    outcome' = [outcome EXCEPT ![c] = [how |-> how, values |-> values, by |-> None]]

Waiting(c) ==
    \/ c = currentCommand
    \/ \E i \in 1 .. Len(commandQueue) : commandQueue[i] = c

\* (mutant) rejectPendingCommands() that only rejects the queue.
RejectQueueOnly(s) ==
    /\ outcome' = [c \in Commands |->
            IF \E i \in 1 .. Len(commandQueue) : commandQueue[i] = c
            THEN [how |-> "closed", values |-> <<>>, by |-> s] ELSE outcome[c]]
    /\ commandQueue' = <<>>
    /\ currentCommand' = None

\* rejectPendingCommands(), called for the 'close' event of socket s, or by
\* reconnect() (s = None).
RejectPendingCommands(s) ==
    /\ outcome' = [c \in Commands |->
            IF Waiting(c) THEN [how |-> "closed", values |-> <<>>, by |-> s]
                          ELSE outcome[c]]
    /\ commandQueue' = <<>>
    /\ currentCommand' = None

SettleConnect(s, how) ==
    IF s # None /\ connectPromise[s] = "pending"
    THEN [connectPromise EXCEPT ![s] = how]
    ELSE connectPromise

\* createConnection(): the next socket, from the socket states `base`.
CreateConnection(s, base) ==
    /\ socketState[s] = "none"
    /\ \A t \in Sockets : t < s => socketState[t] # "none"
    /\ socketState' = [base EXCEPT ![s] = "connecting"]
    /\ socket' = s
    /\ connectPromise' = [connectPromise EXCEPT ![s] = "pending"]

\* The callers' discipline: with Overlapping they call at any time, without
\* it only when every promise they were given by these methods has settled.
MayCall(method) ==
    /\ method \in Calls
    /\ \/ Overlapping
       \/ /\ quitting = {}
          /\ \A s \in Sockets : connectPromise[s] # "pending"

-----------------------------------------------------------------------------
\* Calls of the public methods

\* (mutant) connect() without its early return.
ConnectAgain(s) ==
    /\ MayCall("connect")
    /\ CreateConnection(s, socketState)
    /\ UNCHANGED <<connected, parserVars, commandVars, quitting, toServer, fromServer>>

\* connect() on a node that is not connected.  (On a connected node it
\* resolves at once and changes nothing.)
Connect(s) ==
    /\ MayCall("connect")
    /\ ~connected
    /\ CreateConnection(s, socketState)
    /\ UNCHANGED <<connected, parserVars, commandVars, quitting, toServer, fromServer>>

\* (mutant) disconnect() that leaves _connected to the 'close' handler.
DisconnectStaysConnected ==
    /\ MayCall("disconnect")
    /\ socket # None
    /\ DestroySocket(socket)
    /\ socket' = None
    /\ UNCHANGED <<connected, parserVars, commandVars, connectPromise, quitting>>

\* disconnect() on a node that has a socket.
Disconnect ==
    /\ MayCall("disconnect")
    /\ socket # None
    /\ DestroySocket(socket)
    /\ socket' = None
    /\ connected' = FALSE
    /\ UNCHANGED <<parserVars, commandVars, connectPromise, quitting>>

\* reconnect() of a node that has a socket: disconnect, reject what is
\* pending, reset the parser, connect.
ReconnectWithSocket(s) ==
    /\ MayCall("reconnect")
    /\ socket # None
    /\ CreateConnection(s, Destroy(socket))
    /\ toServer' = Drop(toServer, socket)
    /\ fromServer' = Drop(fromServer, socket)
    /\ connected' = FALSE
    /\ RejectPendingCommands(None)
    /\ multilineData' = <<>>
    /\ pendingValue' = FALSE
    /\ buffer' = NoLine
    /\ UNCHANGED <<kind, via, foundKeys, quitting>>

\* reconnect() of a node without socket that is not connected: there is
\* nothing to disconnect, and nothing is reset.
ReconnectFresh(s) ==
    /\ MayCall("reconnect")
    /\ socket = None
    /\ ~connected
    /\ CreateConnection(s, socketState)
    /\ UNCHANGED <<connected, parserVars, commandVars, quitting, toServer, fromServer>>

\* reconnect() after disconnect() when a socket the node had lost track of
\* has become ready: disconnect() finds no socket, so connected stays TRUE and
\* connect() resolves without opening one.
ReconnectDetached ==
    /\ MayCall("reconnect")
    /\ socket = None
    /\ connected
    /\ RejectPendingCommands(None)
    /\ multilineData' = <<>>
    /\ pendingValue' = FALSE
    /\ buffer' = NoLine
    /\ UNCHANGED <<connected, socket, kind, via, foundKeys, connectPromise, quitting, netVars>>

\* The next command is queued and written to the current socket.  Node
\* buffers what is written to a socket that is still connecting; what is
\* written to a destroyed one is lost.
Enqueue(c, k) ==
    /\ connected
    /\ socket # None
    /\ ~Issued(c)
    /\ \A d \in Commands : d < c => Issued(d)
    /\ kind' = [kind EXCEPT ![c] = k]
    /\ via' = [via EXCEPT ![c] = socket]
    /\ commandQueue' = Append(commandQueue, c)
    /\ toServer' = IF Alive(socket)
                   THEN [toServer EXCEPT ![socket] = Append(@, c)]
                   ELSE toServer
    /\ UNCHANGED <<connected, socket, parserVars, currentCommand, foundKeys, outcome,
                   connectPromise, socketState, fromServer>>

\* command()
Command(c, k) ==
    /\ k \in Kinds
    /\ Enqueue(c, k)
    /\ UNCHANGED quitting

\* quit() up to its await, and after it.
Quit(c) ==
    /\ MayCall("quit")
    /\ Enqueue(c, "quit")
    /\ quitting' = quitting \cup {c}

QuitContinues(c) ==
    /\ c \in quitting
    /\ Settled(c)
    /\ quitting' = quitting \ {c}
    /\ DestroySocket(socket)
    /\ socket' = None
    /\ connected' = IF socket = None THEN connected ELSE FALSE
    /\ UNCHANGED <<parserVars, commandVars, connectPromise>>

-----------------------------------------------------------------------------
\* Socket events

\* libuv runs the 'close' callbacks of an iteration of the event loop last.  A
\* socket created by a callback of the poll phase has no event before the
\* 'close' of one destroyed earlier; a socket created by a timer may.
InOrder(s) ==
    LateClose \/ \A t \in Sockets : t < s => socketState[t] # "destroyed"

\* 'connect' (TCP) or 'secureConnect' (TLS).
Ready(s) ==
    /\ socketState[s] = "connecting"
    /\ InOrder(s)
    /\ socketState' = [socketState EXCEPT ![s] = "open"]
    /\ connected' = TRUE
    /\ connectPromise' = SettleConnect(s, "resolved")
    /\ UNCHANGED <<socket, parserVars, commandVars, quitting, toServer, fromServer>>

\* (mutant) 'error' handler that only emits the event.
ErrorOnlyEmits(s) ==
    /\ Alive(s)
    /\ InOrder(s)
    /\ DestroySocket(s)
    /\ UNCHANGED <<connected, socket, parserVars, commandVars, connectPromise, quitting>>

\* 'error': refused, reset, or ended by the peer ('end' has the same effect on
\* the node once the socket is open: nothing but the 'close' that follows).
\* The promise is rejected only if the node is not connected.
Error(s) ==
    /\ Alive(s)
    /\ InOrder(s)
    /\ DestroySocket(s)
    /\ connectPromise' = IF connected THEN connectPromise
                                      ELSE SettleConnect(s, "rejected")
    /\ UNCHANGED <<connected, socket, parserVars, commandVars, quitting>>

\* (mutant) 'close' handler that forgets rejectPendingCommands().
CloseKeepsPending(s) ==
    /\ socketState[s] = "destroyed"
    /\ socketState' = [socketState EXCEPT ![s] = "closed"]
    /\ connected' = FALSE
    /\ UNCHANGED <<socket, parserVars, commandVars, connectPromise, quitting,
                   toServer, fromServer>>

\* 'close' of a destroyed socket, whichever socket the node uses by now.  It
\* settles no connect promise and leaves the state of the parser alone.
Close(s) ==
    /\ socketState[s] = "destroyed"
    /\ socketState' = [socketState EXCEPT ![s] = "closed"]
    /\ connected' = FALSE
    /\ RejectPendingCommands(s)
    /\ UNCHANGED <<socket, parserVars, kind, via, foundKeys, connectPromise, quitting,
                   toServer, fromServer>>

\* (mutant) 'timeout' handler that does not destroy the socket.
TimeoutOnlyRejects(s) ==
    /\ Alive(s)
    /\ InOrder(s)
    /\ connectPromise' = SettleConnect(s, "rejected")
    /\ UNCHANGED <<connected, socket, parserVars, commandVars, quitting, netVars>>

\* 'timeout': socket s was idle for _timeout ms.  The handler destroys the
\* socket the node uses by now, and rejects the promise of s.
Timeout(s) ==
    /\ Alive(s)
    /\ InOrder(s)
    /\ DestroySocket(socket)
    /\ connectPromise' = SettleConnect(s, "rejected")
    /\ UNCHANGED <<connected, socket, parserVars, commandVars, quitting>>

-----------------------------------------------------------------------------
\* handleData() and processLine()

\* (mutant) processLine() that pops the newest command.
NewestCommand ==
    IF currentCommand # None THEN currentCommand
    ELSE IF commandQueue # <<>> THEN commandQueue[Len(commandQueue)] ELSE None

\* processLine() works for currentCommand, or shifts the next one.
NextCommand ==
    IF currentCommand # None THEN currentCommand
    ELSE IF commandQueue # <<>> THEN Head(commandQueue) ELSE None

QueueAfterShift ==
    IF currentCommand = None /\ commandQueue # <<>> THEN Tail(commandQueue)
                                                    ELSE commandQueue

Multiline(k)    == k \in {"multi", "stats", "config"}
OpensValue(k, l) == <<k, l>> \in {<<"multi", "VALUE">>, <<"config", "CONFIG">>}
ListsKey(k, l)   == k = "multi" /\ l \in {"VALUE", "EMPTY"}

\* (mutant) no entry for an empty value.
PushesOnlyStats(k, l) == k = "stats" /\ l = "STAT"

PushesLine(k, l) == <<k, l>> \in {<<"multi", "EMPTY">>, <<"stats", "STAT">>}

\* (mutant) foundKeys.pop() for foundKeys.push(key).
ForgetKey(c, l) ==
    IF ListsKey(kind[c], l) THEN [foundKeys EXCEPT ![c] = @ - 1] ELSE foundKeys

RecordKey(c, l) ==
    IF ListsKey(kind[c], l) THEN [foundKeys EXCEPT ![c] = @ + 1] ELSE foundKeys

\* The value that a VALUE or CONFIG line announced.
TakeValue(o) ==
    /\ pendingValue
    /\ pendingValue' = FALSE
    /\ multilineData' = Append(multilineData, o)
    /\ UNCHANGED commandVars

\* A line when no command waits: dropped.
IgnoreUnsolicited ==
    /\ ~pendingValue
    /\ NextCommand = None
    /\ UNCHANGED <<multilineData, pendingValue, commandVars>>

\* A line inside a multi-line answer: a VALUE, CONFIG or STAT line, or one
\* that is ignored (the empty line after a value of 0 bytes, or garbage).
ContinueAnswer(c, l, o) ==
    /\ Multiline(kind[c])
    /\ l \notin {"END", "ERROR"}
    /\ commandQueue' = QueueAfterShift
    /\ currentCommand' = c
    /\ pendingValue' = OpensValue(kind[c], l)
    /\ multilineData' = IF PushesLine(kind[c], l) THEN Append(multilineData, o)
                                                  ELSE multilineData
    /\ foundKeys' = RecordKey(c, l)
    /\ UNCHANGED <<kind, via, outcome>>

\* END: the promise resolves with what was collected.
EndAnswer(c, l, o) ==
    /\ Multiline(kind[c])
    /\ l = "END"
    /\ Settle(c, "resolved", Append(multilineData, o))
    /\ multilineData' = <<>>
    /\ commandQueue' = QueueAfterShift
    /\ currentCommand' = None
    /\ UNCHANGED <<pendingValue, kind, via, foundKeys>>

\* ERROR, CLIENT_ERROR, SERVER_ERROR: the promise is rejected.  Only the stats
\* branch keeps what it had collected.
FailAnswer(c, l, o) ==
    /\ l = "ERROR"
    /\ Settle(c, "failed", <<o>>)
    /\ multilineData' = IF kind[c] \in {"multi", "config"} THEN <<>> ELSE multilineData
    /\ commandQueue' = QueueAfterShift
    /\ currentCommand' = None
    /\ UNCHANGED <<pendingValue, kind, via, foundKeys>>

\* Any other line answers a command without multi-line option.
SingleLineAnswer(c, l, o) ==
    /\ ~Multiline(kind[c])
    /\ l # "ERROR"
    /\ Settle(c, "resolved", <<o>>)
    /\ commandQueue' = QueueAfterShift
    /\ currentCommand' = None
    /\ UNCHANGED <<multilineData, pendingValue, kind, via, foundKeys>>

ProcessLine(c, l, o) ==
    /\ ~pendingValue
    /\ c # None
    /\ \/ ContinueAnswer(c, l, o)
       \/ EndAnswer(c, l, o)
       \/ FailAnswer(c, l, o)
       \/ SingleLineAnswer(c, l, o)

\* How the buffered bytes and the rest of line t of socket s read together:
\* the line itself, or, when the bytes are left over from another socket,
\* a line that starts like the other one or like nothing the parser knows.
Readings(s, t) ==
    IF buffer.from \in {None, s} THEN {<<t.line, t.cmd>>}
                                 ELSE {<<buffer.line, None>>, <<"JUNK", None>>}

\* 'data' of socket s completes the next line (or value) of its stream.  A chunk
\* of several lines is handled like that many chunks of one line.
Data(s) ==
    /\ socketState[s] = "open"
    /\ fromServer[s] # <<>>
    /\ \E r \in Readings(s, Head(fromServer[s])) :
          \/ TakeValue(r[2])
          \/ IgnoreUnsolicited
          \/ ProcessLine(NextCommand, r[1], r[2])
    /\ buffer' = NoLine
    /\ fromServer' = [fromServer EXCEPT ![s] = Tail(@)]
    /\ UNCHANGED <<connected, socket, connectPromise, quitting, socketState, toServer>>

\* 'data' that ends inside the next line (or value) of the stream of s.
PartialData(s) ==
    /\ socketState[s] = "open"
    /\ fromServer[s] # <<>>
    /\ buffer = NoLine
    /\ buffer' = [from |-> s, line |-> Head(fromServer[s]).line]
    /\ UNCHANGED <<connected, socket, multilineData, pendingValue, commandVars,
                   connectPromise, quitting, netVars>>

-----------------------------------------------------------------------------
\* The memcached server

\* The answers memcached gives to a command.
Replies(k) ==
    CASE k = "single" -> {<<"STORED">>, <<"ERROR">>}
      [] k = "multi"  -> {<<"END">>, <<"ERROR">>, <<"VALUE", "data", "END">>,
                          <<"EMPTY", "blank", "END">>}
      [] k = "raw"    -> {<<"END">>, <<"VALUE", "data", "END">>}
      [] k = "stats"  -> {<<"ERROR">>, <<"STAT", "END">>}
      [] k = "config" -> {<<"END">>, <<"ERROR">>, <<"CONFIG", "data", "END">>}
      [] OTHER        -> {}

\* The server executes the next command of a connection and answers it.
ServerReplies(s) ==
    /\ socketState[s] = "open"
    /\ toServer[s] # <<>>
    /\ LET c == Head(toServer[s]) IN
       \E reply \in Replies(kind[c]) :
          fromServer' = [fromServer EXCEPT ![s] =
              @ \o [i \in DOMAIN reply |-> [line |-> reply[i], cmd |-> c]]]
    /\ toServer' = [toServer EXCEPT ![s] = Tail(@)]
    /\ UNCHANGED <<connected, socket, parserVars, commandVars, connectPromise, quitting,
                   socketState>>

\* It answers "quit" by closing the connection.
ServerQuits(s) ==
    /\ socketState[s] = "open"
    /\ toServer[s] # <<>>
    /\ kind[Head(toServer[s])] = "quit"
    /\ fromServer[s] = <<>>
    /\ DestroySocket(s)
    /\ UNCHANGED <<connected, socket, parserVars, commandVars, connectPromise, quitting>>

-----------------------------------------------------------------------------
Caller ==
    \/ \E s \in Sockets : Connect(s) \/ ReconnectWithSocket(s) \/ ReconnectFresh(s)
    \/ Disconnect
    \/ ReconnectDetached
    \/ \E c \in Commands : Quit(c) \/ QuitContinues(c)
    \/ \E c \in Commands, k \in Kinds : Command(c, k)

SocketEvent ==
    \E s \in Sockets :
        \/ Ready(s)
        \/ Error(s)
        \/ Close(s)
        \/ Timeout(s)
        \/ Data(s)
        \/ PartialData(s)

Server == \E s \in Sockets : ServerReplies(s) \/ ServerQuits(s)

Next == Caller \/ SocketEvent \/ Server

Spec == Init /\ [][Next]_vars

\* What the Node.js runtime guarantees: a destroyed socket emits 'close', an
\* idle one emits 'timeout', and an awaited promise that settled is resumed.
\* Nothing is assumed of the network, of the server or of the callers.
Fairness ==
    /\ \A s \in Sockets : WF_vars(Close(s)) /\ WF_vars(Timeout(s))
    /\ \A c \in Commands : WF_vars(QuitContinues(c))

FairSpec == Spec /\ Fairness

-----------------------------------------------------------------------------
\* Safety

\* A command that was accepted waits in the queue (or as the current command)
\* exactly until its promise settles: no handler drops a command, and none
\* answers one twice (node.ts 786-809, 842-1019, 1021-1035).
NothingLost ==
    \A c \in Commands : Waiting(c) <=> Issued(c) /\ ~Settled(c)

\* Promises settle in the order the commands were written, whatever mix of
\* answers, errors and closed connections settles them (node.ts 842-846,
\* 1021-1035).
SettledInOrder ==
    \A c, d \in Commands : c < d /\ Settled(d) => Settled(c)

\* The inductive invariant behind the two: commands are accepted in the order
\* of their numbers, and those that wait are queued in that order.
DeliveryInv ==
    /\ NothingLost
    /\ SettledInOrder
    /\ \A c \in Commands : Settled(c) => Issued(c)
    /\ \A c, d \in Commands : c < d /\ Issued(d) => Issued(c)
    /\ \A i, j \in 1 .. Len(commandQueue) : i < j => commandQueue[i] < commandQueue[j]
    /\ currentCommand # None =>
          \A i \in 1 .. Len(commandQueue) : currentCommand < commandQueue[i]

\* The values a multi-get resolves with are as many as the keys it found, so
\* that values[i] is the value of foundKeys[i] (node.ts 935, 947-970).
ValuesAligned ==
    \A c \in Commands : kind[c] = "multi" /\ outcome[c].how = "resolved" =>
        Len(outcome[c].values) = foundKeys[c] + 1

\* The node has one live connection at a time (node.ts 84).
OneConnection ==
    \A s, t \in Sockets : Alive(s) /\ Alive(t) => s = t

\* The node takes itself for connected exactly as long as its socket is open,
\* but for the moment between destroy() and 'close'; so no command is written
\* to a socket whose handshake is not complete (node.ts 270-312, 790-801).
ConnectedMeansOpen ==
    /\ connected => socket # None /\ socketState[socket] \in {"open", "destroyed"}
    /\ socket # None /\ socketState[socket] = "open" => connected

\* Only the end of the connection that carries a command, or a reconnect(),
\* rejects the command as lost with the connection (node.ts 307-312, 337-344).
RejectedByOwnSocket ==
    \A c \in Commands : outcome[c].how = "closed" => outcome[c].by \in {None, via[c]}

\* While a command waits there is a socket whose 'close' is still to come, so
\* something is left that can settle the command (node.ts 307-318, 325-332).
SomethingWillSettle ==
    (\E c \in Commands : Waiting(c)) =>
        \E s \in Sockets : socketState[s] \in {"open", "destroyed"}

\* The inductive form of it: the node is not even connected without such a
\* socket.
SettlerInv ==
    connected \/ (\E c \in Commands : Waiting(c)) =>
        \E s \in Sockets : socketState[s] \in {"open", "destroyed"}

-----------------------------------------------------------------------------
\* Liveness

\* Every command that is accepted settles, also when the server never answers
\* and when the connection dies (node.ts 307-318).
CommandsSettle ==
    \A c \in Commands : Issued(c) ~> Settled(c)

\* Every connect() settles (node.ts 242-320).
ConnectsSettle ==
    \A s \in Sockets : (connectPromise[s] = "pending") ~> (connectPromise[s] # "pending")

=============================================================================
