------------------------------ MODULE SaslNode ------------------------------
(***************************************************************************)
(* One MemcacheNode of src/src/node.ts with SASL credentials: it           *)
(* authenticates when its socket is ready, then speaks the binary          *)
(* protocol.  Nothing pairs an answer with its request: each waiting       *)
(* promise has a 'data' listener of its own on the socket, every listener  *)
(* is given every byte from its registration on, takes the first packet    *)
(* these bytes make, and drops what follows in its last chunk.             *)
(*                                                                         *)
(* The server holds one key.  It reads the packets by their headers only.  *)
(***************************************************************************)
EXTENDS BinaryProtocol

CONSTANTS
    MaxSockets,    \* bound: how many sockets the node opens in a behaviour
    MaxRequests,   \* bound: how many requests the callers make
    Ops,           \* the operations they use
    Values,        \* the values they store
    Deltas,        \* what they add to counters
    Awaits         \* what callers await before the next request: "nothing",
                   \* "connect", or also the "answer" to the one before

AllOps == StoreOps \cup ConcatOps \cup CounterOps \cup KeyOps \cup BareOps
              \cup {"touch", "flush", "text"}

ASSUME MaxSocketsAssumption  == MaxSockets \in Nat
ASSUME MaxRequestsAssumption == MaxRequests \in Nat
ASSUME OpsAssumption         == Ops \subseteq AllOps
ASSUME WordsAssumption       == /\ Values \subseteq Seq(0 .. Base - 1)
                                /\ Deltas \subseteq 0 .. Base * Base - 1
ASSUME AwaitsAssumption      == Awaits \in {"nothing", "connect", "answer"}

Sockets   == 1 .. MaxSockets       \* in the order they are created
Requests  == 1 .. MaxRequests      \* in the order they are made
None      == 0
Auth      == 0                     \* performSaslAuth(), as a listener
Listeners == Requests \cup {Auth}
Key       == <<1>>                 \* the key of every request
NoRequest == [op |-> "none", value |-> <<>>, delta |-> 0]

VARIABLES
    \* fields of the class
    connected,       \* _connected
    authenticated,   \* _authenticated
    socket,          \* _socket, None when undefined
    commandQueue,    \* _commandQueue: the text commands that wait
    \* what the class promised
    connectPromise,  \* how the promise of the connect() that made the socket settled
    request,         \* what was asked for
    via,             \* the socket it was written to
    result,          \* how its promise settled
    taken,           \* the packets its listener took
    \* the runtime
    socketState,     \* life of each socket
    listening,       \* the 'data' listeners registered on each socket
    heard,           \* chunks: what each of them has collected
    \* the server
    toServer,        \* words written and not yet read
    fromServer,      \* words sent and not yet delivered
    session,         \* the connections whose credentials it has accepted
    stored,          \* the value under the key, as a sequence of at most one
    ran              \* for each request what the server did, as a sequence

callVars   == <<commandQueue, request, via, result, taken>>
serverVars == <<toServer, fromServer, session, stored, ran>>
vars == <<connected, authenticated, socket, callVars, connectPromise, socketState,
          listening, heard, serverVars>>

Alive(s) == socketState[s] \in {"connecting", "open"}
Gone(s)  == socketState[s] \in {"destroyed", "closed"}

WordsType == [is : {"body"}, number : 0 .. Base - 1]
    \cup [is : {"first"}, of : Listeners, opcode : AllOps \cup {"auth"},
          status : Statuses, extrasLength : Nat, keyLength : Nat]
    \cup [is : {"second"}, totalBodyLength : Nat]
    \cup [is : {"text"}, of : Requests]

StoredType == { old \in Seq(Seq(0 .. Base - 1)) : Len(old) <= 1 }

\* The variables have the values described above; in particular every word on
\* the wire has 32 bits (binary-protocol.ts 230-277).
TypeOK ==
    /\ connected \in BOOLEAN
    /\ authenticated \in BOOLEAN
    /\ socket \in Sockets \cup {None}
    /\ commandQueue \in Seq(Requests)
    /\ connectPromise \in [Sockets -> {"none", "pending", "resolved", "rejected"}]
    /\ request \in [Requests -> [op : AllOps \cup {"none"}, value : Values \cup {<<>>},
                                 delta : Deltas \cup {0}]]
    /\ via \in [Requests -> Sockets \cup {None}]
    /\ result \in [Requests -> {"none", "pending", "resolved", "closed"}]
    /\ taken \in [Requests -> Seq(Seq(WordsType))]
    /\ socketState \in [Sockets -> {"none", "connecting", "open", "destroyed", "closed"}]
    /\ listening \in [Sockets -> SUBSET Listeners]
    /\ heard \in [Sockets -> [Listeners -> Seq(WordsType)]]
    /\ toServer \in [Sockets -> Seq(WordsType)]
    /\ fromServer \in [Sockets -> Seq(WordsType)]
    /\ session \subseteq Sockets
    /\ stored \in StoredType
    /\ ran \in [Requests -> Seq([before : StoredType, after : StoredType, refused : BOOLEAN])]

Init ==
    /\ connected = FALSE
    /\ authenticated = FALSE
    /\ socket = None
    /\ commandQueue = <<>>
    /\ connectPromise = [s \in Sockets |-> "none"]
    /\ request = [r \in Requests |-> NoRequest]
    /\ via = [r \in Requests |-> None]
    /\ result = [r \in Requests |-> "none"]
    /\ taken = [r \in Requests |-> <<>>]
    /\ socketState = [s \in Sockets |-> "none"]
    /\ listening = [s \in Sockets |-> {}]
    /\ heard = [s \in Sockets |-> [l \in Listeners |-> <<>>]]
    /\ toServer = [s \in Sockets |-> <<>>]
    /\ fromServer = [s \in Sockets |-> <<>>]
    /\ session = {}
    /\ stored = <<>>
    /\ ran = [r \in Requests |-> <<>>]

-----------------------------------------------------------------------------
\* Calls

\* socket.destroy(): no 'data' is delivered after it, 'close' follows.
Destroy(s) == [t \in Sockets |-> IF t = s /\ Alive(t) THEN "destroyed" ELSE socketState[t]]

Drop(streams, s) == [t \in Sockets |-> IF t = s THEN <<>> ELSE streams[t]]

\* createConnection(): the next socket, from the socket states `base`.
CreateConnection(s, base) ==
    /\ socketState[s] = "none"
    /\ \A t \in Sockets : t < s => socketState[t] # "none"
    /\ socketState' = [base EXCEPT ![s] = "connecting"]
    /\ socket' = s
    /\ connectPromise' = [connectPromise EXCEPT ![s] = "pending"]

\* rejectPendingCommands(): the text commands; a request of the binary
\* protocol is in no queue.
RejectPendingCommands ==
    /\ result' = [r \in Requests |->
            IF \E i \in DOMAIN commandQueue : commandQueue[i] = r THEN "closed" ELSE result[r]]
    /\ commandQueue' = <<>>

\* The callers await connect() and reconnect(), or see their socket close:
\* the promise of a connection that closes while it authenticates never settles.
MayCall == \A s \in Sockets : connectPromise[s] = "pending" => socketState[s] = "closed"

\* connect(), and reconnect() of a node without a socket.  (On a connected
\* node connect() resolves at once.)
Connect(s) ==
    /\ MayCall
    /\ ~connected
    /\ CreateConnection(s, socketState)
    /\ UNCHANGED <<connected, authenticated, callVars, listening, heard, serverVars>>

\* disconnect().  It leaves _authenticated to the 'close' event.
Disconnect ==
    /\ MayCall
    /\ socket # None
    /\ socketState' = Destroy(socket)
    /\ toServer' = Drop(toServer, socket)
    /\ fromServer' = Drop(fromServer, socket)
    /\ socket' = None
    /\ connected' = FALSE
    /\ UNCHANGED <<authenticated, callVars, connectPromise, listening, heard, session,
                   stored, ran>>

\* reconnect() of a node with a socket.
Reconnect(s) ==
    /\ MayCall
    /\ socket # None
    /\ CreateConnection(s, Destroy(socket))
    /\ toServer' = Drop(toServer, socket)
    /\ fromServer' = Drop(fromServer, socket)
    /\ connected' = FALSE
    /\ authenticated' = FALSE
    /\ RejectPendingCommands
    /\ UNCHANGED <<request, via, taken, listening, heard, session, stored, ran>>

\* The packet of a request, as the binary*() methods have it built.
Packet(r, q) ==
    CASE q.op \in StoreOps     -> BuildStore(r, q.op, Key, q.value)
      [] q.op \in ConcatOps    -> BuildConcat(r, q.op, Key, q.value)
      [] q.op \in CounterOps   -> BuildCounter(r, q.op, Key, q.delta, 0)
      [] q.op \in KeyOps       -> BuildKey(r, q.op, Key)
      [] q.op \in BareOps      -> BuildBare(r, q.op)
      [] q.op = "touch"        -> BuildTouch(r, Key)
      [] q.op = "flush"        -> BuildFlush(r)

\* The requests the callers can make: an argument only where there is one.
Asked == { q \in [op : Ops, value : Values \cup {<<>>}, delta : Deltas \cup {0}] :
             /\ IF q.op \in StoreOps \cup ConcatOps THEN q.value \in Values ELSE q.value = <<>>
             /\ IF q.op \in CounterOps THEN q.delta \in Deltas ELSE q.delta = 0 }

\* The callers' discipline.  A promise that hangs because its connection is
\* gone holds nobody up.
MayAsk ==
    /\ socket # None
    /\ Awaits # "nothing" => connectPromise[socket] = "resolved"
    /\ Awaits = "answer"  =>
          /\ listening[socket] = {}
          /\ \A r \in Requests : via[r] = socket => request[r].op # "quit"

Write(r, q, words) ==
    /\ result[r] = "none"
    /\ \A p \in Requests : p < r => result[p] # "none"
    /\ request' = [request EXCEPT ![r] = q]
    /\ via' = [via EXCEPT ![r] = socket]
    /\ toServer' = IF Alive(socket) THEN [toServer EXCEPT ![socket] = @ \o words] ELSE toServer
    /\ UNCHANGED <<connected, authenticated, socket, connectPromise, taken, socketState,
                   heard, fromServer, session, stored, ran>>

\* binaryRequest() and binaryStats(): neither _connected nor _authenticated is
\* asked for.
BinaryRequest(r, q) ==
    /\ q.op \notin {"quit", "text"}
    /\ MayAsk
    /\ Write(r, q, Packet(r, q))
    /\ result' = [result EXCEPT ![r] = "pending"]
    /\ listening' = [listening EXCEPT ![socket] = @ \cup {r}]
    /\ UNCHANGED commandQueue

\* binaryQuit() awaits no answer.
BinaryQuit(r, q) ==
    /\ q.op = "quit"
    /\ MayAsk
    /\ Write(r, q, Packet(r, q))
    /\ result' = [result EXCEPT ![r] = "resolved"]
    /\ UNCHANGED <<commandQueue, listening>>

\* command(), the text commands of a client that does not know better.  The
\* 'data' handler of a node with credentials does not look for the answer.
Command(r, q) ==
    /\ q.op = "text"
    /\ connected /\ socket # None
    /\ Write(r, q, <<[is |-> "text", of |-> r]>>)
    /\ result' = [result EXCEPT ![r] = "pending"]
    /\ commandQueue' = Append(commandQueue, r)
    /\ UNCHANGED listening

-----------------------------------------------------------------------------
\* Socket events

\* 'connect' or 'secureConnect': performSaslAuth() registers its listener and
\* writes its packet to the current socket.  A socket has no event before the
\* 'close' of one destroyed before it was created.
Ready(s) ==
    /\ socketState[s] = "connecting"
    /\ \A t \in Sockets : t < s => socketState[t] # "destroyed"
    /\ socketState' = [socketState EXCEPT ![s] = "open"]
    /\ connected' = TRUE
    /\ listening' = [listening EXCEPT ![socket] = @ \cup {Auth}]
    /\ toServer' = [toServer EXCEPT ![socket] = @ \o BuildSaslPlain(Auth, <<1>>, <<0, 1>>)]
    /\ UNCHANGED <<authenticated, socket, callVars, connectPromise, heard, fromServer,
                   session, stored, ran>>

\* (mutant) a listener that does not wait for the body of its packet.
CompleteHeader(buf) == Len(buf) >= HeaderSize

\* (mutant) a listener that waits for a byte more than the packet has.
CompleteLate(buf) ==
    /\ Len(buf) >= HeaderSize
    /\ Len(buf) > HeaderSize + DeserializeHeader(buf).totalBodyLength

\* chunksLen >= totalLength
Complete(buf) ==
    /\ Len(buf) >= HeaderSize
    /\ Len(buf) >= HeaderSize + DeserializeHeader(buf).totalBodyLength

\* What a listener whose bytes do not start with a header can make of them:
\* a packet, or a length that keeps it waiting.
Junk == { <<>>, SerializeHeader(Auth, "version", "success", 0, 0, 0),
          SerializeHeader(Auth, "version", "invalid", 0, 0, 0) }

\* The packet listener l of socket s takes when it hears word w; <<>> when it
\* goes on waiting.
Takes(s, l, w, junk) ==
    LET buf == Append(heard[s][l], w)
    IN  IF buf[1].is = "first" THEN IF Complete(buf) THEN buf ELSE <<>>
        ELSE IF Len(buf) >= HeaderSize THEN junk ELSE <<>>

\* The end of the statistics: no key and no body.
EndOfStats(packet) ==
    LET header == DeserializeHeader(packet)
    IN  header.keyLength = 0 /\ header.totalBodyLength = 0

\* Does the packet settle the promise behind listener l?
Final(l, packet) == l = Auth \/ request[l].op # "stat" \/ EndOfStats(packet)

\* The requests' share of a 'data' event.  Which chunks the words come in
\* makes no difference to a listener: what follows the packet it takes it
\* drops, and it hears no more.
RequestsHear(s, got) ==
    LET settled == {l \in listening[s] : got[l] # <<>> /\ Final(l, got[l])}
    IN  /\ fromServer' = [fromServer EXCEPT ![s] = Tail(@)]
        /\ listening' = [listening EXCEPT ![s] = @ \ settled]
        /\ heard' = [heard EXCEPT ![s] = [l \in Listeners |->
                IF l \notin listening[s] \/ got[l] # <<>> THEN <<>>
                ELSE Append(@[l], Head(fromServer[s]))]]
        /\ result' = [r \in Requests |-> IF r \in settled THEN "resolved" ELSE result[r]]
        /\ taken' = [r \in Requests |->
                IF r \in listening[s] /\ got[r] # <<>> THEN Append(taken[r], got[r]) ELSE taken[r]]

\* 'data' that ends no authentication.
Data(s, got) ==
    /\ Auth \in listening[s] => got[Auth] = <<>>
    /\ RequestsHear(s, got)
    /\ UNCHANGED <<connected, authenticated, connectPromise, socketState, toServer>>

\* 'data' that ends it: STATUS_SUCCESS ...
Authenticated(s, got) ==
    /\ Auth \in listening[s] /\ got[Auth] # <<>>
    /\ DeserializeHeader(got[Auth]).status = "success"
    /\ RequestsHear(s, got)
    /\ authenticated' = TRUE
    /\ connectPromise' = [connectPromise EXCEPT ![s] = "resolved"]
    /\ UNCHANGED <<connected, socketState, toServer>>

\* ... or another status: the current socket is destroyed and connect() rejects.
NotAuthenticated(s, got) ==
    /\ Auth \in listening[s] /\ got[Auth] # <<>>
    /\ DeserializeHeader(got[Auth]).status # "success"
    /\ RequestsHear(s, got)
    /\ socketState' = Destroy(socket)
    /\ toServer' = Drop(toServer, socket)
    /\ connected' = FALSE
    /\ authenticated' = FALSE
    /\ connectPromise' = [connectPromise EXCEPT ![s] = "rejected"]

Deliver(s) ==
    /\ socketState[s] = "open"
    /\ fromServer[s] # <<>>
    /\ \E junk \in Junk :
          LET got == [l \in listening[s] |-> Takes(s, l, Head(fromServer[s]), junk)]
          IN  Data(s, got) \/ Authenticated(s, got) \/ NotAuthenticated(s, got)
    /\ UNCHANGED <<socket, commandQueue, request, via, session, stored, ran>>

\* The end of a connection up to its 'close' event.
Ends(s) ==
    /\ Alive(s)
    /\ socketState' = Destroy(s)
    /\ toServer' = Drop(toServer, s)
    /\ fromServer' = Drop(fromServer, s)
    /\ UNCHANGED <<connected, authenticated, socket, callVars, listening, heard, session,
                   stored, ran>>

RejectConnect(s) == IF connectPromise[s] = "pending"
                    THEN [connectPromise EXCEPT ![s] = "rejected"] ELSE connectPromise

\* 'timeout' rejects connect() ...
Timeout(s) == Ends(s) /\ connectPromise' = RejectConnect(s)

\* ... 'error' does it only before the socket is ready ...
Error(s) == Ends(s) /\ connectPromise' = IF connected THEN connectPromise ELSE RejectConnect(s)

\* ... and the end of the stream does not.
PeerEnds(s) == socketState[s] = "open" /\ Ends(s) /\ UNCHANGED connectPromise

\* (mutant) 'close' that leaves _authenticated.
ClosedStaysAuthenticated(s) ==
    /\ socketState[s] = "destroyed"
    /\ socketState' = [socketState EXCEPT ![s] = "closed"]
    /\ connected' = FALSE
    /\ RejectPendingCommands
    /\ UNCHANGED <<authenticated, socket, request, via, taken, connectPromise, listening, heard,
                   serverVars>>

\* 'close'
Closed(s) ==
    /\ socketState[s] = "destroyed"
    /\ socketState' = [socketState EXCEPT ![s] = "closed"]
    /\ connected' = FALSE
    /\ authenticated' = FALSE
    /\ RejectPendingCommands
    /\ UNCHANGED <<socket, request, via, taken, connectPromise, listening, heard, serverVars>>

-----------------------------------------------------------------------------
\* The memcached server (external): it holds one key, reads a connection
\* packet by packet and answers in order, and refuses what comes before the
\* credentials.

IsNumber(value) == Len(value) \in {1, 2}
ToNumber(value) == IF Len(value) = 1 THEN value[1] ELSE value[1] * Base + value[2]
ToValue(n)      == IF n < Base THEN <<n>> ELSE Split64(n)
Sum(op, a, b)   == IF op = "incr" THEN (a + b) % (Base * Base) ELSE IF a > b THEN a - b ELSE 0

\* Does an operation succeed on a server that holds `old`?
Succeeds(op, old) ==
    CASE op = "add" -> old = <<>>
      [] op \in {"replace", "append", "prepend", "touch", "get", "delete"} -> old # <<>>
      [] op \in CounterOps -> old = <<>> \/ IsNumber(old[1])
      [] OTHER -> TRUE

\* What it leaves there.
Effect(op, value, delta, old) ==
    IF ~Succeeds(op, old) THEN old
    ELSE CASE op \in StoreOps                 -> <<value>>
           [] op = "append"                   -> <<old[1] \o value>>
           [] op = "prepend"                  -> <<value \o old[1]>>
           [] op \in CounterOps /\ old = <<>> -> <<ToValue(0)>>
           [] op \in CounterOps /\ old # <<>> -> <<ToValue(Sum(op, ToNumber(old[1]), delta))>>
           [] op \in {"delete", "flush"}      -> <<>>
           [] OTHER                           -> old

Response(of, op, status, key, value) ==
    SerializeHeader(of, op, status, 0, Len(key), Len(key) + Len(value))
        \o Words(key) \o Words(value)

Failure(op) == CASE op \in {"get", "delete", "touch"} -> "notFound"
                 [] op = "add"                        -> "exists"
                 [] op = "replace"                    -> "notFound"
                 [] op \in ConcatOps                  -> "notStored"
                 [] OTHER                             -> "invalid"

\* The answer to an operation that turned `old` into `new`.  A failure has a
\* text for a body, a value that is read four bytes of flags before it.
Answer(of, op, old, new) ==
    IF ~Succeeds(op, old) THEN Response(of, op, Failure(op), <<>>, <<1>>)
    ELSE CASE op = "get"        -> SerializeHeader(of, op, "success", 1, 0, 1 + Len(old[1]))
                                       \o Words(<<0>>) \o Words(old[1])
           [] op \in CounterOps -> Response(of, op, "success", <<>>, Split64(ToNumber(new[1])))
           [] op = "version"    -> Response(of, op, "success", <<>>, <<1>>)
           [] op = "stat"       -> Response(of, op, "success", <<1>>, <<Len(old)>>)
                                       \o Response(of, op, "success", <<>>, <<>>)
           [] OTHER             -> Response(of, op, "success", <<>>, <<>>)

AuthAnswer(status) == Response(Auth, "auth", status, <<>>, <<1>>)

\* The server executes the packet at the head of socket s.
Execute(s) ==
    /\ socketState[s] = "open"
    /\ toServer[s] # <<>>
    /\ Head(toServer[s]).is = "first"
    /\ LET buf     == toServer[s]
           header  == DeserializeHeader(buf)
           end     == header.totalBodyLength
           keyEnd  == header.extrasLength + header.keyLength
           extras  == Numbers(Between(buf, 0, header.extrasLength))
           value   == Numbers(Between(buf, keyEnd, end))
           delta   == IF header.opcode \in CounterOps THEN extras[1] * Base + extras[2] ELSE 0
           refused == s \notin session /\ header.opcode # "version"
           new     == IF refused THEN stored
                                 ELSE Effect(header.opcode, value, delta, stored)
           Send(words) == fromServer' = [fromServer EXCEPT ![s] = @ \o words]
       IN  /\ toServer' = [toServer EXCEPT ![s] = SubSeq(@, HeaderSize + end + 1, Len(@))]
           /\ \/ /\ header.opcode = "auth"
                 /\ \/ session' = session \cup {s} /\ Send(AuthAnswer("success"))
                    \/ session' = session /\ Send(AuthAnswer("authError"))
                 /\ UNCHANGED <<stored, ran>>
              \/ /\ header.opcode # "auth"
                 /\ stored' = new
                 /\ ran' = [ran EXCEPT ![header.of] =
                        Append(@, [before |-> stored, after |-> new, refused |-> refused])]
                 /\ Send(IF refused
                         THEN Response(header.of, header.opcode, "authError", <<>>, <<1>>)
                         ELSE Answer(header.of, header.opcode, stored, new))
                 /\ UNCHANGED session
    /\ UNCHANGED <<connected, authenticated, socket, callVars, connectPromise, socketState,
                   listening, heard>>

\* What does not start with a header makes it hang up.
HangUp(s) ==
    /\ socketState[s] = "open"
    /\ toServer[s] # <<>>
    /\ Head(toServer[s]).is # "first"
    /\ PeerEnds(s)

-----------------------------------------------------------------------------
Next ==
    \/ Disconnect
    \/ \E s \in Sockets : \/ Connect(s) \/ Reconnect(s) \/ Ready(s) \/ Deliver(s) \/ Timeout(s)
                          \/ Error(s) \/ PeerEnds(s) \/ Closed(s) \/ Execute(s) \/ HangUp(s)
    \/ \E r \in Requests, q \in Asked : BinaryRequest(r, q) \/ BinaryQuit(r, q) \/ Command(r, q)

\* The runtime delivers what has arrived and tells of a socket's end; a
\* connection that is being made is made or times out; the server reads what it
\* is sent.  An open connection need not time out: it may be in use.
Fairness ==
    \A s \in Sockets : /\ WF_vars(socketState[s] = "connecting" /\ (Ready(s) \/ Timeout(s)))
                       /\ WF_vars(Deliver(s))
                       /\ WF_vars(Closed(s))
                       /\ WF_vars(Execute(s) \/ HangUp(s))

Spec == Init /\ [][Next]_vars
FairSpec == Spec /\ Fairness

-----------------------------------------------------------------------------
\* What a request resolves with

\* What the method of an operation makes of the packets its listener took: a
\* boolean, or a value that may be undefined.
Returned(op, packets) ==
    LET packet == packets[1]
        status == DeserializeHeader(packet).status
        Flag(b)  == [flag |-> b, value |-> <<>>]
        Value(v) == [flag |-> TRUE, value |-> v]
    IN  CASE op = "get"         -> Value(ParseGetResponse(packet))
          [] op \in CounterOps  -> Value(ParseIncrDecrResponse(packet))
          [] op = "version"     -> Value(IF status = "success"
                                         THEN <<Numbers(SubSeq(packet, HeaderSize + 1, Len(packet)))>>
                                         ELSE <<>>)
          [] op = "stat"        -> Value([i \in 1 .. Len(packets) - 1 |->
                                            Numbers(SubSeq(packets[i], HeaderSize + 1, Len(packets[i])))])
          [] op = "delete"      -> Flag(status \in {"success", "notFound"})
          [] OTHER              -> Flag(status = "success")

\* What a caller takes it to say, by what the server did.
Told(op, did) ==
    LET done     == ~did.refused /\ Succeeds(op, did.before)
        Flag(b)  == [flag |-> b, value |-> <<>>]
        Value(v) == [flag |-> TRUE, value |-> v]
    IN  CASE op = "get"         -> Value(IF done /\ did.before # << <<>> >> THEN did.before ELSE <<>>)
          [] op \in CounterOps  -> Value(IF done THEN <<ToNumber(did.after[1])>> ELSE <<>>)
          [] op = "version"     -> Value(<< <<1>> >>)
          [] op = "stat"        -> Value(<< <<1, Len(did.before)>> >>)
          [] op = "delete"      -> Flag(~did.refused)
          [] OTHER              -> Flag(done)

-----------------------------------------------------------------------------
\* Properties

\* A request resolves with what the server did with this very request, and the
\* server did with it what the caller asked for: none takes the answer to
\* another, part of one, or one of an earlier connection.  (An empty value is
\* taken for none.)  (node.ts 457-757, README.md 882)
OwnResponse ==
    \A r \in Requests : result[r] = "resolved" /\ taken[r] # <<>> =>
        /\ Len(ran[r]) = 1
        /\ Returned(request[r].op, taken[r]) = Told(request[r].op, ran[r][1])
        /\ \/ ran[r][1].refused
           \/ ran[r][1].after = Effect(request[r].op, request[r].value, request[r].delta,
                                       ran[r][1].before)

\* A node that is connected and takes itself for authenticated, or whose
\* connect() has resolved, has a session with the server on its current socket
\* (node.ts 270-290, README.md 935).
AuthenticatedSession ==
    connected /\ (authenticated \/ connectPromise[socket] = "resolved")
        => socket \in session

\* A request settles unless its connection ends, a text command settles in any
\* case, and a connect() settles unless its connection closes: no listener
\* waits for more than it will be sent (node.ts 264-320, 408-498, 697-757).
SettlesUnlessLost ==
    /\ \A r \in Requests : (result[r] = "pending") ~>
            (result[r] # "pending" \/ (request[r].op # "text" /\ Gone(via[r])))
    /\ \A s \in Sockets : (connectPromise[s] = "pending") ~>
            (connectPromise[s] # "pending" \/ socketState[s] = "closed")

=============================================================================
