------------------------- MODULE MemcacheNodeProofs -------------------------
(***************************************************************************)
(* Theorems about MemcacheNode, for all numbers of sockets and commands,   *)
(* for all callers (Calls, Overlapping) and both orders of 'close' events. *)
(***************************************************************************)
EXTENDS MemcacheNode, TLAPS

USE MaxSocketsAssumption, MaxCommandsAssumption, KindsAssumption

\* What memcached answers is a sequence of lines of the protocol.
LEMMA RepliesAreLines ==
    ASSUME NEW k \in AllKinds, NEW reply \in Replies(k)
    PROVE  reply \in Seq(Lines)
<1>1. /\ \A x \in Lines : <<x>> \in Seq(Lines)
      /\ \A x, y \in Lines : <<x, y>> \in Seq(Lines)
      /\ \A x, y, z \in Lines : <<x, y, z>> \in Seq(Lines)
  OBVIOUS
<1>2. /\ "STORED" \in Lines /\ "VALUE" \in Lines /\ "EMPTY" \in Lines
      /\ "data" \in Lines /\ "blank" \in Lines /\ "END" \in Lines
      /\ "STAT" \in Lines /\ "CONFIG" \in Lines /\ "ERROR" \in Lines
  BY DEF Lines
<1>3. /\ <<"STORED">> \in Seq(Lines) /\ <<"END">> \in Seq(Lines) /\ <<"ERROR">> \in Seq(Lines)
      /\ <<"STAT", "END">> \in Seq(Lines)
  BY <1>1, <1>2
<1>4. /\ <<"VALUE", "data", "END">> \in Seq(Lines)
      /\ <<"EMPTY", "blank", "END">> \in Seq(Lines)
      /\ <<"CONFIG", "data", "END">> \in Seq(Lines)
  BY <1>1, <1>2
<1> DEFINE S == Seq(Lines)
<1>5. /\ <<"STORED">> \in S /\ <<"END">> \in S /\ <<"ERROR">> \in S
      /\ <<"STAT", "END">> \in S /\ <<"VALUE", "data", "END">> \in S
      /\ <<"EMPTY", "blank", "END">> \in S /\ <<"CONFIG", "data", "END">> \in S
  BY <1>3, <1>4
<1> HIDE DEF S
<1>6. reply \in S
  BY <1>5, Zenon DEF Replies, AllKinds
<1> QED
  BY <1>6 DEF S

\* Tagging the lines of an answer with the command gives tokens.
LEMMA TokensOfReply ==
    ASSUME NEW reply \in Seq(Lines), NEW c \in Commands
    PROVE  [i \in DOMAIN reply |-> [line |-> reply[i], cmd |-> c]] \in Seq(TokenType)
<1>1. DOMAIN reply = 1 .. Len(reply) /\ Len(reply) \in Nat
  OBVIOUS
<1>2. \A i \in 1 .. Len(reply) : [line |-> reply[i], cmd |-> c] \in TokenType
  BY DEF TokenType
<1> QED
  BY <1>1, <1>2

\* The command a line is processed for is a command, and what is left of the
\* queue is a queue.
LEMMA ShiftTypes ==
    ASSUME TypeOK
    PROVE  /\ NextCommand \in Commands \cup {None}
           /\ QueueAfterShift \in Seq(Commands)
BY DEF TypeOK, NextCommand, QueueAfterShift

\* destroy() keeps the types of what it changes.
LEMMA DestroyTypes ==
    ASSUME TypeOK, NEW s
    PROVE  /\ Destroy(s) \in [Sockets -> {"none", "connecting", "open", "destroyed", "closed"}]
           /\ Drop(toServer, s) \in [Sockets -> Seq(Commands)]
           /\ Drop(fromServer, s) \in [Sockets -> Seq(TokenType)]
BY DEF TypeOK, Destroy, Drop

LEMMA SettleConnectTypes ==
    ASSUME TypeOK, NEW s \in Sockets \cup {None}, NEW how \in {"resolved", "rejected"}
    PROVE  SettleConnect(s, how) \in [Sockets -> {"none", "pending", "resolved", "rejected"}]
BY DEF TypeOK, SettleConnect

LEMMA RejectTypes ==
    ASSUME TypeOK, NEW s \in Sockets \cup {None}, RejectPendingCommands(s)
    PROVE  /\ outcome' \in [Commands ->
                [how : {"unsettled", "resolved", "failed", "closed"},
                 values : Seq(Commands \cup {None}), by : Sockets \cup {None}]]
           /\ commandQueue' \in Seq(Commands)
           /\ currentCommand' \in Commands \cup {None}
BY DEF TypeOK, RejectPendingCommands

LEMMA SettleTypes ==
    ASSUME TypeOK, NEW c \in Commands, NEW how \in {"resolved", "failed"},
           NEW values \in Seq(Commands \cup {None}), Settle(c, how, values)
    PROVE  outcome' \in [Commands ->
                [how : {"unsettled", "resolved", "failed", "closed"},
                 values : Seq(Commands \cup {None}), by : Sockets \cup {None}]]
BY DEF TypeOK, Settle

\* The state reconnect() resets the parser to is a state of the parser.
LEMMA ParserResetTypes ==
    /\ NoLine \in [from : Sockets \cup {None}, line : Lines]
    /\ <<>> \in Seq(Commands \cup {None})
BY DEF NoLine, Lines

\* A line that is read is a line, and belongs to a command or to none.
LEMMA ReadingTypes ==
    ASSUME TypeOK, NEW s \in Sockets, fromServer[s] # <<>>,
           NEW r \in Readings(s, Head(fromServer[s]))
    PROVE  r[1] \in Lines /\ r[2] \in Commands \cup {None}
<1>1. Head(fromServer[s]) \in TokenType
  BY DEF TypeOK
<1>2. buffer.line \in Lines
  BY DEF TypeOK
<1>3. "JUNK" \in Lines
  BY DEF Lines
<1> QED
  BY <1>1, <1>2, <1>3 DEF Readings, TokenType

-----------------------------------------------------------------------------
\* Type correctness

LEMMA InitTypeOK == Init => TypeOK
<1> SUFFICES ASSUME Init PROVE TypeOK
  OBVIOUS
<1>1. Unsettled \in [how : {"unsettled", "resolved", "failed", "closed"},
                     values : Seq(Commands \cup {None}), by : Sockets \cup {None}]
  BY DEF Unsettled
<1>2. NoLine \in [from : Sockets \cup {None}, line : Lines]
  BY DEF NoLine, Lines
<1>3. /\ outcome \in [Commands ->
            [how : {"unsettled", "resolved", "failed", "closed"},
             values : Seq(Commands \cup {None}), by : Sockets \cup {None}]]
      /\ buffer \in [from : Sockets \cup {None}, line : Lines]
  BY <1>1, <1>2 DEF Init
<1>4. /\ kind \in [Commands -> AllKinds \cup {"none"}]
      /\ via \in [Commands -> Sockets \cup {None}]
      /\ foundKeys \in [Commands -> Nat]
      /\ connectPromise \in [Sockets -> {"none", "pending", "resolved", "rejected"}]
      /\ socketState \in [Sockets -> {"none", "connecting", "open", "destroyed", "closed"}]
  BY DEF Init
<1>5. /\ toServer \in [Sockets -> Seq(Commands)]
      /\ fromServer \in [Sockets -> Seq(TokenType)]
  BY DEF Init
<1>6. /\ connected \in BOOLEAN /\ pendingValue \in BOOLEAN
      /\ socket \in Sockets \cup {None} /\ currentCommand \in Commands \cup {None}
      /\ quitting \in SUBSET Commands
  BY DEF Init
<1>7. commandQueue \in Seq(Commands)
  BY DEF Init
<1>8. multilineData \in Seq(Commands \cup {None})
  BY DEF Init
<1> QED
  BY <1>3, <1>4, <1>5, <1>6, <1>7, <1>8 DEF TypeOK

\* Processing a line keeps the types, whatever command it is processed for.
LEMMA ProcessLineTypes ==
    ASSUME TypeOK, NEW l \in Lines, NEW o \in Commands \cup {None},
           ProcessLine(NextCommand, l, o)
    PROVE  /\ commandQueue' \in Seq(Commands)
           /\ currentCommand' \in Commands \cup {None}
           /\ multilineData' \in Seq(Commands \cup {None})
           /\ pendingValue' \in BOOLEAN
           /\ kind' = kind /\ via' = via
           /\ foundKeys' \in [Commands -> Nat]
           /\ outcome' \in [Commands ->
                [how : {"unsettled", "resolved", "failed", "closed"},
                 values : Seq(Commands \cup {None}), by : Sockets \cup {None}]]
<1> DEFINE c == NextCommand
<1>1. c \in Commands /\ QueueAfterShift \in Seq(Commands)
  BY ShiftTypes DEF ProcessLine
<1>2. multilineData \in Seq(Commands \cup {None}) /\ pendingValue \in BOOLEAN
  BY DEF TypeOK
<1>3. foundKeys \in [Commands -> Nat]
  BY DEF TypeOK
<1>4. Append(multilineData, o) \in Seq(Commands \cup {None})
      /\ <<o>> \in Seq(Commands \cup {None}) /\ <<>> \in Seq(Commands \cup {None})
  BY <1>2
<1>5. outcome \in [Commands ->
                [how : {"unsettled", "resolved", "failed", "closed"},
                 values : Seq(Commands \cup {None}), by : Sockets \cup {None}]]
  BY DEF TypeOK
<1> HIDE DEF c
<1>6. CASE ContinueAnswer(c, l, o)
  <2>1. pendingValue' \in BOOLEAN
    BY <1>6 DEF ContinueAnswer, OpensValue
  <2>2. foundKeys' \in [Commands -> Nat]
    BY <1>1, <1>3, <1>6 DEF ContinueAnswer, RecordKey
  <2> QED
    BY <1>1, <1>2, <1>4, <1>5, <1>6, <2>1, <2>2 DEF ContinueAnswer
<1>7. CASE EndAnswer(c, l, o)
  <2>1. Settle(c, "resolved", Append(multilineData, o))
    BY <1>7 DEF EndAnswer
  <2> QED
    BY <1>1, <1>2, <1>3, <1>4, <1>7, <2>1, SettleTypes DEF EndAnswer
<1>8. CASE FailAnswer(c, l, o)
  <2>1. Settle(c, "failed", <<o>>)
    BY <1>8 DEF FailAnswer
  <2> QED
    BY <1>1, <1>2, <1>3, <1>4, <1>8, <2>1, SettleTypes DEF FailAnswer
<1>9. CASE SingleLineAnswer(c, l, o)
  <2>1. Settle(c, "resolved", <<o>>)
    BY <1>9 DEF SingleLineAnswer
  <2> QED
    BY <1>1, <1>2, <1>3, <1>4, <1>9, <2>1, SettleTypes DEF SingleLineAnswer
<1> QED
  BY <1>6, <1>7, <1>8, <1>9 DEF ProcessLine, c

LEMMA StepTypeOK == TypeOK /\ [Next]_vars => TypeOK'
<1> SUFFICES ASSUME TypeOK, [Next]_vars PROVE TypeOK'
  OBVIOUS
<1> USE DEF parserVars, commandVars, netVars
<1>1. ASSUME NEW s \in Sockets, Connect(s) PROVE TypeOK'
  BY <1>1 DEF TypeOK, Connect, CreateConnection
<1>2. CASE Disconnect
  BY <1>2, DestroyTypes DEF TypeOK, Disconnect, DestroySocket
<1>3. ASSUME NEW s \in Sockets, ReconnectWithSocket(s) PROVE TypeOK'
  <2>1. socketState' \in [Sockets -> {"none", "connecting", "open", "destroyed", "closed"}]
    BY <1>3, DestroyTypes DEF ReconnectWithSocket, CreateConnection
  <2>2. toServer' \in [Sockets -> Seq(Commands)] /\ fromServer' \in [Sockets -> Seq(TokenType)]
    BY <1>3, DestroyTypes DEF ReconnectWithSocket
  <2>3. socket' \in Sockets \cup {None}
        /\ connectPromise' \in [Sockets -> {"none", "pending", "resolved", "rejected"}]
    BY <1>3 DEF ReconnectWithSocket, CreateConnection, TypeOK
  <2>4. /\ commandQueue' \in Seq(Commands) /\ currentCommand' \in Commands \cup {None}
        /\ outcome' \in [Commands ->
                [how : {"unsettled", "resolved", "failed", "closed"},
                 values : Seq(Commands \cup {None}), by : Sockets \cup {None}]]
    BY <1>3, RejectTypes DEF ReconnectWithSocket
  <2>5. buffer' \in [from : Sockets \cup {None}, line : Lines]
        /\ multilineData' \in Seq(Commands \cup {None})
        /\ pendingValue' \in BOOLEAN
    BY <1>3, ParserResetTypes DEF ReconnectWithSocket
  <2> QED
    BY <1>3, <2>1, <2>2, <2>3, <2>4, <2>5 DEF TypeOK, ReconnectWithSocket
<1>4. ASSUME NEW s \in Sockets, ReconnectFresh(s) PROVE TypeOK'
  BY <1>4 DEF TypeOK, ReconnectFresh, CreateConnection
<1>5. CASE ReconnectDetached
  <2>1. /\ commandQueue' \in Seq(Commands) /\ currentCommand' \in Commands \cup {None}
        /\ outcome' \in [Commands ->
                [how : {"unsettled", "resolved", "failed", "closed"},
                 values : Seq(Commands \cup {None}), by : Sockets \cup {None}]]
    BY <1>5, RejectTypes DEF ReconnectDetached
  <2>2. buffer' \in [from : Sockets \cup {None}, line : Lines]
        /\ multilineData' \in Seq(Commands \cup {None})
        /\ pendingValue' \in BOOLEAN
    BY <1>5, ParserResetTypes DEF ReconnectDetached
  <2> QED
    BY <1>5, <2>1, <2>2 DEF TypeOK, ReconnectDetached
<1>6. ASSUME NEW c \in Commands, NEW k \in AllKinds, Enqueue(c, k),
             quitting' \in SUBSET Commands
      PROVE  TypeOK'
  <2>1. toServer' \in [Sockets -> Seq(Commands)]
    BY <1>6 DEF Enqueue, TypeOK
  <2>2. commandQueue' \in Seq(Commands)
    BY <1>6 DEF Enqueue, TypeOK
  <2>3. /\ kind' \in [Commands -> AllKinds \cup {"none"}]
        /\ via' \in [Commands -> Sockets \cup {None}]
    BY <1>6 DEF Enqueue, TypeOK
  <2>4. UNCHANGED <<connected, socket, multilineData, pendingValue, buffer, currentCommand,
                    foundKeys, outcome, connectPromise, socketState, fromServer>>
    BY <1>6 DEF Enqueue
  <2> QED
    BY <1>6, <2>1, <2>2, <2>3, <2>4 DEF TypeOK
<1>7. ASSUME NEW c \in Commands, NEW k \in Kinds, Command(c, k) PROVE TypeOK'
  BY <1>6, <1>7 DEF Command, TypeOK
<1>8. ASSUME NEW c \in Commands, Quit(c) PROVE TypeOK'
  BY <1>6, <1>8 DEF Quit, TypeOK, AllKinds
<1>9. ASSUME NEW c \in Commands, QuitContinues(c) PROVE TypeOK'
  BY <1>9, DestroyTypes DEF TypeOK, QuitContinues, DestroySocket
<1>10. ASSUME NEW s \in Sockets, Ready(s) PROVE TypeOK'
  BY <1>10, SettleConnectTypes DEF TypeOK, Ready
<1>11. ASSUME NEW s \in Sockets, Error(s) PROVE TypeOK'
  BY <1>11, SettleConnectTypes, DestroyTypes DEF TypeOK, Error, DestroySocket
<1>12. ASSUME NEW s \in Sockets, Close(s) PROVE TypeOK'
  BY <1>12, RejectTypes DEF TypeOK, Close
<1>13. ASSUME NEW s \in Sockets, Timeout(s) PROVE TypeOK'
  BY <1>13, SettleConnectTypes, DestroyTypes DEF TypeOK, Timeout, DestroySocket
<1>14. ASSUME NEW s \in Sockets, Data(s) PROVE TypeOK'
  <2>1. PICK r \in Readings(s, Head(fromServer[s])) :
            \/ TakeValue(r[2])
            \/ IgnoreUnsolicited
            \/ ProcessLine(NextCommand, r[1], r[2])
    BY <1>14 DEF Data
  <2>2. r[1] \in Lines /\ r[2] \in Commands \cup {None}
    BY <1>14, <2>1, ReadingTypes DEF Data
  <2>3. fromServer' \in [Sockets -> Seq(TokenType)]
    BY <1>14 DEF Data, TypeOK
  <2>4. buffer' \in [from : Sockets \cup {None}, line : Lines]
    BY <1>14 DEF Data, NoLine, Lines
  <2>5. CASE TakeValue(r[2])
    <3>1. multilineData' \in Seq(Commands \cup {None})
      BY <2>2, <2>5 DEF TakeValue, TypeOK
    <3> QED
      BY <1>14, <2>3, <2>4, <2>5, <3>1 DEF Data, TakeValue, TypeOK
  <2>6. CASE IgnoreUnsolicited
    BY <1>14, <2>3, <2>4, <2>6 DEF Data, IgnoreUnsolicited, TypeOK
  <2>7. CASE ProcessLine(NextCommand, r[1], r[2])
    BY <1>14, <2>2, <2>3, <2>4, <2>7, ProcessLineTypes DEF Data, TypeOK
  <2> QED
    BY <2>1, <2>5, <2>6, <2>7
<1>15. ASSUME NEW s \in Sockets, PartialData(s) PROVE TypeOK'
  <2>1. Head(fromServer[s]).line \in Lines
    <3>1. Head(fromServer[s]) \in TokenType
      BY <1>15 DEF PartialData, TypeOK
    <3> QED
      BY <3>1 DEF TokenType
  <2> QED
    BY <1>15, <2>1 DEF PartialData, TypeOK
<1>16. ASSUME NEW s \in Sockets, ServerReplies(s) PROVE TypeOK'
  <2> DEFINE c == Head(toServer[s])
  <2>1. c \in Commands /\ kind[c] \in AllKinds \cup {"none"}
    BY <1>16 DEF ServerReplies, TypeOK
  <2>2. PICK reply \in Replies(kind[c]) :
            fromServer' = [fromServer EXCEPT ![s] =
                @ \o [i \in DOMAIN reply |-> [line |-> reply[i], cmd |-> c]]]
    BY <1>16 DEF ServerReplies
  <2>3. reply \in Seq(Lines)
    <3>1. CASE kind[c] \in AllKinds
      BY <3>1, <2>2, RepliesAreLines
    <3>2. CASE kind[c] = "none"
      BY <3>2, <2>2 DEF Replies
    <3> QED
      BY <2>1, <3>1, <3>2
  <2>4. [i \in DOMAIN reply |-> [line |-> reply[i], cmd |-> c]] \in Seq(TokenType)
    BY <2>1, <2>3, TokensOfReply
  <2>5. fromServer' \in [Sockets -> Seq(TokenType)]
    <3> HIDE DEF c
    <3> DEFINE tokens == [i \in DOMAIN reply |-> [line |-> reply[i], cmd |-> c]]
    <3>1. tokens \in Seq(TokenType) /\ fromServer' = [fromServer EXCEPT ![s] = @ \o tokens]
      BY <2>2, <2>4
    <3> HIDE DEF tokens
    <3> QED
      BY <3>1 DEF TypeOK
  <2>6. toServer' \in [Sockets -> Seq(Commands)]
    BY <1>16 DEF ServerReplies, TypeOK
  <2> QED
    BY <1>16, <2>5, <2>6 DEF ServerReplies, TypeOK
<1>17. ASSUME NEW s \in Sockets, ServerQuits(s) PROVE TypeOK'
  BY <1>17, DestroyTypes DEF TypeOK, ServerQuits, DestroySocket
<1>18. CASE UNCHANGED vars
  BY <1>18 DEF TypeOK, vars
<1> QED
  BY <1>1, <1>2, <1>3, <1>4, <1>5, <1>7, <1>8, <1>9, <1>10, <1>11, <1>12, <1>13, <1>14,
     <1>15, <1>16, <1>17, <1>18 DEF Next, Caller, SocketEvent, Server

\* Every variable of the node keeps its type (node.ts 90-104).
THEOREM TypeCorrect == Spec => []TypeOK
<1>1. Init => TypeOK
  BY InitTypeOK
<1>2. TypeOK /\ [Next]_vars => TypeOK'
  BY StepTypeOK
<1> QED
  BY <1>1, <1>2, PTL DEF Spec

-----------------------------------------------------------------------------
\* No command is lost, and promises settle in order

LEMMA InitDelivery == Init => DeliveryInv
BY DEF Init, DeliveryInv, NothingLost, SettledInOrder, Waiting, Issued, Settled,
       Unsettled, None, Commands

\* Shifting the queue leaves the same commands waiting, the shifted one first.
LEMMA ShiftKeepsWaiting ==
    ASSUME TypeOK, DeliveryInv, NextCommand # None
    PROVE  /\ NextCommand \in Commands
           /\ QueueAfterShift \in Seq(Commands)
           /\ \A d \in Commands : Waiting(d) <=>
                 \/ d = NextCommand
                 \/ \E i \in 1 .. Len(QueueAfterShift) : QueueAfterShift[i] = d
           /\ \A i \in 1 .. Len(QueueAfterShift) : NextCommand < QueueAfterShift[i]
           /\ \A i, j \in 1 .. Len(QueueAfterShift) :
                 i < j => QueueAfterShift[i] < QueueAfterShift[j]
<1>0. /\ commandQueue \in Seq(Commands)
      /\ \A i, j \in 1 .. Len(commandQueue) : i < j => commandQueue[i] < commandQueue[j]
      /\ currentCommand \in Commands \cup {None}
  BY DEF TypeOK, DeliveryInv
<1>1. CASE currentCommand # None
  BY <1>0, <1>1 DEF DeliveryInv, NextCommand, QueueAfterShift, Waiting
<1>2. CASE currentCommand = None
  <2>1. commandQueue # <<>>
    BY <1>2 DEF NextCommand
  <2>2. /\ Head(commandQueue) = commandQueue[1]
        /\ Tail(commandQueue) \in Seq(Commands)
        /\ Len(commandQueue) \in Nat /\ Len(commandQueue) > 0
        /\ Len(Tail(commandQueue)) = Len(commandQueue) - 1
        /\ \A i \in 1 .. Len(Tail(commandQueue)) : Tail(commandQueue)[i] = commandQueue[i + 1]
    BY <1>0, <2>1
  <2>3. NextCommand = commandQueue[1] /\ QueueAfterShift = Tail(commandQueue)
    BY <1>2, <2>1, <2>2 DEF NextCommand, QueueAfterShift
  <2>4. \A d \in Commands : Waiting(d) <=> \E i \in 1 .. Len(commandQueue) : commandQueue[i] = d
    BY <1>2 DEF Waiting, Commands, None
  <2>5. \A d : (\E i \in 1 .. Len(commandQueue) : commandQueue[i] = d) <=>
                  \/ d = commandQueue[1]
                  \/ \E i \in 1 .. Len(Tail(commandQueue)) : Tail(commandQueue)[i] = d
    <3> TAKE d
    <3>1. ASSUME NEW i \in 1 .. Len(commandQueue), commandQueue[i] = d, i # 1
          PROVE  i - 1 \in 1 .. Len(Tail(commandQueue)) /\ Tail(commandQueue)[i - 1] = d
      BY <3>1, <2>2
    <3>2. ASSUME NEW i \in 1 .. Len(Tail(commandQueue)), Tail(commandQueue)[i] = d
          PROVE  i + 1 \in 1 .. Len(commandQueue) /\ commandQueue[i + 1] = d
      BY <3>2, <2>2
    <3>3. 1 \in 1 .. Len(commandQueue)
      BY <2>2
    <3> QED
      BY <3>1, <3>2, <3>3
  <2>6. commandQueue[1] \in Commands
    BY <1>0, <2>2
  <2>7. \A i \in 1 .. Len(Tail(commandQueue)) : commandQueue[1] < Tail(commandQueue)[i]
    BY <1>0, <2>2
  <2>8. \A i, j \in 1 .. Len(Tail(commandQueue)) :
            i < j => Tail(commandQueue)[i] < Tail(commandQueue)[j]
    BY <1>0, <2>2
  <2> QED
    BY <2>2, <2>3, <2>4, <2>5, <2>6, <2>7, <2>8
<1> QED
  BY <1>1, <1>2

\* An answer settles the oldest command that waits, and only that one.
LEMMA SettleKeepsDelivery ==
    ASSUME TypeOK, DeliveryInv, NextCommand # None,
           NEW how \in {"resolved", "failed"}, NEW values,
           Settle(NextCommand, how, values),
           commandQueue' = QueueAfterShift, currentCommand' = None, kind' = kind
    PROVE  DeliveryInv'
<1> DEFINE c == NextCommand
           q == QueueAfterShift
<1>1. /\ c \in Commands /\ q \in Seq(Commands)
      /\ \A d \in Commands : Waiting(d) <=> d = c \/ \E i \in 1 .. Len(q) : q[i] = d
      /\ \A i \in 1 .. Len(q) : c < q[i]
      /\ \A i, j \in 1 .. Len(q) : i < j => q[i] < q[j]
  BY ShiftKeepsWaiting
<1>2. Settle(c, how, values) /\ commandQueue' = q
  OBVIOUS
<1> HIDE DEF c, q
<1>3. \A d \in Commands : Settled(d)' <=> Settled(d) \/ d = c
  BY <1>1, <1>2 DEF Settle, Settled, TypeOK
<1>4. \A d \in Commands : Issued(d)' <=> Issued(d)
  BY DEF Issued
<1>5. \A d \in Commands : Waiting(d)' <=> \E i \in 1 .. Len(q) : q[i] = d
  BY <1>2 DEF Waiting, Commands, None
<1>6. \A i \in 1 .. Len(q) : q[i] # c
  BY <1>1 DEF Commands
<1>7. \A d \in Commands : Waiting(d)' <=> Waiting(d) /\ d # c
  BY <1>1, <1>5, <1>6
<1>8. \A d \in Commands : Waiting(d) <=> Issued(d) /\ ~Settled(d)
  BY DEF DeliveryInv, NothingLost
<1>9. NothingLost'
  BY <1>3, <1>4, <1>7, <1>8 DEF NothingLost
<1>10. \A d \in Commands : Settled(d)' => Issued(d)'
  BY <1>1, <1>3, <1>4, <1>8 DEF DeliveryInv
<1>11. SettledInOrder'
  <2> SUFFICES ASSUME NEW d \in Commands, NEW e \in Commands, d < e, Settled(e)'
               PROVE  Settled(d)'
    BY DEF SettledInOrder
  <2>1. CASE e # c
    BY <2>1, <1>3 DEF DeliveryInv, SettledInOrder
  <2>2. CASE e = c
    <3>1. Issued(d)
      BY <2>2, <1>1, <1>8 DEF DeliveryInv
    <3>2. ~Waiting(d)
      BY <2>2, <1>1 DEF Commands
    <3> QED
      BY <3>1, <3>2, <1>3, <1>8
  <2> QED
    BY <2>1, <2>2
<1>12. \A d, e \in Commands : d < e /\ Issued(e)' => Issued(d)'
  BY <1>4 DEF DeliveryInv
<1> QED
  BY <1>1, <1>2, <1>9, <1>10, <1>11, <1>12 DEF DeliveryInv

\* So does a line that continues an answer settle nothing and lose nothing.
LEMMA ShiftKeepsDelivery ==
    ASSUME TypeOK, DeliveryInv, NextCommand # None,
           outcome' = outcome, kind' = kind,
           commandQueue' = QueueAfterShift, currentCommand' = NextCommand
    PROVE  DeliveryInv'
<1>1. \A d \in Commands : Waiting(d)' <=> Waiting(d)
  BY ShiftKeepsWaiting DEF Waiting
<1>2. \A d \in Commands : (Settled(d)' <=> Settled(d)) /\ (Issued(d)' <=> Issued(d))
  BY DEF Settled, Issued
<1>3. NothingLost' /\ SettledInOrder'
  BY <1>1, <1>2 DEF DeliveryInv, NothingLost, SettledInOrder
<1>4. /\ \A i, j \in 1 .. Len(commandQueue') : i < j => commandQueue'[i] < commandQueue'[j]
      /\ \A i \in 1 .. Len(commandQueue') : currentCommand' < commandQueue'[i]
  BY ShiftKeepsWaiting
<1> QED
  BY <1>2, <1>3, <1>4 DEF DeliveryInv

\* rejectPendingCommands() settles every command that waits.
LEMMA RejectKeepsDelivery ==
    ASSUME TypeOK, DeliveryInv, NEW s, RejectPendingCommands(s), kind' = kind
    PROVE  DeliveryInv' /\ \A c \in Commands : ~Waiting(c)'
<1>1. \A d \in Commands : Settled(d)' <=> Settled(d) \/ Waiting(d)
  BY DEF RejectPendingCommands, Settled
<1>2. \A d \in Commands : Issued(d)' <=> Issued(d)
  BY DEF Issued
<1>3. \A d \in Commands : ~Waiting(d)'
  BY DEF RejectPendingCommands, Waiting, Commands, None
<1>4. \A d \in Commands : Waiting(d) <=> Issued(d) /\ ~Settled(d)
  BY DEF DeliveryInv, NothingLost
<1>5. NothingLost'
  BY <1>1, <1>2, <1>3, <1>4 DEF NothingLost
<1>6. SettledInOrder'
  <2> SUFFICES ASSUME NEW d \in Commands, NEW e \in Commands, d < e, Settled(e)'
               PROVE  Settled(d)'
    BY DEF SettledInOrder
  <2>1. Issued(e)
    BY <1>1, <1>4 DEF DeliveryInv
  <2>2. Issued(d)
    BY <2>1 DEF DeliveryInv
  <2> QED
    BY <2>2, <1>1, <1>4
<1>7. commandQueue' = <<>> /\ currentCommand' = None
  BY DEF RejectPendingCommands
<1>8. \A d \in Commands : Settled(d)' => Issued(d)'
  BY <1>1, <1>2, <1>4 DEF DeliveryInv
<1>9. \A d, e \in Commands : d < e /\ Issued(e)' => Issued(d)'
  BY <1>2 DEF DeliveryInv
<1> QED
  BY <1>3, <1>5, <1>6, <1>7, <1>8, <1>9 DEF DeliveryInv

\* A command joins the queue behind all that were accepted before it.
LEMMA EnqueueKeepsDelivery ==
    ASSUME TypeOK, DeliveryInv, NEW c \in Commands, NEW k \in AllKinds, Enqueue(c, k)
    PROVE  DeliveryInv'
<1>1. \A d \in Commands : Settled(d)' <=> Settled(d)
  BY DEF Enqueue, Settled
<1>2. \A d \in Commands : Issued(d)' <=> Issued(d) \/ d = c
  BY DEF Enqueue, Issued, TypeOK, AllKinds
<1>3. /\ commandQueue \in Seq(Commands) /\ Len(commandQueue) \in Nat
      /\ commandQueue' = Append(commandQueue, c)
      /\ currentCommand' = currentCommand
  BY DEF TypeOK, Enqueue
<1>4. /\ Len(commandQueue') = Len(commandQueue) + 1
      /\ commandQueue'[Len(commandQueue) + 1] = c
      /\ \A i \in 1 .. Len(commandQueue) : commandQueue'[i] = commandQueue[i]
  BY <1>3
<1>5. \A d \in Commands : Waiting(d)' <=> Waiting(d) \/ d = c
  BY <1>3, <1>4 DEF Waiting
<1>6. \A d \in Commands : Waiting(d) <=> Issued(d) /\ ~Settled(d)
  BY DEF DeliveryInv, NothingLost
<1>7. ~Issued(c) /\ ~Settled(c)
  BY DEF DeliveryInv, Enqueue
<1>8. NothingLost'
  BY <1>1, <1>2, <1>5, <1>6, <1>7 DEF NothingLost
<1>9. SettledInOrder' /\ \A d \in Commands : Settled(d)' => Issued(d)'
  BY <1>1, <1>2 DEF DeliveryInv, SettledInOrder
<1>10. \A d, e \in Commands : d < e /\ Issued(e)' => Issued(d)'
  BY <1>2 DEF DeliveryInv, Enqueue
<1>11. \A d \in Commands : Waiting(d) => d < c
  BY <1>6, <1>7 DEF DeliveryInv, Commands
<1>12. \A i \in 1 .. Len(commandQueue) : commandQueue[i] < c
  BY <1>3, <1>11 DEF Waiting
<1>13. currentCommand # None => currentCommand < c
  BY <1>11 DEF Waiting, TypeOK
<1>14. \A i, j \in 1 .. Len(commandQueue') : i < j => commandQueue'[i] < commandQueue'[j]
  BY <1>3, <1>4, <1>12 DEF DeliveryInv
<1>15. currentCommand' # None =>
          \A i \in 1 .. Len(commandQueue') : currentCommand' < commandQueue'[i]
  BY <1>3, <1>4, <1>13 DEF DeliveryInv
<1> QED
  BY <1>8, <1>9, <1>10, <1>14, <1>15 DEF DeliveryInv

LEMMA UnchangedKeepsDelivery ==
    ASSUME DeliveryInv, UNCHANGED <<commandQueue, currentCommand, kind, outcome>>
    PROVE  DeliveryInv' /\ \A c \in Commands : Waiting(c)' <=> Waiting(c)
BY DEF DeliveryInv, NothingLost, SettledInOrder, Waiting, Issued, Settled

\* Whatever line a chunk completes, the commands stay in order.
LEMMA DataKeepsDelivery ==
    ASSUME TypeOK, DeliveryInv, NEW s \in Sockets, Data(s)
    PROVE  DeliveryInv'
<1>1. PICK r \in Readings(s, Head(fromServer[s])) :
            \/ TakeValue(r[2])
            \/ IgnoreUnsolicited
            \/ ProcessLine(NextCommand, r[1], r[2])
  BY DEF Data
<1>2. CASE TakeValue(r[2]) \/ IgnoreUnsolicited
  BY <1>2, UnchangedKeepsDelivery DEF TakeValue, IgnoreUnsolicited, commandVars
<1>3. CASE ProcessLine(NextCommand, r[1], r[2])
  <2>1. NextCommand # None
    BY <1>3 DEF ProcessLine
  <2>2. CASE ContinueAnswer(NextCommand, r[1], r[2])
    BY <2>1, <2>2, ShiftKeepsDelivery DEF ContinueAnswer
  <2>3. CASE EndAnswer(NextCommand, r[1], r[2])
    BY <2>1, <2>3, SettleKeepsDelivery DEF EndAnswer
  <2>4. CASE FailAnswer(NextCommand, r[1], r[2])
    BY <2>1, <2>4, SettleKeepsDelivery DEF FailAnswer
  <2>5. CASE SingleLineAnswer(NextCommand, r[1], r[2])
    BY <2>1, <2>5, SettleKeepsDelivery DEF SingleLineAnswer
  <2> QED
    BY <1>3, <2>2, <2>3, <2>4, <2>5 DEF ProcessLine
<1> QED
  BY <1>1, <1>2, <1>3

LEMMA StepDelivery == TypeOK /\ DeliveryInv /\ [Next]_vars => DeliveryInv'
<1> SUFFICES ASSUME TypeOK, DeliveryInv, [Next]_vars PROVE DeliveryInv'
  OBVIOUS
<1> USE DEF commandVars
<1>1. ASSUME NEW s \in Sockets, Connect(s) \/ ReconnectFresh(s) PROVE DeliveryInv'
  BY <1>1, UnchangedKeepsDelivery DEF Connect, ReconnectFresh
<1>2. CASE Disconnect
  BY <1>2, UnchangedKeepsDelivery DEF Disconnect
<1>3. ASSUME NEW s \in Sockets, ReconnectWithSocket(s) PROVE DeliveryInv'
  BY <1>3, RejectKeepsDelivery DEF ReconnectWithSocket
<1>4. CASE ReconnectDetached
  BY <1>4, RejectKeepsDelivery DEF ReconnectDetached
<1>5. ASSUME NEW c \in Commands, NEW k \in Kinds, Command(c, k) PROVE DeliveryInv'
  BY <1>5, EnqueueKeepsDelivery DEF Command
<1>6. ASSUME NEW c \in Commands, Quit(c) PROVE DeliveryInv'
  BY <1>6, EnqueueKeepsDelivery DEF Quit, AllKinds
<1>7. ASSUME NEW c \in Commands, QuitContinues(c) PROVE DeliveryInv'
  BY <1>7, UnchangedKeepsDelivery DEF QuitContinues
<1>8. ASSUME NEW s \in Sockets, Ready(s) \/ Error(s) \/ Timeout(s) PROVE DeliveryInv'
  BY <1>8, UnchangedKeepsDelivery DEF Ready, Error, Timeout
<1>9. ASSUME NEW s \in Sockets, Close(s) PROVE DeliveryInv'
  BY <1>9, RejectKeepsDelivery DEF Close
<1>10. ASSUME NEW s \in Sockets, Data(s) PROVE DeliveryInv'
  BY <1>10, DataKeepsDelivery
<1>11. ASSUME NEW s \in Sockets, PartialData(s) PROVE DeliveryInv'
  BY <1>11, UnchangedKeepsDelivery DEF PartialData
<1>12. ASSUME NEW s \in Sockets, ServerReplies(s) \/ ServerQuits(s) PROVE DeliveryInv'
  BY <1>12, UnchangedKeepsDelivery DEF ServerReplies, ServerQuits
<1>13. CASE UNCHANGED vars
  BY <1>13, UnchangedKeepsDelivery DEF vars
<1> QED
  BY <1>1, <1>2, <1>3, <1>4, <1>5, <1>6, <1>7, <1>8, <1>9, <1>10, <1>11, <1>12, <1>13
     DEF Next, Caller, SocketEvent, Server

\* An accepted command waits in the queue exactly until its promise settles:
\* whatever interleaving of calls and events of any number of sockets, no
\* command is dropped (node.ts 786-809, 842-1035).
THEOREM NoCommandIsLost == Spec => []NothingLost
<1>1. DeliveryInv => NothingLost
  BY DEF DeliveryInv
<1> QED
  BY <1>1, InitTypeOK, StepTypeOK, InitDelivery, StepDelivery, PTL DEF Spec

\* Promises settle in the order of the commands (node.ts 842-846, 1021-1035).
THEOREM PromisesSettleInOrder == Spec => []SettledInOrder
<1>1. DeliveryInv => SettledInOrder
  BY DEF DeliveryInv
<1> QED
  BY <1>1, InitTypeOK, StepTypeOK, InitDelivery, StepDelivery, PTL DEF Spec

-----------------------------------------------------------------------------
\* Something is left that settles the commands that wait

Live(s) == socketState[s] \in {"open", "destroyed"}

LEMMA InitSettler == Init => SettlerInv
BY DEF Init, SettlerInv, Waiting, Commands, None

\* destroy() does not end the life of a socket: its 'close' is to come.
LEMMA DestroyKeepsLive ==
    ASSUME TypeOK, NEW t, NEW s \in Sockets, Live(s)
    PROVE  Destroy(t)[s] \in {"open", "destroyed"}
BY DEF TypeOK, Live, Destroy, Alive

\* A step that brings no command and no connection, and after which the
\* sockets live that lived before, keeps the invariant.
LEMMA MonotoneKeepsSettler ==
    ASSUME SettlerInv,
           connected' => connected,
           \A c \in Commands : Waiting(c)' => Waiting(c),
           \A s \in Sockets : Live(s) => Live(s)'
    PROVE  SettlerInv'
BY DEF SettlerInv, Live

\* Processing a line makes no command wait.
LEMMA DataAddsNoWaiting ==
    ASSUME TypeOK, DeliveryInv, NEW s \in Sockets, Data(s)
    PROVE  \A c \in Commands : Waiting(c)' => Waiting(c)
<1>1. PICK r \in Readings(s, Head(fromServer[s])) :
            \/ TakeValue(r[2])
            \/ IgnoreUnsolicited
            \/ ProcessLine(NextCommand, r[1], r[2])
  BY DEF Data
<1>2. CASE TakeValue(r[2]) \/ IgnoreUnsolicited
  BY <1>2, UnchangedKeepsDelivery DEF TakeValue, IgnoreUnsolicited, commandVars
<1>3. CASE ProcessLine(NextCommand, r[1], r[2])
  <2>1. NextCommand # None
    BY <1>3 DEF ProcessLine
  <2>2. commandQueue' = QueueAfterShift /\ currentCommand' \in {NextCommand, None}
    BY <1>3 DEF ProcessLine, ContinueAnswer, EndAnswer, FailAnswer, SingleLineAnswer
  <2> SUFFICES ASSUME NEW c \in Commands, Waiting(c)' PROVE Waiting(c)
    OBVIOUS
  <2>3. c = NextCommand \/ \E i \in 1 .. Len(QueueAfterShift) : QueueAfterShift[i] = c
    BY <2>2 DEF Waiting, Commands, None
  <2> QED
    BY <2>1, <2>3, ShiftKeepsWaiting
<1> QED
  BY <1>1, <1>2, <1>3

LEMMA StepSettler == TypeOK /\ DeliveryInv /\ SettlerInv /\ [Next]_vars => SettlerInv'
<1> SUFFICES ASSUME TypeOK, DeliveryInv, SettlerInv, [Next]_vars PROVE SettlerInv'
  OBVIOUS
<1> USE DEF commandVars, netVars
<1>0. socketState \in [Sockets -> {"none", "connecting", "open", "destroyed", "closed"}]
  BY DEF TypeOK
<1>1. ASSUME NEW s \in Sockets, Connect(s) \/ ReconnectFresh(s) PROVE SettlerInv'
  <2>1. \A t \in Sockets : Live(t) => Live(t)'
    BY <1>0, <1>1 DEF Connect, ReconnectFresh, CreateConnection, Live
  <2>2. \A c \in Commands : Waiting(c)' <=> Waiting(c)
    BY <1>1, UnchangedKeepsDelivery DEF Connect, ReconnectFresh
  <2> QED
    BY <1>1, <2>1, <2>2, MonotoneKeepsSettler DEF Connect, ReconnectFresh
<1>2. ASSUME NEW t, socketState' = Destroy(t) PROVE \A s \in Sockets : Live(s) => Live(s)'
  BY <1>2, DestroyKeepsLive DEF Live
<1>3. CASE Disconnect
  <2>1. \A s \in Sockets : Live(s) => Live(s)'
    BY <1>2, <1>3 DEF Disconnect, DestroySocket
  <2>2. \A c \in Commands : Waiting(c)' <=> Waiting(c)
    BY <1>3, UnchangedKeepsDelivery DEF Disconnect
  <2> QED
    BY <1>3, <2>1, <2>2, MonotoneKeepsSettler DEF Disconnect
<1>4. ASSUME NEW s \in Sockets, ReconnectWithSocket(s) PROVE SettlerInv'
  <2>1. \A c \in Commands : ~Waiting(c)'
    BY <1>4, RejectKeepsDelivery DEF ReconnectWithSocket
  <2> QED
    BY <1>4, <2>1 DEF ReconnectWithSocket, SettlerInv
<1>5. CASE ReconnectDetached
  <2>1. \A c \in Commands : ~Waiting(c)'
    BY <1>5, RejectKeepsDelivery DEF ReconnectDetached
  <2>2. connected' = connected /\ socketState' = socketState
    BY <1>5 DEF ReconnectDetached
  <2> QED
    BY <2>1, <2>2 DEF SettlerInv
<1>6. ASSUME NEW c \in Commands, NEW k, Enqueue(c, k) PROVE SettlerInv'
  BY <1>6 DEF Enqueue, SettlerInv
<1>7. ASSUME NEW c \in Commands, QuitContinues(c) PROVE SettlerInv'
  <2>1. \A s \in Sockets : Live(s) => Live(s)'
    BY <1>2, <1>7 DEF QuitContinues, DestroySocket
  <2>2. \A d \in Commands : Waiting(d)' <=> Waiting(d)
    BY <1>7, UnchangedKeepsDelivery DEF QuitContinues
  <2>3. connected' => connected
    BY <1>7 DEF QuitContinues
  <2> QED
    BY <2>1, <2>2, <2>3, MonotoneKeepsSettler
<1>8. ASSUME NEW s \in Sockets, Ready(s) PROVE SettlerInv'
  <2>1. socketState'[s] = "open"
    BY <1>0, <1>8 DEF Ready
  <2> QED
    BY <2>1 DEF SettlerInv
<1>9. ASSUME NEW s \in Sockets, Error(s) \/ Timeout(s) PROVE SettlerInv'
  <2>1. \A t \in Sockets : Live(t) => Live(t)'
    BY <1>2, <1>9 DEF Error, Timeout, DestroySocket
  <2>2. \A c \in Commands : Waiting(c)' <=> Waiting(c)
    BY <1>9, UnchangedKeepsDelivery DEF Error, Timeout
  <2> QED
    BY <1>9, <2>1, <2>2, MonotoneKeepsSettler DEF Error, Timeout
<1>10. ASSUME NEW s \in Sockets, Close(s) PROVE SettlerInv'
  <2>1. \A c \in Commands : ~Waiting(c)'
    BY <1>10, RejectKeepsDelivery DEF Close
  <2> QED
    BY <1>10, <2>1 DEF Close, SettlerInv
<1>11. ASSUME NEW s \in Sockets, Data(s) PROVE SettlerInv'
  <2>1. connected' = connected /\ socketState' = socketState
    BY <1>11 DEF Data
  <2> QED
    BY <1>11, <2>1, DataAddsNoWaiting, MonotoneKeepsSettler DEF Live
<1>12. ASSUME NEW s \in Sockets, PartialData(s) \/ ServerReplies(s) PROVE SettlerInv'
  <2>1. connected' = connected /\ socketState' = socketState
    BY <1>12 DEF PartialData, ServerReplies
  <2>2. \A c \in Commands : Waiting(c)' <=> Waiting(c)
    BY <1>12, UnchangedKeepsDelivery DEF PartialData, ServerReplies
  <2> QED
    BY <2>1, <2>2, MonotoneKeepsSettler DEF Live
<1>13. ASSUME NEW s \in Sockets, ServerQuits(s) PROVE SettlerInv'
  <2>1. \A t \in Sockets : Live(t) => Live(t)'
    BY <1>2, <1>13 DEF ServerQuits, DestroySocket
  <2>2. \A c \in Commands : Waiting(c)' <=> Waiting(c)
    BY <1>13, UnchangedKeepsDelivery DEF ServerQuits
  <2> QED
    BY <1>13, <2>1, <2>2, MonotoneKeepsSettler DEF ServerQuits
<1>14. CASE UNCHANGED vars
  <2>1. connected' = connected /\ socketState' = socketState
    BY <1>14 DEF vars
  <2>2. \A c \in Commands : Waiting(c)' <=> Waiting(c)
    BY <1>14, UnchangedKeepsDelivery DEF vars
  <2> QED
    BY <2>1, <2>2, MonotoneKeepsSettler DEF Live
<1> QED
  BY <1>1, <1>3, <1>4, <1>5, <1>6, <1>7, <1>8, <1>9, <1>10, <1>11, <1>12, <1>13, <1>14
     DEF Next, Caller, SocketEvent, Server, Command, Quit

\* While a command waits, the 'close' event of some socket is still to come,
\* and it rejects the command at the latest: no command is left to wait for
\* nothing once all connections are gone (node.ts 307-312, 325-332).
THEOREM WaitingHasASettler == Spec => []SomethingWillSettle
<1>1. SettlerInv => SomethingWillSettle
  BY DEF SettlerInv, SomethingWillSettle
<1> QED
  BY <1>1, InitTypeOK, StepTypeOK, InitDelivery, StepDelivery, InitSettler, StepSettler,
     PTL DEF Spec

-----------------------------------------------------------------------------
\* Callers that make one call of connect(), disconnect(), reconnect() or quit()
\* at a time (~Overlapping), with sockets that close before anything else
\* happens to a later one (~LateClose).
\*
\* Then the sockets follow each other: whatever lives is the socket the node
\* uses, while it is open nothing of the others is left to close, and what waits
\* for an answer waits for that of one socket.

\* Sockets are created in order.
Created == \A s \in Sockets : socketState[s] # "none" =>
               \A t \in Sockets : t < s => socketState[t] # "none"

\* What lives is the node's socket, and the last one.
Current == \A s \in Sockets : Alive(s) =>
               socket = s /\ \A t \in Sockets : t > s => socketState[t] = "none"

\* A connection that is being made is awaited, and nothing else goes on.
Handshake == \A s \in Sockets : socketState[s] = "connecting" =>
                 connectPromise[s] = "pending" /\ ~connected /\ quitting = {}

\* While a socket is open the node knows it, and all others have closed.
Opened == \A s \in Sockets : socketState[s] = "open" =>
              connected /\ \A t \in Sockets : socketState[t] # "destroyed"

\* While the node is connected only its own socket can be about to close.
Trusted == connected =>
               /\ socket # None /\ socketState[socket] \in {"open", "destroyed"}
               /\ \A t \in Sockets : socketState[t] = "destroyed" => t = socket

\* What waits for an answer waits on the one socket that is open or about to
\* close.
Carried == \A c \in Commands : Waiting(c) =>
               /\ via[c] \in Sockets /\ socketState[via[c]] \in {"open", "destroyed"}
               /\ \A t \in Sockets : socketState[t] = "destroyed" => t = via[c]

SocketOrder == Created /\ Current /\ Handshake /\ Opened /\ Trusted /\ Carried

OrderInv == TypeOK /\ DeliveryInv /\ SocketOrder /\ RejectedByOwnSocket

-----------------------------------------------------------------------------
\* Sockets

LEMMA OrderShapes ==
    ASSUME OrderInv
    PROVE  /\ socketState \in [Sockets -> {"none", "connecting", "open", "destroyed", "closed"}]
           /\ socket \in Sockets \cup {None} /\ None \notin Sockets
           /\ connectPromise \in [Sockets -> {"none", "pending", "resolved", "rejected"}]
           /\ via \in [Commands -> Sockets \cup {None}]
           /\ Sockets \subseteq Nat
BY DEF OrderInv, TypeOK, Sockets, None

\* Between calls no connection is being made.
LEMMA NoneConnecting ==
    ASSUME OrderInv, ~Overlapping, NEW method, MayCall(method)
    PROVE  quitting = {} /\ \A s \in Sockets : socketState[s] # "connecting"
BY DEF OrderInv, SocketOrder, Handshake, MayCall

\* A new socket where nothing lives.
LEMMA NewSocket ==
    ASSUME OrderInv, NEW s \in Sockets,
           NEW base \in [Sockets -> {"none", "connecting", "open", "destroyed", "closed"}],
           \A t \in Sockets : base[t] \notin {"connecting", "open"},
           \A t \in Sockets : base[t] = "none" <=> socketState[t] = "none",
           CreateConnection(s, base), connected' = FALSE, quitting' = {}
    PROVE  Created' /\ Current' /\ Handshake' /\ Opened' /\ Trusted'
<1>1. /\ socketState[s] = "none" /\ \A t \in Sockets : t < s => socketState[t] # "none"
      /\ socketState' = [base EXCEPT ![s] = "connecting"] /\ socket' = s
      /\ connectPromise' = [connectPromise EXCEPT ![s] = "pending"]
  BY DEF CreateConnection
<1>2. \A t \in Sockets : socketState'[t] = IF t = s THEN "connecting" ELSE base[t]
  BY <1>1
<1>3. connectPromise'[s] = "pending"
  BY <1>1, OrderShapes
<1>4. \A t \in Sockets : t > s => socketState[t] = "none"
  BY <1>1 DEF OrderInv, SocketOrder, Created
<1>5. Created'
  <2> SUFFICES ASSUME NEW x \in Sockets, socketState'[x] # "none", NEW t \in Sockets, t < x
               PROVE  socketState'[t] # "none"
    BY DEF Created
  <2>1. x = s \/ socketState[x] # "none"
    BY <1>2
  <2>2. t = s \/ socketState[t] # "none"
    BY <1>1, <2>1 DEF OrderInv, SocketOrder, Created
  <2> QED
    BY <1>2, <2>2
<1>6. Current'
  BY <1>1, <1>2, <1>4, OrderShapes DEF Current, Alive
<1>7. Handshake' /\ Opened' /\ Trusted'
  BY <1>2, <1>3 DEF Handshake, Opened, Trusted
<1> QED
  BY <1>5, <1>6, <1>7

\* destroy() of what lives leaves nothing that lives; a command that waited on
\* a socket waits for its 'close'.
LEMMA Killed ==
    ASSUME OrderInv, NEW d, d = socket \/ (d \in Sockets /\ Alive(d)), socketState' = Destroy(d),
           \A t \in Sockets : socketState[t] = "connecting" => \A c \in Commands : ~Waiting(c),
           UNCHANGED <<commandQueue, currentCommand, via>>,
           connected' => connected /\ socket' = socket
    PROVE  SocketOrder'
<1>1. \A t \in Sockets : /\ Alive(t) => t = d /\ socketState'[t] = "destroyed"
                         /\ ~Alive(t) => socketState'[t] = socketState[t]
  BY OrderShapes DEF OrderInv, SocketOrder, Current, Destroy
<1>2. \A t \in Sockets : /\ socketState'[t] \notin {"connecting", "open"}
                         /\ socketState'[t] = "none" <=> socketState[t] = "none"
                         /\ socketState'[t] = "destroyed" <=> socketState[t] = "destroyed" \/ Alive(t)
  BY <1>1 DEF Alive
<1>3. Created' /\ Current' /\ Handshake' /\ Opened'
  BY <1>2 DEF OrderInv, SocketOrder, Created, Current, Handshake, Opened, Alive
<1>4. Trusted'
  BY <1>2, OrderShapes DEF OrderInv, SocketOrder, Trusted, Current, Alive
<1>5. Carried'
  <2> SUFFICES ASSUME NEW c \in Commands, Waiting(c)
               PROVE  /\ via[c] \in Sockets /\ socketState'[via[c]] \in {"open", "destroyed"}
                      /\ \A t \in Sockets : socketState'[t] = "destroyed" => t = via[c]
    BY DEF Carried, Waiting
  <2>1. /\ via[c] \in Sockets /\ socketState[via[c]] \in {"open", "destroyed"}
        /\ \A t \in Sockets : socketState[t] = "destroyed" => t = via[c]
    BY DEF OrderInv, SocketOrder, Carried
  <2>2. socketState'[via[c]] = "destroyed"
    BY <1>2, <2>1 DEF Alive
  <2>3. ASSUME NEW t \in Sockets, Alive(t) PROVE t = via[c]
    <3>1. socketState[t] = "open"
      BY <2>3 DEF Alive
    <3>2. Alive(via[c])
      BY <2>1, <3>1 DEF OrderInv, SocketOrder, Opened, Alive
    <3> QED
      BY <2>1, <2>3, <3>2 DEF OrderInv, SocketOrder, Current
  <2> QED
    BY <1>2, <2>1, <2>2, <2>3
<1> QED
  BY <1>3, <1>4, <1>5 DEF SocketOrder

\* The sockets and what waits stay as they are.
LEMMA Unmoved ==
    ASSUME OrderInv, UNCHANGED <<socketState, socket, connected, connectPromise, quitting, via>>,
           \A c \in Commands : Waiting(c)' => Waiting(c)
    PROVE  SocketOrder'
BY DEF OrderInv, SocketOrder, Created, Current, Handshake, Opened, Trusted, Carried, Alive

LEMMA OrderConnect ==
    ASSUME OrderInv, ~Overlapping, NEW s \in Sockets, Connect(s) \/ ReconnectFresh(s)
    PROVE  SocketOrder'
<1>1. /\ \E method : MayCall(method)
      /\ ~connected /\ connected' = connected /\ quitting' = quitting
      /\ CreateConnection(s, socketState) /\ UNCHANGED commandVars
  BY DEF Connect, ReconnectFresh
<1>2. quitting = {} /\ \A t \in Sockets : socketState[t] # "connecting"
  BY <1>1, NoneConnecting
<1>3. \A t \in Sockets : socketState[t] # "open"
  BY <1>1 DEF OrderInv, SocketOrder, Opened
<1>4. connected' = FALSE
  BY <1>1 DEF OrderInv, TypeOK
<1>5. Created' /\ Current' /\ Handshake' /\ Opened' /\ Trusted'
  BY <1>1, <1>2, <1>3, <1>4, OrderShapes, NewSocket
<1>6. Carried'
  <2>1. \A t \in Sockets : socketState[t] # "none" => socketState'[t] = socketState[t]
    BY <1>1, OrderShapes DEF CreateConnection
  <2>2. \A t \in Sockets : socketState'[t] = "destroyed" => socketState[t] = "destroyed"
    BY <1>1, OrderShapes DEF CreateConnection
  <2>3. \A c \in Commands : Waiting(c)' <=> Waiting(c)
    BY <1>1 DEF commandVars, Waiting
  <2> QED
    BY <1>1, <2>1, <2>2, <2>3 DEF OrderInv, SocketOrder, Carried, commandVars
<1> QED
  BY <1>5, <1>6 DEF SocketOrder

LEMMA OrderReconnect ==
    ASSUME OrderInv, ~Overlapping, NEW s \in Sockets, ReconnectWithSocket(s)
    PROVE  SocketOrder'
<1>1. /\ MayCall("reconnect") /\ CreateConnection(s, Destroy(socket)) /\ connected' = FALSE
      /\ quitting' = quitting /\ RejectPendingCommands(None) /\ kind' = kind
  BY DEF ReconnectWithSocket
<1>2. quitting = {}
  BY <1>1, NoneConnecting
<1>3. /\ Destroy(socket) \in [Sockets -> {"none", "connecting", "open", "destroyed", "closed"}]
      /\ \A t \in Sockets : Destroy(socket)[t] \notin {"connecting", "open"}
      /\ \A t \in Sockets : Destroy(socket)[t] = "none" <=> socketState[t] = "none"
  BY OrderShapes DEF OrderInv, SocketOrder, Current, Destroy, Alive
<1>4. Created' /\ Current' /\ Handshake' /\ Opened' /\ Trusted'
  BY <1>1, <1>2, <1>3, NewSocket
<1>5. \A c \in Commands : ~Waiting(c)'
  BY <1>1, RejectKeepsDelivery DEF OrderInv
<1> QED
  BY <1>4, <1>5 DEF SocketOrder, Carried

\* Nothing else happens to a new socket while an older one is about to close,
\* and so nothing waits that was sent through an older one.
LEMMA NothingCarriedOver ==
    ASSUME OrderInv, ~LateClose, NEW s \in Sockets, InOrder(s), socketState[s] = "connecting"
    PROVE  /\ \A c \in Commands : ~Waiting(c)
           /\ \A t \in Sockets : socketState[t] # "destroyed"
<1>1. \A t \in Sockets : t < s => socketState[t] # "destroyed"
  BY DEF InOrder
<1>2. \A t \in Sockets : t > s => socketState[t] = "none"
  BY DEF OrderInv, SocketOrder, Current, Alive
<1>3. \A t \in Sockets : socketState[t] # "destroyed"
  BY <1>1, <1>2, OrderShapes
<1>4. \A t \in Sockets : socketState[t] # "open"
  BY DEF OrderInv, SocketOrder, Opened, Handshake
<1> QED
  BY <1>3, <1>4 DEF OrderInv, SocketOrder, Carried

LEMMA OrderKills ==
    ASSUME OrderInv, ~Overlapping, ~LateClose,
           \/ Disconnect
           \/ \E c \in Commands : QuitContinues(c)
           \/ \E s \in Sockets : Error(s) \/ Timeout(s) \/ ServerQuits(s)
    PROVE  SocketOrder'
<1> USE DEF commandVars
<1>1. CASE Disconnect
  <2>1. \A s \in Sockets : socketState[s] # "connecting"
    BY <1>1, NoneConnecting DEF Disconnect
  <2> QED
    BY <1>1, <2>1, Killed DEF Disconnect, DestroySocket
<1>2. ASSUME NEW c \in Commands, QuitContinues(c) PROVE SocketOrder'
  <2>1. \A s \in Sockets : socketState[s] # "connecting"
    BY <1>2 DEF QuitContinues, OrderInv, SocketOrder, Handshake
  <2>2. ~connected'
    BY <1>2 DEF QuitContinues, OrderInv, SocketOrder, Trusted
  <2> QED
    BY <1>2, <2>1, <2>2, Killed DEF QuitContinues, DestroySocket
<1>3. ASSUME NEW s \in Sockets, Error(s) \/ Timeout(s) PROVE SocketOrder'
  <2>1. Alive(s) /\ InOrder(s) /\ s = socket
    BY <1>3 DEF Error, Timeout, OrderInv, SocketOrder, Current
  <2>2. ASSUME NEW t \in Sockets, socketState[t] = "connecting" PROVE \A c \in Commands : ~Waiting(c)
    <3>1. t = s
      BY <2>1, <2>2 DEF OrderInv, SocketOrder, Current, Alive
    <3> QED
      BY <2>1, <2>2, <3>1, NothingCarriedOver
  <2> QED
    BY <1>3, <2>1, <2>2, Killed DEF Error, Timeout, DestroySocket
<1>4. ASSUME NEW s \in Sockets, ServerQuits(s) PROVE SocketOrder'
  <2>1. Alive(s) /\ \A t \in Sockets : socketState[t] # "connecting"
    BY <1>4 DEF ServerQuits, OrderInv, SocketOrder, Opened, Handshake, Alive
  <2> QED
    BY <1>4, <2>1, Killed DEF ServerQuits, DestroySocket
<1> QED
  BY <1>1, <1>2, <1>3, <1>4

LEMMA OrderEnqueue ==
    ASSUME OrderInv, NEW c \in Commands, NEW k, Enqueue(c, k)
    PROVE  SocketOrder'
<1>1. /\ connected /\ socket \in Sockets /\ socketState[socket] \in {"open", "destroyed"}
      /\ \A t \in Sockets : socketState[t] = "destroyed" => t = socket
      /\ via' = [via EXCEPT ![c] = socket] /\ commandQueue' = Append(commandQueue, c)
      /\ UNCHANGED <<connected, socket, currentCommand, connectPromise, socketState>>
  BY OrderShapes DEF Enqueue, OrderInv, SocketOrder, Trusted
<1>2. Created' /\ Current' /\ Opened' /\ Trusted'
  BY <1>1 DEF OrderInv, SocketOrder, Created, Current, Opened, Trusted, Alive
<1>3. Handshake'
  BY <1>1 DEF OrderInv, SocketOrder, Handshake
<1>4. Carried'
  <2> SUFFICES ASSUME NEW d \in Commands, Waiting(d)'
               PROVE  /\ via'[d] \in Sockets /\ socketState'[via'[d]] \in {"open", "destroyed"}
                      /\ \A t \in Sockets : socketState'[t] = "destroyed" => t = via'[d]
    BY DEF Carried
  <2>1. CASE d = c
    BY <1>1, <2>1, OrderShapes
  <2>2. CASE d # c
    <3>1. commandQueue \in Seq(Commands)
      BY DEF OrderInv, TypeOK
    <3>2. Waiting(d)
      BY <1>1, <2>2, <3>1 DEF Waiting
    <3>3. via'[d] = via[d]
      BY <1>1, <2>2, OrderShapes
    <3> QED
      BY <1>1, <3>2, <3>3 DEF OrderInv, SocketOrder, Carried
  <2> QED
    BY <2>1, <2>2
<1> QED
  BY <1>2, <1>3, <1>4 DEF SocketOrder

LEMMA OrderReady ==
    ASSUME OrderInv, ~LateClose, NEW s \in Sockets, Ready(s)
    PROVE  SocketOrder'
<1>1. /\ socketState[s] = "connecting" /\ InOrder(s) /\ socketState' = [socketState EXCEPT ![s] = "open"]
      /\ connected' = TRUE /\ UNCHANGED <<socket, commandVars, quitting>>
  BY DEF Ready
<1>2. /\ socket = s /\ \A t \in Sockets : t # s => ~Alive(t)
      /\ \A t \in Sockets : t > s => socketState[t] = "none"
  BY <1>1 DEF OrderInv, SocketOrder, Current, Alive
<1>3. /\ \A c \in Commands : ~Waiting(c)
      /\ \A t \in Sockets : socketState[t] # "destroyed"
  BY <1>1, NothingCarriedOver
<1>4. \A t \in Sockets : socketState'[t] = IF t = s THEN "open" ELSE socketState[t]
  BY <1>1, OrderShapes
<1>5. Created'
  BY <1>1, <1>4 DEF OrderInv, SocketOrder, Created
<1>6. Current' /\ Handshake' /\ Opened' /\ Trusted'
  BY <1>1, <1>2, <1>3, <1>4, OrderShapes DEF Current, Handshake, Opened, Trusted, Alive
<1>7. Carried'
  BY <1>1, <1>3 DEF Carried, Waiting, commandVars
<1> QED
  BY <1>5, <1>6, <1>7 DEF SocketOrder

LEMMA OrderClose ==
    ASSUME OrderInv, NEW s \in Sockets, Close(s)
    PROVE  SocketOrder'
<1>1. /\ socketState[s] = "destroyed" /\ socketState' = [socketState EXCEPT ![s] = "closed"]
      /\ connected' = FALSE /\ RejectPendingCommands(s) /\ kind' = kind
      /\ UNCHANGED <<socket, connectPromise, quitting>>
  BY DEF Close
<1>2. \A t \in Sockets : socketState'[t] = IF t = s THEN "closed" ELSE socketState[t]
  BY <1>1, OrderShapes
<1>3. \A c \in Commands : ~Waiting(c)'
  BY <1>1, RejectKeepsDelivery DEF OrderInv
<1>4. Created' /\ Current' /\ Handshake' /\ Opened' /\ Trusted' /\ Carried'
  BY <1>1, <1>2, <1>3 DEF OrderInv, SocketOrder, Created, Current, Handshake, Opened, Trusted, Carried, Alive
<1> QED
  BY <1>4 DEF SocketOrder

LEMMA DataKeepsVia ==
    ASSUME NEW s \in Sockets, Data(s)
    PROVE  via' = via
BY DEF Data, TakeValue, IgnoreUnsolicited, ProcessLine, ContinueAnswer, EndAnswer, FailAnswer,
       SingleLineAnswer, commandVars

LEMMA OrderStep ==
    ASSUME OrderInv, ~Overlapping, ~LateClose, [Next]_vars
    PROVE  SocketOrder'
<1> USE DEF commandVars, netVars
<1>1. ASSUME ReconnectDetached PROVE SocketOrder'
  BY <1>1 DEF ReconnectDetached, OrderInv, SocketOrder, Trusted
<1>2. ASSUME NEW c \in Commands, Quit(c) \/ \E k \in Kinds : Command(c, k) PROVE SocketOrder'
  BY <1>2, OrderEnqueue DEF Quit, Command
<1>3. ASSUME NEW s \in Sockets, Data(s) PROVE SocketOrder'
  BY <1>3, DataKeepsVia, DataAddsNoWaiting, Unmoved DEF Data, OrderInv
<1>4. ASSUME NEW s \in Sockets, PartialData(s) \/ ServerReplies(s) PROVE SocketOrder'
  BY <1>4, Unmoved DEF PartialData, ServerReplies, Waiting
<1>5. ASSUME UNCHANGED vars PROVE SocketOrder'
  BY <1>5, Unmoved DEF vars, Waiting
<1> QED
  BY <1>1, <1>2, <1>3, <1>4, <1>5, OrderConnect, OrderReconnect, OrderKills, OrderReady, OrderClose
     DEF Next, Caller, SocketEvent, Server

\* What rejects a command as lost is the close of the socket it went to.
LEMMA RejectionStep ==
    ASSUME OrderInv, [Next]_vars
    PROVE  RejectedByOwnSocket'
<1> USE DEF commandVars, OrderInv
<1>1. ASSUME \A c \in Commands : outcome'[c].how = "closed" =>
                outcome'[c].by = None \/ (outcome'[c] = outcome[c] /\ via'[c] = via[c])
      PROVE  RejectedByOwnSocket'
  BY <1>1 DEF RejectedByOwnSocket
<1>2. ASSUME outcome' = outcome, via' = via PROVE RejectedByOwnSocket'
  BY <1>1, <1>2
<1>3. ASSUME RejectPendingCommands(None), via' = via PROVE RejectedByOwnSocket'
  BY <1>1, <1>3 DEF RejectPendingCommands
<1>4. ASSUME NEW s \in Sockets, Close(s) PROVE RejectedByOwnSocket'
  <2>1. socketState[s] = "destroyed" /\ RejectPendingCommands(s) /\ via' = via
    BY <1>4 DEF Close
  <2>2. \A c \in Commands : Waiting(c) => via[c] = s
    BY <2>1 DEF SocketOrder, Carried
  <2> QED
    BY <2>1, <2>2 DEF RejectPendingCommands, RejectedByOwnSocket
<1>5. ASSUME NEW c \in Commands, NEW k, Enqueue(c, k) PROVE RejectedByOwnSocket'
  <2>1. ~Settled(c) /\ outcome' = outcome /\ via' = [via EXCEPT ![c] = socket]
    BY <1>5 DEF Enqueue, DeliveryInv
  <2>2. \A d \in Commands : d # c => via'[d] = via[d]
    BY <2>1, OrderShapes
  <2> QED
    BY <1>1, <2>1, <2>2 DEF Settled
<1>6. ASSUME NEW s \in Sockets, Data(s) PROVE RejectedByOwnSocket'
  <2>1. PICK r \in Readings(s, Head(fromServer[s])) :
            \/ TakeValue(r[2])
            \/ IgnoreUnsolicited
            \/ ProcessLine(NextCommand, r[1], r[2])
    BY <1>6 DEF Data
  <2>2. \/ outcome' = outcome
        \/ \E c, values : \E how \in {"resolved", "failed"} : Settle(c, how, values)
    BY <2>1 DEF TakeValue, IgnoreUnsolicited, ProcessLine, ContinueAnswer, EndAnswer, FailAnswer,
                SingleLineAnswer
  <2>3. via' = via
    BY <1>6, DataKeepsVia
  <2>4. ASSUME NEW c, NEW values, NEW how \in {"resolved", "failed"}, Settle(c, how, values)
        PROVE  \A d \in Commands : outcome'[d] = outcome[d] \/ outcome'[d].how # "closed"
    BY <2>4 DEF Settle, TypeOK
  <2> QED
    BY <1>1, <1>2, <2>2, <2>3, <2>4
<1> QED
  BY <1>2, <1>3, <1>4, <1>5, <1>6 DEF Next, Caller, SocketEvent, Server, Connect, ReconnectFresh,
     ReconnectWithSocket, ReconnectDetached, Disconnect, Quit, Command, QuitContinues, Ready, Error,
     Timeout, PartialData, ServerReplies, ServerQuits, vars

LEMMA OrderInit == Init => OrderInv
<1> SUFFICES ASSUME Init PROVE OrderInv
  OBVIOUS
<1>1. \A c \in Commands : ~Waiting(c)
  BY DEF Init, Waiting, Commands, None
<1>2. SocketOrder
  BY <1>1 DEF Init, SocketOrder, Created, Current, Handshake, Opened, Trusted, Carried, Alive
<1>3. RejectedByOwnSocket
  BY DEF Init, RejectedByOwnSocket, Unsettled
<1> QED
  BY <1>2, <1>3, InitTypeOK, InitDelivery DEF OrderInv

LEMMA OrderHolds == ~Overlapping /\ ~LateClose => (Spec => []OrderInv)
<1> SUFFICES ASSUME ~Overlapping /\ ~LateClose PROVE Spec => []OrderInv
  OBVIOUS
<1>1. OrderInv /\ [Next]_vars => OrderInv'
  BY StepTypeOK, StepDelivery, OrderStep, RejectionStep DEF OrderInv
<1> QED
  BY OrderInit, <1>1, PTL DEF Spec

-----------------------------------------------------------------------------
\* Theorems

\* With callers that make one call at a time, and 'close' events in order, the
\* node has one live connection, in spite of any failure, timeout, quit() and
\* reconnect() (node.ts 84, 242-356).
THEOREM OneConnectionAtATime == ~Overlapping /\ ~LateClose => (Spec => []OneConnection)
<1>1. OrderInv => OneConnection
  BY DEF OrderInv, SocketOrder, Current, OneConnection
<1> QED
  BY OrderHolds, <1>1, PTL

\* ... takes itself for connected exactly as long as that connection is open,
\* or about to close (node.ts 270-312, 790-801).
THEOREM ConnectedIsTrue == ~Overlapping /\ ~LateClose => (Spec => []ConnectedMeansOpen)
<1>1. OrderInv => ConnectedMeansOpen
  BY DEF OrderInv, SocketOrder, Opened, Trusted, ConnectedMeansOpen, TypeOK
<1> QED
  BY OrderHolds, <1>1, PTL

\* ... and rejects no command because of a connection that did not carry it
\* (node.ts 307-312, 337-344).
THEOREM LostWithItsConnection == ~Overlapping /\ ~LateClose => (Spec => []RejectedByOwnSocket)
<1>1. OrderInv => RejectedByOwnSocket
  BY DEF OrderInv
<1> QED
  BY OrderHolds, <1>1, PTL

=============================================================================
