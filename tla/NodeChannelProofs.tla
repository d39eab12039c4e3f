-------------------------- MODULE NodeChannelProofs --------------------------
(***************************************************************************)
(* A MemcacheNode whose callers only use command() and reconnect(), one    *)
(* call at a time, and no command whose answer the parser cannot tell the  *)
(* end of ("raw"), implements CommandChannel.                              *)
(*                                                                         *)
(* The code has no tag that says which command a line answers.  The        *)
(* invariant says why it needs none: what the socket still has to deliver, *)
(* and the server still has to execute, continues exactly where the parser *)
(* stands, command by command.                                             *)
(***************************************************************************)
EXTENDS MemcacheNodeProofs, MCMemcacheNode

\* What the theorems of this module assume of callers and runtime.
Disciplined ==
    /\ ~Overlapping /\ ~LateClose
    /\ Calls \subseteq {"reconnect"} /\ "raw" \notin Kinds

\* The lines of an answer: the one it starts with, what may follow, the last.
First(l)     == l \notin {"data", "blank"}
Last(l)      == l \in {"STORED", "END", "ERROR"}
Within(l, m) == <<l, m>> \in {<<"VALUE", "data">>, <<"CONFIG", "data">>, <<"data", "END">>,
                              <<"EMPTY", "blank">>, <<"blank", "END">>, <<"STAT", "END">>}
Says(k, l) ==
    CASE k = "single" -> l \in {"STORED", "ERROR"}
      [] k = "multi"  -> l \in {"VALUE", "data", "EMPTY", "blank", "END", "ERROR"}
      [] k = "stats"  -> l \in {"STAT", "END", "ERROR"}
      [] k = "config" -> l \in {"CONFIG", "data", "END", "ERROR"}
      [] OTHER        -> FALSE

\* Token y comes right after token x.
Follows(x, y) ==
    \/ Last(x.line) /\ y.cmd = x.cmd + 1 /\ First(y.line)
    \/ Within(x.line, y.line) /\ y.cmd = x.cmd

\* The lines on their way answer the commands that wait, from the oldest on.
Answering(F) ==
    /\ \A i \in DOMAIN F : Waiting(F[i].cmd) /\ Says(kind[F[i].cmd], F[i].line)
    /\ \A i \in DOMAIN F : i + 1 \in DOMAIN F => Follows(F[i], F[i + 1])
    /\ \A i, j \in DOMAIN F : i < j =>
          F[i].cmd <= F[j].cmd /\ (Last(F[i].line) => F[i].cmd < F[j].cmd)
    /\ F # <<>> => Last(F[Len(F)].line) /\ \A c \in Commands : Waiting(c) => F[1].cmd <= c

\* The commands on their way are those that wait after the ones answered.
Asking(F, T) ==
    /\ \A i \in DOMAIN T : Waiting(T[i])
    /\ \A i \in DOMAIN T : i + 1 \in DOMAIN T => T[i + 1] = T[i] + 1
    /\ \A i, j \in DOMAIN T : i < j => T[i] < T[j]
    /\ T # <<>> => \A c \in Commands : Issued(c) => c <= T[Len(T)]
    /\ T = <<>> /\ F # <<>> => \A c \in Commands : Issued(c) => c <= F[Len(F)].cmd
    /\ T # <<>> /\ F # <<>> => T[1] = F[Len(F)].cmd + 1
    /\ T # <<>> /\ F = <<>> => \A c \in Commands : Waiting(c) => T[1] <= c
    /\ T = <<>> /\ F = <<>> => \A c \in Commands : ~Waiting(c)

\* The parser between two answers.
Between(F) ==
    /\ currentCommand = None
    /\ ~pendingValue /\ multilineData = <<>>
    /\ F # <<>> => First(F[1].line)
    /\ \A c \in Commands : Waiting(c) => foundKeys[c] = 0

\* The parser inside the answer to currentCommand.
Inside(F) ==
    /\ currentCommand # None /\ Multiline(kind[currentCommand])
    /\ F # <<>> /\ F[1].line \in {"data", "blank", "END"}
    /\ pendingValue <=> F[1].line = "data"
    /\ \A i \in DOMAIN multilineData : multilineData[i] = currentCommand
    /\ kind[currentCommand] = "multi" =>
          foundKeys[currentCommand] = Len(multilineData) + IF pendingValue THEN 1 ELSE 0
    /\ \A c \in Commands : Waiting(c) /\ c # currentCommand => foundKeys[c] = 0

Stream(s) ==
    /\ buffer.from \in {None, s}
    /\ Answering(fromServer[s])
    /\ Asking(fromServer[s], toServer[s])
    /\ Between(fromServer[s]) \/ Inside(fromServer[s])

\* A socket starts with nothing to send, nothing to deliver, nobody waiting.
Starting ==
    /\ \A s \in Sockets : socketState[s] = "none" => fromServer[s] = <<>> /\ toServer[s] = <<>>
    /\ \A s \in Sockets : socketState[s] = "connecting" => \A c \in Commands : ~Waiting(c)
    /\ socket = None =>
          /\ \A s \in Sockets : socketState[s] = "none"
          /\ currentCommand = None /\ commandQueue = <<>>
          /\ ~pendingValue /\ multilineData = <<>> /\ buffer = NoLine

\* The callers keep to the discipline.
Obeyed ==
    /\ quitting = {}
    /\ \A c \in Commands : kind[c] \in {"none", "single", "multi", "stats", "config"}
    /\ \A c \in Commands : ~Issued(c) => foundKeys[c] = 0

Streams == \A s \in Sockets : Alive(s) => Stream(s)

Rules == Starting /\ Obeyed /\ ValuesAligned /\ Streams

ChannelInv == OrderInv /\ Rules

-----------------------------------------------------------------------------
\* What waits, and what is sent

LEMMA StreamShapes ==
    ASSUME ChannelInv, NEW s \in Sockets
    PROVE  /\ fromServer \in [Sockets -> Seq(TokenType)] /\ toServer \in [Sockets -> Seq(Commands)]
           /\ fromServer[s] \in Seq(TokenType) /\ toServer[s] \in Seq(Commands)
           /\ commandQueue \in Seq(Commands) /\ currentCommand \in Commands \cup {None}
           /\ multilineData \in Seq(Commands \cup {None})
           /\ foundKeys \in [Commands -> Nat] /\ kind \in [Commands -> AllKinds \cup {"none"}]
           /\ pendingValue \in BOOLEAN /\ Commands \subseteq Nat \ {0} /\ None \notin Commands
BY DEF ChannelInv, Rules, OrderInv, TypeOK, Commands, None

\* The command a line is processed for is the oldest that waits.
LEMMA NextIsOldest ==
    ASSUME TypeOK, DeliveryInv
    PROVE  /\ NextCommand = None => currentCommand = None /\ commandQueue = <<>>
           /\ NextCommand = None => \A c \in Commands : ~Waiting(c)
           /\ NextCommand # None => NextCommand \in Commands /\ Waiting(NextCommand)
           /\ \A c \in Commands : Waiting(c) => NextCommand # None /\ NextCommand <= c
<1>1. CASE NextCommand = None
  <2>1. currentCommand = None /\ commandQueue = <<>>
    <3>1. commandQueue \in Seq(Commands)
      BY DEF TypeOK
    <3>2. commandQueue # <<>> => Head(commandQueue) \in Commands
      BY <3>1
    <3> QED
      BY <1>1, <3>2 DEF NextCommand, None, Commands
  <2> QED
    BY <1>1, <2>1 DEF Waiting, Commands, None
<1>2. CASE NextCommand # None
  BY <1>2, ShiftKeepsWaiting DEF Commands
<1> QED
  BY <1>1, <1>2

\* The first line on its way answers the command it is processed for.
LEMMA HeadIsNext ==
    ASSUME ChannelInv, NEW s \in Sockets, Stream(s), fromServer[s] # <<>>
    PROVE  /\ fromServer[s][1] \in TokenType /\ fromServer[s][1].cmd = NextCommand
           /\ NextCommand \in Commands /\ Waiting(NextCommand)
           /\ Says(kind[NextCommand], fromServer[s][1].line)
<1>1. fromServer[s][1] \in TokenType /\ 1 \in DOMAIN fromServer[s]
  BY StreamShapes
<1>2. fromServer[s][1].cmd \in Commands
  BY <1>1 DEF TokenType
<1>3. /\ Waiting(fromServer[s][1].cmd)
      /\ Says(kind[fromServer[s][1].cmd], fromServer[s][1].line)
      /\ \A c \in Commands : Waiting(c) => fromServer[s][1].cmd <= c
  BY <1>1 DEF Stream, Answering
<1>4. NextCommand # None /\ NextCommand <= fromServer[s][1].cmd
      /\ NextCommand \in Commands /\ Waiting(NextCommand)
  BY <1>2, <1>3, NextIsOldest DEF ChannelInv, Rules, OrderInv
<1>5. NextCommand = fromServer[s][1].cmd
  BY <1>2, <1>3, <1>4, StreamShapes
<1> QED
  BY <1>1, <1>3, <1>4, <1>5

LEMMA TailEntries ==
    ASSUME NEW S, NEW q \in Seq(S), q # <<>>
    PROVE  /\ Tail(q) \in Seq(S) /\ Len(q) \in Nat \ {0} /\ Len(Tail(q)) = Len(q) - 1
           /\ DOMAIN q = 1 .. Len(q) /\ DOMAIN Tail(q) = 1 .. Len(q) - 1
           /\ \A i \in DOMAIN Tail(q) : i + 1 \in DOMAIN q /\ Tail(q)[i] = q[i + 1]
           /\ Tail(q) # <<>> <=> Len(q) > 1
           /\ q[1] \in S /\ q[1] = Head(q)
<1>1. /\ Tail(q) \in Seq(S) /\ Len(q) \in Nat \ {0} /\ Len(Tail(q)) = Len(q) - 1
      /\ q[1] \in S /\ q[1] = Head(q) /\ DOMAIN q = 1 .. Len(q)
  OBVIOUS
<1>2. DOMAIN Tail(q) = 1 .. Len(q) - 1
  BY <1>1
<1>3. \A i \in DOMAIN Tail(q) : i + 1 \in DOMAIN q /\ Tail(q)[i] = q[i + 1]
  BY <1>1, <1>2
<1>4. Tail(q) # <<>> <=> Len(q) > 1
  <2>1. PICK r \in Seq(S) : r = Tail(q)
    BY <1>1
  <2>2. r # <<>> => Len(r) # 0
    OBVIOUS
  <2>4. r = <<>> => Len(r) = 0
    OBVIOUS
  <2>3. Len(r) = Len(q) - 1
    BY <1>1, <2>1
  <2> QED
    BY <1>1, <2>1, <2>2, <2>3, <2>4
<1> QED
  BY <1>1, <1>2, <1>3, <1>4

LEMMA JoinEntries ==
    ASSUME NEW S, NEW q \in Seq(S), NEW r \in Seq(S)
    PROVE  /\ q \o r \in Seq(S) /\ Len(q \o r) = Len(q) + Len(r)
           /\ DOMAIN (q \o r) = 1 .. Len(q) + Len(r)
           /\ \A i \in 1 .. Len(q) : (q \o r)[i] = q[i]
           /\ \A i \in 1 .. Len(r) : (q \o r)[Len(q) + i] = r[i]
<1>1. q \o r \in Seq(S) /\ Len(q \o r) = Len(q) + Len(r) /\ Len(q) \in Nat /\ Len(r) \in Nat
  OBVIOUS
<1>2. DOMAIN (q \o r) = 1 .. Len(q) + Len(r)
  BY <1>1
<1>3. \A i \in 1 .. Len(q) : (q \o r)[i] = q[i]
  BY <1>1
<1>4. \A i \in 1 .. Len(r) : (q \o r)[Len(q) + i] = r[i]
  BY <1>1
<1> QED
  BY <1>1, <1>2, <1>3, <1>4

LEMMA TokenEntries ==
    ASSUME NEW F \in Seq(TokenType), NEW i \in DOMAIN F
    PROVE  F[i] \in TokenType /\ F[i].cmd \in Commands
<1>1. F[i] \in TokenType
  OBVIOUS
<1> QED
  BY <1>1 DEF TokenType

\* A line that continues its answer is taken off the stream.
LEMMA ContinueStream ==
    ASSUME ChannelInv, NEW s \in Sockets, Stream(s), fromServer[s] # <<>>,
           ~Last(fromServer[s][1].line),
           fromServer'[s] = Tail(fromServer[s]), toServer' = toServer, kind' = kind,
           \A c \in Commands : Waiting(c)' <=> Waiting(c)
    PROVE  /\ Answering(fromServer[s])' /\ Asking(fromServer[s], toServer[s])'
           /\ fromServer'[s] # <<>> /\ fromServer'[s][1].cmd = fromServer[s][1].cmd
           /\ Within(fromServer[s][1].line, fromServer'[s][1].line)
<1>1. PICK F \in Seq(TokenType), T \in Seq(Commands) : F = fromServer[s] /\ T = toServer[s]
  BY StreamShapes
<1>2. PICK G : G = Tail(F)
  OBVIOUS
<1>3. F # <<>> /\ ~Last(F[1].line) /\ Answering(F) /\ Asking(F, T) /\ fromServer'[s] = G /\ toServer'[s] = T
  BY <1>1, <1>2 DEF Stream
<1>4. /\ G \in Seq(TokenType) /\ Len(F) \in Nat \ {0} /\ Len(G) = Len(F) - 1
      /\ DOMAIN F = 1 .. Len(F) /\ DOMAIN G = 1 .. Len(F) - 1
      /\ \A i \in DOMAIN G : i + 1 \in DOMAIN F /\ G[i] = F[i + 1]
      /\ G # <<>> <=> Len(F) > 1
  BY <1>2, <1>3, TailEntries
<1>5. Len(F) > 1
  BY <1>3, <1>4 DEF Answering
<1>6. G # <<>> /\ G[1] = F[2] /\ G[Len(G)] = F[Len(F)] /\ 1 \in DOMAIN F /\ 1 + 1 \in DOMAIN F
  BY <1>4, <1>5
<1>7. Within(F[1].line, F[2].line) /\ F[2].cmd = F[1].cmd
  BY <1>3, <1>6 DEF Answering, Follows
<1>8. \A i \in DOMAIN F : F[i].cmd \in Commands
  BY TokenEntries
<1>9. \A i \in DOMAIN G : Waiting(G[i].cmd)' /\ Says(kind'[G[i].cmd], G[i].line)
  BY <1>3, <1>4, <1>8 DEF Answering
<1>10. \A i \in DOMAIN G : i + 1 \in DOMAIN G => Follows(G[i], G[i + 1])
  BY <1>3, <1>4 DEF Answering
<1>11. \A i, j \in DOMAIN G : i < j =>
          G[i].cmd <= G[j].cmd /\ (Last(G[i].line) => G[i].cmd < G[j].cmd)
  BY <1>3, <1>4 DEF Answering
<1>12. Last(G[Len(G)].line) /\ \A c \in Commands : Waiting(c)' => G[1].cmd <= c
  BY <1>3, <1>6, <1>7 DEF Answering
<1>13. Answering(G)'
  BY <1>9, <1>10, <1>11, <1>12 DEF Answering
<1>14. Asking(G, T)'
  <2>1. \A c \in Commands : Issued(c)' <=> Issued(c)
    BY DEF Issued
  <2>2. T # <<>> => Len(T) \in DOMAIN T
    OBVIOUS
  <2>3. \A i \in DOMAIN T : Waiting(T[i])'
    BY <1>3 DEF Asking
  <2> QED
    BY <1>3, <1>6, <2>1, <2>3 DEF Asking
<1> QED
  BY <1>1, <1>3, <1>6, <1>7, <1>13, <1>14

LEMMA LastIsLast ==
    ASSUME NEW l, NEW m, Last(l)
    PROVE  ~Within(l, m)
<1>1. l \notin {"VALUE", "CONFIG", "data", "EMPTY", "blank", "STAT"}
  BY DEF Last
<1> QED
  BY <1>1 DEF Within

\* The last line of an answer is taken off the stream, and settles the command.
LEMMA SettleStream ==
    ASSUME ChannelInv, NEW s \in Sockets, Stream(s), fromServer[s] # <<>>,
           Last(fromServer[s][1].line),
           fromServer'[s] = Tail(fromServer[s]), toServer' = toServer, kind' = kind,
           \A c \in Commands : Waiting(c)' <=> Waiting(c) /\ c # fromServer[s][1].cmd
    PROVE  /\ Answering(fromServer[s])' /\ Asking(fromServer[s], toServer[s])'
           /\ fromServer'[s] # <<>> => First(fromServer'[s][1].line)
<1>1. PICK F \in Seq(TokenType), T \in Seq(Commands) : F = fromServer[s] /\ T = toServer[s]
  BY StreamShapes
<1>2. PICK G : G = Tail(F)
  OBVIOUS
<1>3. /\ F # <<>> /\ Last(F[1].line) /\ Answering(F) /\ Asking(F, T)
      /\ fromServer'[s] = G /\ toServer'[s] = T
      /\ \A c \in Commands : Waiting(c)' <=> Waiting(c) /\ c # F[1].cmd
  BY <1>1, <1>2 DEF Stream
<1>4. /\ G \in Seq(TokenType) /\ Len(F) \in Nat \ {0} /\ Len(G) = Len(F) - 1
      /\ DOMAIN F = 1 .. Len(F) /\ DOMAIN G = 1 .. Len(F) - 1
      /\ \A i \in DOMAIN G : i + 1 \in DOMAIN F /\ G[i] = F[i + 1]
      /\ G # <<>> <=> Len(F) > 1
  BY <1>2, <1>3, TailEntries
<1>5. 1 \in DOMAIN F /\ Len(F) \in DOMAIN F /\ \A i \in DOMAIN F : F[i].cmd \in Commands
  BY <1>4, TokenEntries
<1>6. \A i \in DOMAIN G : F[1].cmd < G[i].cmd
  BY <1>3, <1>4, <1>5 DEF Answering
<1>7. G # <<>> => /\ 1 \in DOMAIN G /\ 1 + 1 \in DOMAIN F /\ G[1] = F[2] /\ G[Len(G)] = F[Len(F)]
                  /\ G[1].cmd = F[1].cmd + 1 /\ First(G[1].line)
  <2> SUFFICES ASSUME G # <<>>
               PROVE  /\ 1 \in DOMAIN G /\ 1 + 1 \in DOMAIN F /\ G[1] = F[2] /\ G[Len(G)] = F[Len(F)]
                      /\ G[1].cmd = F[1].cmd + 1 /\ First(G[1].line)
    OBVIOUS
  <2>1. 1 \in DOMAIN G /\ 1 + 1 \in DOMAIN F /\ G[1] = F[2] /\ G[Len(G)] = F[Len(F)]
    BY <1>4
  <2>2. Follows(F[1], F[1 + 1])
    BY <1>3, <1>5, <2>1 DEF Answering
  <2>3. ~Within(F[1].line, F[1 + 1].line)
    BY <1>3, LastIsLast
  <2> QED
    BY <2>1, <2>2, <2>3 DEF Follows
<1>8. \A i \in DOMAIN G : Waiting(G[i].cmd)' /\ Says(kind'[G[i].cmd], G[i].line)
  <2> TAKE i \in DOMAIN G
  <2>1. /\ i + 1 \in DOMAIN F /\ G[i] = F[i + 1] /\ G[i].cmd \in Commands /\ F[1].cmd \in Commands
        /\ F[1].cmd < G[i].cmd
    BY <1>4, <1>5, <1>6
  <2>2. Waiting(G[i].cmd) /\ Says(kind[G[i].cmd], G[i].line)
    BY <1>3, <2>1 DEF Answering
  <2>3. G[i].cmd # F[1].cmd
    BY <2>1, StreamShapes
  <2> QED
    BY <1>3, <2>1, <2>2, <2>3
<1>9. \A i \in DOMAIN G : i + 1 \in DOMAIN G => Follows(G[i], G[i + 1])
  BY <1>3, <1>4 DEF Answering
<1>10. \A i, j \in DOMAIN G : i < j =>
          G[i].cmd <= G[j].cmd /\ (Last(G[i].line) => G[i].cmd < G[j].cmd)
  BY <1>3, <1>4 DEF Answering
<1>11. \A c \in Commands : Waiting(c)' => F[1].cmd + 1 <= c
  BY <1>3, <1>5, StreamShapes DEF Answering
<1>12. G # <<>> => Last(G[Len(G)].line) /\ \A c \in Commands : Waiting(c)' => G[1].cmd <= c
  BY <1>3, <1>7, <1>11 DEF Answering
<1>13. Answering(G)'
  BY <1>8, <1>9, <1>10, <1>12 DEF Answering
<1>14. Asking(G, T)'
  <2>1. \A c \in Commands : Issued(c)' <=> Issued(c)
    BY DEF Issued
  <2>2. F[1].cmd <= F[Len(F)].cmd
    BY <1>3, <1>4, <1>5, StreamShapes DEF Answering
  <2>3. \A i \in DOMAIN T : T[i] \in Commands /\ T[1] <= T[i] /\ 1 \in DOMAIN T
    <3> TAKE i \in DOMAIN T
    <3>1. 1 \in DOMAIN T /\ T[i] \in Commands /\ (i = 1 \/ 1 < i)
      OBVIOUS
    <3> QED
      BY <1>3, <3>1, StreamShapes DEF Asking
  <2>4. \A i \in DOMAIN T : Waiting(T[i])'
    <3> TAKE i \in DOMAIN T
    <3>1. T # <<>> /\ T[1] = F[Len(F)].cmd + 1
      BY <1>3 DEF Asking
    <3>2. T[i] # F[1].cmd
      BY <1>5, <2>2, <2>3, <3>1, StreamShapes
    <3> QED
      BY <1>3, <2>3, <3>2 DEF Asking
  <2>5. T # <<>> /\ G = <<>> => \A c \in Commands : Waiting(c)' => T[1] <= c
    BY <1>3, <1>4, <1>11 DEF Asking
  <2>6. T = <<>> /\ G = <<>> => \A c \in Commands : ~Waiting(c)'
    <3> SUFFICES ASSUME T = <<>>, G = <<>>, NEW c \in Commands, Waiting(c)' PROVE FALSE
      OBVIOUS
    <3>1. Len(F) = 1
      BY <1>4
    <3>2. Issued(c)
      BY <1>3 DEF ChannelInv, Rules, OrderInv, DeliveryInv, NothingLost
    <3>3. c <= F[1].cmd
      BY <1>3, <3>1, <3>2 DEF Asking
    <3> QED
      BY <1>5, <1>11, <3>3, StreamShapes
  <2> QED
    BY <1>3, <1>7, <2>1, <2>4, <2>5, <2>6 DEF Asking
<1> QED
  BY <1>1, <1>3, <1>7, <1>13, <1>14

\* What memcached answers starts, goes on and ends as Says, Within and Last say.
WellFormed(k, reply) ==
    /\ reply # <<>>
    /\ \A i \in DOMAIN reply : Says(k, reply[i]) /\ (Last(reply[i]) <=> i = Len(reply))
    /\ \A i \in DOMAIN reply : i + 1 \in DOMAIN reply => Within(reply[i], reply[i + 1])
    /\ First(reply[1])

LEMMA OneLine ==
    ASSUME NEW k, NEW a, Says(k, a), Last(a), First(a)
    PROVE  WellFormed(k, <<a>>)
<1>1. DOMAIN <<a>> = {1} /\ Len(<<a>>) = 1 /\ <<a>>[1] = a /\ <<a>> # <<>>
  OBVIOUS
<1> QED
  BY <1>1 DEF WellFormed

LEMMA TwoLines ==
    ASSUME NEW k, NEW a, NEW b, Says(k, a), Says(k, b), First(a), ~Last(a), Last(b), Within(a, b)
    PROVE  WellFormed(k, <<a, b>>)
<1>1. DOMAIN <<a, b>> = {1, 2} /\ Len(<<a, b>>) = 2 /\ <<a, b>>[1] = a /\ <<a, b>>[2] = b
      /\ <<a, b>> # <<>>
  OBVIOUS
<1> QED
  BY <1>1 DEF WellFormed

LEMMA ThreeLines ==
    ASSUME NEW k, NEW a, NEW b, NEW c, Says(k, a), Says(k, b), Says(k, c), First(a),
           ~Last(a), ~Last(b), Last(c), Within(a, b), Within(b, c)
    PROVE  WellFormed(k, <<a, b, c>>)
<1>1. DOMAIN <<a, b, c>> = {1, 2, 3} /\ Len(<<a, b, c>>) = 3 /\ <<a, b, c>>[1] = a
      /\ <<a, b, c>>[2] = b /\ <<a, b, c>>[3] = c /\ <<a, b, c>> # <<>>
  OBVIOUS
<1> QED
  BY <1>1 DEF WellFormed

LEMMA ReplyShape ==
    ASSUME NEW k \in {"none", "single", "multi", "stats", "config"}, NEW reply \in Replies(k)
    PROVE  reply \in Seq(Lines) /\ WellFormed(k, reply)
<1>1. k # "none"
  BY DEF Replies
<1>2. reply \in Seq(Lines)
  BY <1>1, RepliesAreLines DEF AllKinds
<1>3. \A l \in {"STORED", "END", "ERROR"} : Last(l) /\ First(l)
  BY DEF Last, First
<1>4. CASE k = "single"
  <2>1. Says(k, "STORED") /\ Says(k, "ERROR")
    BY <1>4 DEF Says
  <2>2. WellFormed(k, <<"STORED">>) /\ WellFormed(k, <<"ERROR">>)
    BY <1>3, <2>1, OneLine
  <2> QED
    BY <1>2, <1>4, <2>2, Zenon DEF Replies
<1>5. CASE k = "multi"
  <2>1. \A l \in {"VALUE", "data", "EMPTY", "blank", "END", "ERROR"} : Says(k, l)
    BY <1>5 DEF Says
  <2>2. WellFormed(k, <<"END">>) /\ WellFormed(k, <<"ERROR">>)
    BY <1>3, <2>1, OneLine
  <2>3. WellFormed(k, <<"VALUE", "data", "END">>) /\ WellFormed(k, <<"EMPTY", "blank", "END">>)
    <3>1. /\ First("VALUE") /\ First("EMPTY") /\ Last("END")
          /\ ~Last("VALUE") /\ ~Last("data") /\ ~Last("EMPTY") /\ ~Last("blank")
      BY DEF First, Last
    <3>2. Within("VALUE", "data") /\ Within("data", "END") /\ Within("EMPTY", "blank") /\ Within("blank", "END")
      BY DEF Within
    <3> QED
      BY <2>1, <3>1, <3>2, ThreeLines
  <2> QED
    BY <1>2, <1>5, <2>2, <2>3, Zenon DEF Replies
<1>6. CASE k = "stats"
  <2>1. \A l \in {"STAT", "END", "ERROR"} : Says(k, l)
    BY <1>6 DEF Says
  <2>2. WellFormed(k, <<"ERROR">>)
    BY <1>3, <2>1, OneLine
  <2>3. WellFormed(k, <<"STAT", "END">>)
    <3>1. First("STAT") /\ Last("END") /\ ~Last("STAT") /\ Within("STAT", "END")
      BY DEF First, Last, Within
    <3> QED
      BY <2>1, <3>1, TwoLines
  <2> QED
    BY <1>2, <1>6, <2>2, <2>3, Zenon DEF Replies
<1>7. CASE k = "config"
  <2>1. \A l \in {"CONFIG", "data", "END", "ERROR"} : Says(k, l)
    BY <1>7 DEF Says
  <2>2. WellFormed(k, <<"END">>) /\ WellFormed(k, <<"ERROR">>)
    BY <1>3, <2>1, OneLine
  <2>3. WellFormed(k, <<"CONFIG", "data", "END">>)
    <3>1. First("CONFIG") /\ Last("END") /\ ~Last("CONFIG") /\ ~Last("data")
      BY DEF First, Last
    <3>2. Within("CONFIG", "data") /\ Within("data", "END")
      BY DEF Within
    <3> QED
      BY <2>1, <3>1, <3>2, ThreeLines
  <2> QED
    BY <1>2, <1>7, <2>2, <2>3, Zenon DEF Replies
<1> QED
  BY <1>1, <1>4, <1>5, <1>6, <1>7

\* The server's answer to the next command goes to the end of the stream.
LEMMA AnswerStream ==
    ASSUME ChannelInv, NEW s \in Sockets, Stream(s), toServer[s] # <<>>,
           NEW reply \in Replies(kind[Head(toServer[s])]),
           fromServer'[s] = fromServer[s]
               \o [i \in DOMAIN reply |-> [line |-> reply[i], cmd |-> Head(toServer[s])]],
           toServer'[s] = Tail(toServer[s]), kind' = kind,
           \A c \in Commands : Waiting(c)' <=> Waiting(c)
    PROVE  /\ Answering(fromServer[s])' /\ Asking(fromServer[s], toServer[s])'
           /\ fromServer'[s] # <<>>
           /\ fromServer[s] # <<>> => fromServer'[s][1] = fromServer[s][1]
           /\ fromServer[s] = <<>> => First(fromServer'[s][1].line)
<1>1. PICK F \in Seq(TokenType), T \in Seq(Commands) : F = fromServer[s] /\ T = toServer[s]
  BY StreamShapes
<1>2. PICK c \in Commands : c = T[1] /\ c = Head(T)
  BY <1>1
<1>3. PICK R : R = [i \in DOMAIN reply |-> [line |-> reply[i], cmd |-> c]]
  OBVIOUS
<1>4. PICK G, U : G = F \o R /\ U = Tail(T)
  OBVIOUS
<1>5. /\ T # <<>> /\ Answering(F) /\ Asking(F, T) /\ reply \in Replies(kind[c])
      /\ fromServer'[s] = G /\ toServer'[s] = U
  BY <1>1, <1>2, <1>3, <1>4 DEF Stream
<1>6. kind[c] \in {"none", "single", "multi", "stats", "config"}
  BY DEF ChannelInv, Rules, Obeyed
<1>7. reply \in Seq(Lines) /\ WellFormed(kind[c], reply)
  BY <1>5, <1>6, ReplyShape
<1>8. /\ R \in Seq(TokenType) /\ Len(R) = Len(reply) /\ Len(R) \in Nat \ {0} /\ DOMAIN R = 1 .. Len(R)
      /\ \A i \in 1 .. Len(R) : R[i].cmd = c /\ R[i].line = reply[i]
  <2>1. R \in Seq(TokenType)
    BY <1>3, <1>7, TokensOfReply
  <2>2. DOMAIN reply = 1 .. Len(reply) /\ Len(reply) \in Nat \ {0}
    BY <1>7 DEF WellFormed
  <2>3. DOMAIN R = 1 .. Len(reply)
    BY <1>3, <2>2
  <2>4. Len(R) = Len(reply) /\ DOMAIN R = 1 .. Len(R)
    BY <2>1, <2>2, <2>3
  <2> QED
    BY <1>3, <2>1, <2>2, <2>3, <2>4
<1>9. /\ G \in Seq(TokenType) /\ Len(G) = Len(F) + Len(R) /\ DOMAIN G = 1 .. Len(F) + Len(R)
      /\ \A i \in 1 .. Len(F) : G[i] = F[i]
      /\ \A i \in 1 .. Len(R) : G[Len(F) + i] = R[i]
      /\ Len(F) \in Nat /\ DOMAIN F = 1 .. Len(F)
  <2>1. Len(F) \in Nat /\ DOMAIN F = 1 .. Len(F)
    OBVIOUS
  <2> QED
    BY <1>4, <1>8, <2>1, JoinEntries
<1>10. \A i \in DOMAIN R : /\ Says(kind[c], R[i].line) /\ (Last(R[i].line) <=> i = Len(R))
                           /\ i + 1 \in DOMAIN R => Within(R[i].line, R[i + 1].line)
  BY <1>7, <1>8 DEF WellFormed
<1>11. First(R[1].line)
  BY <1>7, <1>8 DEF WellFormed
<1>12. \A i \in DOMAIN G : i \in DOMAIN F \/ (i - Len(F) \in DOMAIN R /\ G[i] = R[i - Len(F)] /\ i > Len(F))
  <2> TAKE i \in DOMAIN G
  <2>1. CASE i <= Len(F)
    BY <1>9, <2>1
  <2>2. CASE i > Len(F)
    <3>1. i - Len(F) \in 1 .. Len(R) /\ Len(F) + (i - Len(F)) = i
      BY <1>8, <1>9, <2>2
    <3> QED
      BY <1>8, <1>9, <2>2, <3>1
  <2> QED
    BY <1>9, <2>1, <2>2
<1>13. \A i \in DOMAIN F : F[i].cmd \in Commands
  BY TokenEntries
<1>14. Waiting(c) /\ kind' = kind /\ (F # <<>> => c = F[Len(F)].cmd + 1 /\ Len(F) \in DOMAIN F)
       /\ (F = <<>> => \A d \in Commands : Waiting(d) => c <= d)
  <2>1. 1 \in DOMAIN T
    BY <1>5
  <2>2. F # <<>> => Len(F) \in DOMAIN F
    OBVIOUS
  <2> QED
    BY <1>2, <1>5, <2>1, <2>2 DEF Asking
<1>15. F # <<>> => \A i \in DOMAIN F : F[i].cmd < c
  <2> SUFFICES ASSUME F # <<>>, NEW i \in DOMAIN F PROVE F[i].cmd < c
    OBVIOUS
  <2>1. i = Len(F) \/ i < Len(F)
    BY <1>9
  <2>2. F[i].cmd <= F[Len(F)].cmd /\ F[Len(F)].cmd \in Commands /\ F[i].cmd \in Commands
    BY <1>5, <1>13, <1>14, <2>1, StreamShapes DEF Answering
  <2>3. c = F[Len(F)].cmd + 1
    BY <1>14
  <2> QED
    BY <2>2, <2>3 DEF Commands
<1>16. \A i \in DOMAIN F : i \in DOMAIN G /\ G[i] = F[i]
  BY <1>8, <1>9
<1>17. G # <<>> /\ G[Len(G)] = R[Len(R)] /\ 1 \in DOMAIN G
       /\ (F # <<>> => G[1] = F[1] /\ 1 \in DOMAIN F) /\ (F = <<>> => G[1] = R[1])
  <2>1. G[Len(G)] = R[Len(R)] /\ 1 \in DOMAIN G
    BY <1>8, <1>9
  <2>2. F # <<>> => 1 \in DOMAIN F
    OBVIOUS
  <2>3. F = <<>> => Len(F) = 0
    OBVIOUS
  <2>4. F = <<>> => G[1] = R[1]
    BY <1>8, <1>9, <2>3
  <2>5. G # <<>>
    BY <1>8, <1>9
  <2> QED
    BY <1>16, <2>1, <2>2, <2>4, <2>5
<1>18. \A i \in DOMAIN G : Waiting(G[i].cmd)' /\ Says(kind'[G[i].cmd], G[i].line)
  <2> TAKE i \in DOMAIN G
  <2>1. CASE i \in DOMAIN F
    BY <1>5, <1>13, <1>14, <1>16, <2>1 DEF Answering
  <2>2. CASE i - Len(F) \in DOMAIN R /\ G[i] = R[i - Len(F)]
    BY <1>8, <1>10, <1>14, <2>2
  <2> QED
    BY <1>12, <2>1, <2>2
<1>19. \A i \in DOMAIN G : i + 1 \in DOMAIN G => Follows(G[i], G[i + 1])
  <2> SUFFICES ASSUME NEW i \in DOMAIN G, i + 1 \in DOMAIN G PROVE Follows(G[i], G[i + 1])
    OBVIOUS
  <2>1. CASE i + 1 \in DOMAIN F
    BY <1>5, <1>9, <1>16, <2>1 DEF Answering
  <2>2. CASE i \in DOMAIN F /\ i + 1 \notin DOMAIN F
    <3>1. i = Len(F) /\ F # <<>>
      BY <1>9, <2>2
    <3>2. G[i + 1] = R[1] /\ G[i] = F[Len(F)]
      BY <1>8, <1>9, <1>16, <2>2, <3>1
    <3>3. Last(F[Len(F)].line) /\ R[1].cmd = F[Len(F)].cmd + 1
      BY <1>5, <1>8, <1>14, <3>1 DEF Answering
    <3> QED
      BY <1>11, <3>2, <3>3 DEF Follows
  <2>3. CASE i \notin DOMAIN F
    <3>1. PICK j \in DOMAIN R : j = i - Len(F) /\ G[i] = R[j] /\ j + 1 = i + 1 - Len(F)
      BY <1>8, <1>9, <1>12, <2>3
    <3>2. j + 1 \in DOMAIN R /\ G[i + 1] = R[j + 1]
      BY <1>8, <1>9, <2>3, <3>1
    <3>3. Within(R[j].line, R[j + 1].line) /\ R[j].cmd = R[j + 1].cmd
      BY <1>8, <1>10, <3>2
    <3> QED
      BY <3>1, <3>2, <3>3 DEF Follows
  <2> QED
    BY <2>1, <2>2, <2>3
<1>20. \A i, j \in DOMAIN G : i < j =>
          G[i].cmd <= G[j].cmd /\ (Last(G[i].line) => G[i].cmd < G[j].cmd)
  <2> SUFFICES ASSUME NEW i \in DOMAIN G, NEW j \in DOMAIN G, i < j
               PROVE  G[i].cmd <= G[j].cmd /\ (Last(G[i].line) => G[i].cmd < G[j].cmd)
    OBVIOUS
  <2>1. CASE j \in DOMAIN F
    <3>1. i \in DOMAIN F
      BY <1>9, <2>1
    <3> QED
      BY <1>5, <1>16, <2>1, <3>1 DEF Answering
  <2>2. CASE i \in DOMAIN F /\ j \notin DOMAIN F
    <3>1. G[j].cmd = c
      BY <1>8, <1>12, <2>2
    <3>2. F[i].cmd < c /\ F[i].cmd \in Commands
      BY <1>13, <1>15, <2>2
    <3> QED
      BY <1>16, <2>2, <3>1, <3>2, StreamShapes
  <2>3. CASE i \notin DOMAIN F
    <3>1. j \notin DOMAIN F
      BY <1>9, <2>3
    <3>2. i - Len(F) \in DOMAIN R /\ G[i] = R[i - Len(F)] /\ j - Len(F) \in DOMAIN R
          /\ G[j] = R[j - Len(F)]
      BY <1>12, <2>3, <3>1
    <3>3. i - Len(F) # Len(R)
      BY <1>8, <1>9
    <3>4. ~Last(G[i].line) /\ G[i].cmd = c /\ G[j].cmd = c
      BY <1>8, <1>10, <3>2, <3>3
    <3> QED
      BY <3>4, StreamShapes
  <2> QED
    BY <2>1, <2>2, <2>3
<1>21. Last(G[Len(G)].line) /\ \A d \in Commands : Waiting(d)' => G[1].cmd <= d
  <2>1. 1 \in DOMAIN R /\ Len(R) \in DOMAIN R
    BY <1>8
  <2>2. Last(R[Len(R)].line) /\ R[1].cmd = c
    BY <1>8, <1>10, <2>1
  <2> QED
    BY <1>5, <1>14, <1>17, <2>2 DEF Answering
<1>22. Answering(G)'
  BY <1>18, <1>19, <1>20, <1>21 DEF Answering
<1>23. Asking(G, U)'
  <2>1. /\ U \in Seq(Commands) /\ Len(T) \in Nat \ {0} /\ Len(U) = Len(T) - 1
        /\ DOMAIN T = 1 .. Len(T) /\ DOMAIN U = 1 .. Len(T) - 1
        /\ \A i \in DOMAIN U : i + 1 \in DOMAIN T /\ U[i] = T[i + 1]
        /\ U # <<>> <=> Len(T) > 1
    <3>1. T # <<>> /\ U = Tail(T)
      BY <1>4, <1>5
    <3> QED
      BY <3>1, TailEntries
  <2>2. \A d \in Commands : Issued(d)' <=> Issued(d)
    BY DEF Issued
  <2>3. \A i \in DOMAIN U : Waiting(U[i])'
    <3> TAKE i \in DOMAIN U
    <3>1. i + 1 \in DOMAIN T /\ U[i] = T[i + 1] /\ T[i + 1] \in Commands
      BY <2>1
    <3> QED
      BY <1>5, <3>1 DEF Asking
  <2>4. \A i \in DOMAIN U : i + 1 \in DOMAIN U => U[i + 1] = U[i] + 1
    BY <1>5, <2>1 DEF Asking
  <2>5. \A i, j \in DOMAIN U : i < j => U[i] < U[j]
    BY <1>5, <2>1 DEF Asking
  <2>6. G[Len(G)].cmd = c
    BY <1>8, <1>17
  <2>7. U # <<>> => /\ U[1] = c + 1
                    /\ \A d \in Commands : Issued(d) => d <= U[Len(U)]
    <3> SUFFICES ASSUME U # <<>>
                 PROVE  U[1] = c + 1 /\ \A d \in Commands : Issued(d) => d <= U[Len(U)]
      OBVIOUS
    <3>1. 1 \in DOMAIN T /\ 1 + 1 \in DOMAIN T /\ U[1] = T[1 + 1] /\ U[Len(U)] = T[Len(T)]
      <4>1. Len(T) > 1 /\ Len(T) \in Nat
        BY <2>1
      <4>2. 1 \in DOMAIN U /\ Len(U) \in DOMAIN U /\ Len(U) + 1 = Len(T) /\ 1 \in DOMAIN T
        BY <2>1, <4>1
      <4> QED
        BY <2>1, <4>2
    <3> QED
      BY <1>2, <1>5, <3>1 DEF Asking
  <2>8. U = <<>> => \A d \in Commands : Issued(d) => d <= c
    <3> SUFFICES ASSUME U = <<>> PROVE \A d \in Commands : Issued(d) => d <= c
      OBVIOUS
    <3>1. Len(T) = 1
      BY <2>1
    <3> QED
      BY <1>2, <1>5, <3>1 DEF Asking
  <2> QED
    BY <1>17, <2>2, <2>3, <2>4, <2>5, <2>6, <2>7, <2>8 DEF Asking
<1> QED
  BY <1>1, <1>5, <1>11, <1>17, <1>22, <1>23

-----------------------------------------------------------------------------
\* The steps

LEMMA StreamKept ==
    ASSUME NEW s \in Sockets, Stream(s), fromServer'[s] = fromServer[s], toServer'[s] = toServer[s],
           UNCHANGED <<multilineData, pendingValue, buffer, commandQueue, currentCommand, kind, foundKeys>>
    PROVE  Stream(s)'
BY DEF Stream, Answering, Asking, Between, Inside, Waiting, Issued

\* One socket lives, so there is one stream.
LEMMA OneStream ==
    ASSUME ChannelInv, NEW s \in Sockets, Alive(s), Stream(s)', socketState' = socketState
    PROVE  Streams'
<1>1. \A t \in Sockets : Alive(t)' => t = s
  BY DEF ChannelInv, OrderInv, SocketOrder, Current, Alive
<1> QED
  BY <1>1 DEF Streams

\* The commands and their outcomes stay as they are, or are rejected.
LEMMA NothingResolved ==
    ASSUME ChannelInv, UNCHANGED <<kind, foundKeys, quitting>>,
           \A c \in Commands : outcome'[c] = outcome[c] \/ outcome'[c].how = "closed"
    PROVE  Obeyed' /\ ValuesAligned'
BY DEF ChannelInv, Rules, Obeyed, ValuesAligned, Issued

LEMMA ChannelReconnect ==
    ASSUME ChannelInv, NEW s \in Sockets, ReconnectWithSocket(s)
    PROVE  Rules'
<1>1. /\ CreateConnection(s, Destroy(socket))
      /\ toServer' = Drop(toServer, socket) /\ fromServer' = Drop(fromServer, socket)
      /\ RejectPendingCommands(None)
      /\ multilineData' = <<>> /\ pendingValue' = FALSE /\ buffer' = NoLine
      /\ UNCHANGED <<kind, foundKeys, quitting>>
  BY DEF ReconnectWithSocket
<1>2. \A c \in Commands : ~Waiting(c)'
  BY <1>1, RejectKeepsDelivery DEF ChannelInv, OrderInv
<1>3. Obeyed' /\ ValuesAligned'
  BY <1>1, NothingResolved DEF RejectPendingCommands
<1>4. /\ socketState[s] = "none" /\ socket' = s /\ socketState' = [Destroy(socket) EXCEPT ![s] = "connecting"]
      /\ currentCommand' = None
  BY <1>1 DEF CreateConnection, RejectPendingCommands
<1>5. \A t \in Sockets : /\ t # s => ~Alive(t)'
                         /\ socketState'[t] = "none" => socketState[t] = "none"
  BY <1>4, OrderShapes DEF ChannelInv, OrderInv, SocketOrder, Current, Destroy, Alive
<1>6. \A t \in Sockets : socketState[t] = "none" => fromServer'[t] = <<>> /\ toServer'[t] = <<>>
  BY <1>1 DEF Drop, ChannelInv, Rules, Starting
<1>7. Starting'
  BY <1>2, <1>4, <1>5, <1>6, OrderShapes DEF Starting, ChannelInv
<1>8. Stream(s)'
  <2>1. fromServer'[s] = <<>> /\ toServer'[s] = <<>>
    BY <1>4, <1>6
  <2>2. \A i : i \notin DOMAIN <<>>
    OBVIOUS
  <2>3. Answering(<<>>)' /\ Asking(<<>>, <<>>)'
    BY <1>2, <2>2 DEF Answering, Asking
  <2>4. Between(<<>>)'
    BY <1>1, <1>2, <1>4 DEF Between
  <2> QED
    BY <1>1, <2>1, <2>3, <2>4 DEF Stream, NoLine
<1> QED
  BY <1>3, <1>5, <1>7, <1>8 DEF Rules, Streams

LEMMA ChannelReconnectFresh ==
    ASSUME ChannelInv, NEW s \in Sockets, ReconnectFresh(s)
    PROVE  Rules'
<1>1. /\ CreateConnection(s, socketState) /\ socket = None
      /\ UNCHANGED <<multilineData, pendingValue, buffer, commandQueue, currentCommand, kind, foundKeys,
                     outcome, quitting, toServer, fromServer>>
  BY DEF ReconnectFresh, parserVars, commandVars
<1>2. /\ \A t \in Sockets : socketState[t] = "none" /\ fromServer[t] = <<>> /\ toServer[t] = <<>>
      /\ currentCommand = None /\ commandQueue = <<>>
      /\ ~pendingValue /\ multilineData = <<>> /\ buffer = NoLine
  BY <1>1 DEF ChannelInv, Rules, Starting
<1>3. \A c \in Commands : ~Waiting(c)'
  BY <1>1, <1>2 DEF Waiting, Commands, None
<1>4. Obeyed' /\ ValuesAligned'
  BY <1>1, NothingResolved
<1>5. socket' = s /\ socketState' = [socketState EXCEPT ![s] = "connecting"]
  BY <1>1 DEF CreateConnection
<1>6. \A t \in Sockets : t # s => ~Alive(t)'
  BY <1>2, <1>5, OrderShapes DEF ChannelInv, Alive
<1>7. Starting'
  BY <1>1, <1>2, <1>3, <1>5, OrderShapes DEF Starting, ChannelInv
<1>8. Stream(s)'
  <2>1. \A i : i \notin DOMAIN <<>>
    OBVIOUS
  <2>2. Answering(<<>>)' /\ Asking(<<>>, <<>>)'
    BY <1>3, <2>1 DEF Answering, Asking
  <2>3. Between(<<>>)'
    BY <1>1, <1>2, <1>3 DEF Between
  <2> QED
    BY <1>1, <1>2, <2>2, <2>3 DEF Stream, NoLine
<1> QED
  BY <1>4, <1>6, <1>7, <1>8 DEF Rules, Streams

LEMMA ChannelReady ==
    ASSUME ChannelInv, NEW s \in Sockets, Ready(s)
    PROVE  Rules'
<1>1. /\ socketState[s] = "connecting" /\ socketState' = [socketState EXCEPT ![s] = "open"]
      /\ UNCHANGED <<socket, multilineData, pendingValue, buffer, commandQueue, currentCommand, kind,
                     foundKeys, outcome, quitting, toServer, fromServer>>
  BY DEF Ready, parserVars, commandVars
<1>2. \A t \in Sockets : /\ Alive(t)' => Alive(t)
                         /\ socketState'[t] \in {"none", "connecting"} => socketState'[t] = socketState[t]
  BY <1>1, OrderShapes DEF ChannelInv, Alive
<1>3. \A t \in Sockets : Alive(t) => Stream(t)'
  BY <1>1, StreamKept DEF ChannelInv, Rules, Streams
<1>4. Obeyed' /\ ValuesAligned'
  BY <1>1, NothingResolved
<1>5. socket # None
  BY <1>1, OrderShapes DEF ChannelInv, OrderInv, SocketOrder, Current, Alive
<1>6. Starting'
  BY <1>1, <1>2, <1>5 DEF ChannelInv, Rules, Starting, Waiting
<1> QED
  BY <1>2, <1>3, <1>4, <1>6 DEF Rules, Streams

\* 'error' and 'timeout' end the one socket that lives.
LEMMA ChannelKills ==
    ASSUME ChannelInv, NEW s \in Sockets, Error(s) \/ Timeout(s)
    PROVE  Rules'
<1>1. /\ s = socket /\ Alive(s) /\ DestroySocket(s)
      /\ UNCHANGED <<socket, multilineData, pendingValue, buffer, commandQueue, currentCommand, kind,
                     foundKeys, outcome, quitting>>
  BY DEF Error, Timeout, parserVars, commandVars, ChannelInv, OrderInv, SocketOrder, Current
<1>2. \A t \in Sockets : ~Alive(t)' /\ (socketState'[t] = "none" => socketState[t] = "none")
  BY <1>1, OrderShapes DEF ChannelInv, OrderInv, SocketOrder, Current, DestroySocket, Destroy, Alive
<1>3. \A t \in Sockets : socketState[t] = "none" => fromServer'[t] = <<>> /\ toServer'[t] = <<>>
  BY <1>1 DEF DestroySocket, Drop, ChannelInv, Rules, Starting
<1>4. Obeyed' /\ ValuesAligned'
  BY <1>1, NothingResolved
<1>5. Starting'
  BY <1>1, <1>2, <1>3, OrderShapes DEF ChannelInv, Starting, Alive
<1> QED
  BY <1>2, <1>4, <1>5 DEF Rules, Streams

\* When a socket closes nothing waits at another one.
LEMMA ChannelClose ==
    ASSUME ChannelInv, NEW s \in Sockets, Close(s)
    PROVE  Rules'
<1>1. /\ socketState[s] = "destroyed" /\ socketState' = [socketState EXCEPT ![s] = "closed"]
      /\ RejectPendingCommands(s)
      /\ UNCHANGED <<socket, multilineData, pendingValue, buffer, kind, foundKeys, quitting, toServer,
                     fromServer>>
  BY DEF Close, parserVars
<1>2. \A t \in Sockets : socketState'[t] = IF t = s THEN "closed" ELSE socketState[t]
  BY <1>1, OrderShapes DEF ChannelInv
<1>3. \A c \in Commands : ~Waiting(c)'
  BY <1>1, RejectKeepsDelivery DEF ChannelInv, OrderInv
<1>4. Obeyed' /\ ValuesAligned'
  BY <1>1, NothingResolved DEF RejectPendingCommands
<1>5. socket # None
  BY <1>1 DEF ChannelInv, Rules, Starting
<1>6. Starting'
  BY <1>1, <1>2, <1>3, <1>5 DEF ChannelInv, Rules, Starting
<1>7. ASSUME NEW t \in Sockets, Alive(t)' PROVE Stream(t)'
  <2>1. socketState[t] = "connecting"
    BY <1>1, <1>2, <1>7 DEF Alive, ChannelInv, OrderInv, SocketOrder, Opened
  <2>2. \A c \in Commands : ~Waiting(c)
    BY <2>1 DEF ChannelInv, Rules, Starting
  <2>3. NextCommand = None /\ currentCommand = None /\ commandQueue = <<>>
    BY <2>2, NextIsOldest DEF ChannelInv, OrderInv
  <2>4. UNCHANGED <<commandQueue, currentCommand>>
    BY <1>1, <2>3 DEF RejectPendingCommands
  <2>5. Stream(t)
    BY <2>1 DEF ChannelInv, Rules, Streams, Alive
  <2> QED
    BY <1>1, <2>4, <2>5, StreamKept
<1> QED
  BY <1>4, <1>6, <1>7 DEF Rules, Streams

\* A command that is accepted comes after all that were sent.
LEMMA AskingMore ==
    ASSUME ChannelInv, NEW s \in Sockets, Stream(s), NEW c \in Commands, ~Issued(c),
           \A d \in Commands : d < c => Issued(d),
           fromServer' = fromServer, toServer'[s] = Append(toServer[s], c),
           \A d \in Commands : kind'[d] = IF d = c THEN kind'[c] ELSE kind[d],
           Issued(c)', \A d \in Commands : Waiting(d)' <=> Waiting(d) \/ d = c
    PROVE  Answering(fromServer[s])' /\ Asking(fromServer[s], toServer[s])'
<1>1. PICK F \in Seq(TokenType), T \in Seq(Commands) : F = fromServer[s] /\ T = toServer[s]
  BY StreamShapes
<1>2. PICK U \in Seq(Commands) : U = Append(T, c)
  <2>1. Append(T, c) \in Seq(Commands)
    OBVIOUS
  <2> QED
    BY <2>1
<1>3. Answering(F) /\ Asking(F, T) /\ fromServer'[s] = F /\ toServer'[s] = U
  BY <1>1, <1>2 DEF Stream
<1>4. /\ \A d \in Commands : Issued(d)' <=> Issued(d) \/ d = c
      /\ \A d \in Commands : Waiting(d) => Issued(d)
      /\ \A d, e \in Commands : d < e /\ Issued(e) => Issued(d)
  BY DEF Issued, ChannelInv, OrderInv, DeliveryInv, NothingLost
<1>5. \A d \in Commands : Issued(d) => d < c
  BY <1>4, StreamShapes
<1>6. \A i \in DOMAIN F : F[i].cmd \in Commands /\ Waiting(F[i].cmd) /\ F[i].cmd # c
  BY <1>3, <1>4, TokenEntries DEF Answering
<1>7. \A i \in DOMAIN F : Waiting(F[i].cmd)' /\ Says(kind'[F[i].cmd], F[i].line)
  BY <1>3, <1>6 DEF Answering
<1>8. Answering(F)'
  <2>1. F # <<>> => 1 \in DOMAIN F
    OBVIOUS
  <2>2. F # <<>> => \A d \in Commands : Waiting(d)' => F[1].cmd <= d
    BY <1>3, <1>4, <1>5, <1>6, <2>1, StreamShapes DEF Answering
  <2> QED
    BY <1>3, <1>7, <2>2 DEF Answering
<1>9. \A d \in Commands : (\A e \in Commands : Issued(e) => e <= d) /\ Issued(d) => c = d + 1
  <2> SUFFICES ASSUME NEW d \in Commands, \A e \in Commands : Issued(e) => e <= d, Issued(d)
               PROVE  c = d + 1
    OBVIOUS
  <2>1. d < c
    BY <1>5
  <2>2. c - 1 \in Commands
    BY <2>1, MaxCommandsAssumption DEF Commands
  <2>3. c - 1 <= d
    BY <2>2, StreamShapes DEF Commands
  <2> QED
    BY <2>1, <2>3 DEF Commands
<1>10. /\ Len(T) \in Nat /\ DOMAIN T = 1 .. Len(T) /\ DOMAIN U = 1 .. Len(T) + 1 /\ Len(U) = Len(T) + 1
       /\ U # <<>> /\ U[Len(T) + 1] = c /\ \A i \in DOMAIN T : U[i] = T[i]
  <2>1. Len(T) \in Nat /\ DOMAIN T = 1 .. Len(T)
    OBVIOUS
  <2>2. DOMAIN U = 1 .. Len(T) + 1 /\ Len(U) = Len(T) + 1
    BY <1>2
  <2>3. U # <<>>
    BY <1>2
  <2>4. U[Len(T) + 1] = c /\ \A i \in DOMAIN T : U[i] = T[i]
    BY <1>2, <2>1
  <2> QED
    BY <2>1, <2>2, <2>3, <2>4
<1>11. \A i \in DOMAIN T : T[i] \in Commands /\ Waiting(T[i]) /\ Issued(T[i]) /\ T[i] < c
  <2> TAKE i \in DOMAIN T
  <2>1. T[i] \in Commands
    OBVIOUS
  <2> QED
    BY <1>3, <1>4, <1>5, <2>1 DEF Asking
<1>12. \A i \in DOMAIN U : (i \in DOMAIN T /\ U[i] = T[i]) \/ (i = Len(T) + 1 /\ U[i] = c)
  BY <1>10
<1>13. \A i \in DOMAIN U : Waiting(U[i])'
  BY <1>11, <1>12
<1>14. \A i \in DOMAIN U : i + 1 \in DOMAIN U => U[i + 1] = U[i] + 1
  <2> SUFFICES ASSUME NEW i \in DOMAIN U, i + 1 \in DOMAIN U PROVE U[i + 1] = U[i] + 1
    OBVIOUS
  <2>1. i \in DOMAIN T
    BY <1>10
  <2>2. CASE i + 1 \in DOMAIN T
    BY <1>3, <1>10, <2>1, <2>2 DEF Asking
  <2>3. CASE i = Len(T)
    <3>1. T # <<>>
      BY <2>1
    <3>2. \A d \in Commands : Issued(d) => d <= T[i]
      BY <1>3, <2>3, <3>1 DEF Asking
    <3> QED
      BY <1>9, <1>10, <1>11, <2>1, <2>3, <3>2
  <2> QED
    BY <1>10, <2>1, <2>2, <2>3
<1>15. \A i, j \in DOMAIN U : i < j => U[i] < U[j]
  <2> SUFFICES ASSUME NEW i \in DOMAIN U, NEW j \in DOMAIN U, i < j PROVE U[i] < U[j]
    OBVIOUS
  <2>1. i \in DOMAIN T
    BY <1>10
  <2>2. CASE j \in DOMAIN T
    BY <1>3, <1>10, <2>1, <2>2 DEF Asking
  <2> QED
    BY <1>10, <1>11, <1>12, <2>1, <2>2
<1>16. \A d \in Commands : Issued(d)' => d <= U[Len(U)]
  <2> SUFFICES ASSUME NEW d \in Commands, Issued(d) \/ d = c PROVE d <= c
    BY <1>4, <1>10
  <2> QED
    BY <1>5 DEF Commands
<1>17. F # <<>> => U[1] = F[Len(F)].cmd + 1
  <2> SUFFICES ASSUME F # <<>> PROVE U[1] = F[Len(F)].cmd + 1
    OBVIOUS
  <2>1. CASE T # <<>>
    <3>1. 1 \in DOMAIN T
      BY <2>1
    <3> QED
      BY <1>3, <1>10, <2>1, <3>1 DEF Asking
  <2>2. CASE T = <<>>
    <3>1. Len(F) \in DOMAIN F /\ Len(T) = 0
      BY <2>2
    <3>2. F[Len(F)].cmd \in Commands /\ Issued(F[Len(F)].cmd)
      BY <1>4, <1>6, <3>1
    <3>3. c = F[Len(F)].cmd + 1
      BY <1>3, <1>9, <2>2, <3>2 DEF Asking
    <3> QED
      BY <1>10, <3>1, <3>3
  <2> QED
    BY <2>1, <2>2
<1>18. F = <<>> => \A d \in Commands : Waiting(d)' => U[1] <= d
  <2> SUFFICES ASSUME F = <<>>, NEW d \in Commands, Waiting(d) \/ d = c PROVE U[1] <= d
    OBVIOUS
  <2>1. CASE T # <<>>
    <3>1. 1 \in DOMAIN T
      BY <2>1
    <3>2. Waiting(d) => T[1] <= d
      BY <1>3, <2>1 DEF Asking
    <3>3. T[1] < c /\ T[1] \in Commands
      BY <1>11, <3>1
    <3>4. U[1] = T[1] /\ T[1] <= d
      BY <1>10, <3>1, <3>2, <3>3 DEF Commands
    <3> QED
      BY <3>4
  <2>2. CASE T = <<>>
    <3>1. Len(T) = 0
      BY <2>2
    <3>2. ~Waiting(d)
      BY <1>3, <2>2 DEF Asking
    <3> QED
      BY <1>10, <3>1, <3>2, StreamShapes
  <2> QED
    BY <2>1, <2>2
<1>19. Asking(F, U)'
  BY <1>10, <1>13, <1>14, <1>15, <1>16, <1>17, <1>18 DEF Asking
<1> QED
  BY <1>1, <1>3, <1>8, <1>19

LEMMA ChannelCommand ==
    ASSUME ChannelInv, "raw" \notin Kinds, NEW c \in Commands, NEW k \in Kinds, Command(c, k)
    PROVE  Rules'
<1>1. /\ connected /\ socket \in Sockets /\ ~Issued(c) /\ \A d \in Commands : d < c => Issued(d)
      /\ kind' = [kind EXCEPT ![c] = k] /\ commandQueue' = Append(commandQueue, c)
      /\ toServer' = IF Alive(socket) THEN [toServer EXCEPT ![socket] = Append(@, c)] ELSE toServer
      /\ UNCHANGED <<socket, multilineData, pendingValue, buffer, currentCommand, foundKeys, outcome,
                     socketState, fromServer, quitting>>
  BY OrderShapes DEF Command, Enqueue, parserVars, ChannelInv
<1>2. k \in {"single", "multi", "stats", "config"}
  BY KindsAssumption DEF AllKinds
<1>3. \A d \in Commands : kind'[d] = IF d = c THEN k ELSE kind[d]
  BY <1>1 DEF ChannelInv, OrderInv, TypeOK
<1>4. Issued(c)' /\ ~Settled(c)
  BY <1>1, <1>2, <1>3 DEF Issued, ChannelInv, OrderInv, DeliveryInv
<1>5. Obeyed'
  <2>1. quitting' = {} /\ \A d \in Commands : kind'[d] \in {"none", "single", "multi", "stats", "config"}
    BY <1>1, <1>2, <1>3 DEF ChannelInv, Rules, Obeyed
  <2>2. \A d \in Commands : ~Issued(d)' => foundKeys'[d] = 0
    BY <1>1, <1>3, <1>4 DEF ChannelInv, Rules, Obeyed, Issued
  <2> QED
    BY <2>1, <2>2 DEF Obeyed
<1>6. ValuesAligned'
  BY <1>1, <1>3, <1>4 DEF ChannelInv, Rules, ValuesAligned, Settled
<1>7. \A t \in Sockets : /\ Alive(t) => t = socket /\ socketState[t] = "open"
                         /\ socketState[t] # "connecting"
                         /\ ~Alive(t) => toServer'[t] = toServer[t]
  BY <1>1, OrderShapes DEF ChannelInv, OrderInv, SocketOrder, Current, Handshake, Alive, TypeOK
<1>8. Starting'
  BY <1>1, <1>7, OrderShapes DEF ChannelInv, Rules, Starting, Alive
<1>9. \A d \in Commands : Waiting(d)' <=> Waiting(d) \/ d = c
  <2>1. commandQueue \in Seq(Commands) /\ Len(commandQueue) \in Nat
    BY DEF ChannelInv, OrderInv, TypeOK
  <2>2. /\ Len(commandQueue') = Len(commandQueue) + 1 /\ commandQueue'[Len(commandQueue) + 1] = c
        /\ \A i \in 1 .. Len(commandQueue) : commandQueue'[i] = commandQueue[i]
    BY <1>1, <2>1
  <2> QED
    BY <1>1, <2>1, <2>2 DEF Waiting
<1>10. ASSUME NEW t \in Sockets, Alive(t) PROVE Stream(t)'
  <2>1. t = socket /\ Stream(t) /\ toServer'[t] = Append(toServer[t], c)
    BY <1>1, <1>7, <1>10 DEF ChannelInv, Rules, Streams, OrderInv, TypeOK
  <2>2. Answering(fromServer[t])' /\ Asking(fromServer[t], toServer[t])'
    BY <1>1, <1>3, <1>4, <1>9, <2>1, AskingMore
  <2>3. foundKeys[c] = 0
    BY <1>1 DEF ChannelInv, Rules, Obeyed
  <2>4. CASE Between(fromServer[t])
    <3>1. Between(fromServer[t])'
      BY <1>1, <1>9, <2>3, <2>4 DEF Between
    <3> QED
      BY <1>1, <2>1, <2>2, <3>1 DEF Stream
  <2>5. CASE Inside(fromServer[t])
    <3>1. currentCommand \in Commands /\ currentCommand # c
      <4>1. currentCommand \in Commands /\ Waiting(currentCommand)
        BY <2>5, StreamShapes DEF Inside, Waiting
      <4> QED
        BY <1>1, <4>1 DEF ChannelInv, OrderInv, DeliveryInv, NothingLost
    <3>2. kind'[currentCommand] = kind[currentCommand]
      BY <1>3, <3>1
    <3>3. Inside(fromServer[t])'
      BY <1>1, <1>9, <2>3, <2>5, <3>2 DEF Inside
    <3> QED
      BY <1>1, <2>1, <2>2, <3>3 DEF Stream
  <2> QED
    BY <2>1, <2>4, <2>5 DEF Stream
<1>11. Streams'
  BY <1>1, <1>10 DEF Streams, Alive
<1> QED
  BY <1>5, <1>6, <1>8, <1>11 DEF Rules

LEMMA ChannelPartialData ==
    ASSUME ChannelInv, NEW s \in Sockets, PartialData(s)
    PROVE  Rules'
<1>1. /\ socketState[s] = "open" /\ buffer'.from = s
      /\ UNCHANGED <<socket, multilineData, pendingValue, commandQueue, currentCommand, kind, foundKeys,
                     outcome, quitting, socketState, toServer, fromServer>>
  BY DEF PartialData, commandVars, netVars
<1>2. Obeyed' /\ ValuesAligned'
  BY <1>1, NothingResolved
<1>3. socket # None /\ Alive(s)
  BY <1>1, OrderShapes DEF ChannelInv, OrderInv, SocketOrder, Current, Alive
<1>4. Starting'
  BY <1>1, <1>3 DEF ChannelInv, Rules, Starting, Waiting
<1>5. Stream(s)'
  <2>1. Stream(s)
    BY <1>3 DEF ChannelInv, Rules, Streams
  <2> QED
    BY <1>1, <2>1 DEF Stream, Answering, Asking, Between, Inside, Waiting, Issued
<1> QED
  BY <1>1, <1>2, <1>3, <1>4, <1>5, OneStream DEF Rules

LEMMA ChannelServerReplies ==
    ASSUME ChannelInv, NEW s \in Sockets, ServerReplies(s)
    PROVE  Rules'
<1>1. /\ socketState[s] = "open" /\ toServer[s] # <<>> /\ toServer' = [toServer EXCEPT ![s] = Tail(@)]
      /\ UNCHANGED <<socket, multilineData, pendingValue, buffer, commandQueue, currentCommand, kind,
                     foundKeys, outcome, quitting, socketState>>
  BY DEF ServerReplies, commandVars, parserVars
<1>2. PICK reply \in Replies(kind[Head(toServer[s])]) :
          fromServer' = [fromServer EXCEPT ![s] =
              @ \o [i \in DOMAIN reply |-> [line |-> reply[i], cmd |-> Head(toServer[s])]]]
  BY DEF ServerReplies
<1>3. Obeyed' /\ ValuesAligned'
  BY <1>1, NothingResolved
<1>4. socket # None /\ Alive(s)
  BY <1>1, OrderShapes DEF ChannelInv, OrderInv, SocketOrder, Current, Alive
<1>5. \A t \in Sockets : t # s => fromServer'[t] = fromServer[t] /\ toServer'[t] = toServer[t]
  BY <1>1, <1>2, StreamShapes
<1>6. Starting'
  BY <1>1, <1>4, <1>5 DEF ChannelInv, Rules, Starting, Waiting
<1>7. Stream(s)
  BY <1>4 DEF ChannelInv, Rules, Streams
<1>8. /\ fromServer'[s] = fromServer[s]
            \o [i \in DOMAIN reply |-> [line |-> reply[i], cmd |-> Head(toServer[s])]]
      /\ toServer'[s] = Tail(toServer[s])
  BY <1>1, <1>2, StreamShapes
<1>9. \A c \in Commands : Waiting(c)' <=> Waiting(c)
  BY <1>1 DEF Waiting
<1>10. /\ Answering(fromServer[s])' /\ Asking(fromServer[s], toServer[s])'
       /\ fromServer'[s] # <<>>
       /\ fromServer[s] # <<>> => fromServer'[s][1] = fromServer[s][1]
       /\ fromServer[s] = <<>> => First(fromServer'[s][1].line)
  BY <1>1, <1>7, <1>8, <1>9, AnswerStream
<1>11. Between(fromServer[s]) => Between(fromServer[s])'
  BY <1>1, <1>9, <1>10 DEF Between
<1>12. Inside(fromServer[s]) => Inside(fromServer[s])'
  BY <1>1, <1>9, <1>10 DEF Inside
<1>13. Stream(s)'
  BY <1>1, <1>7, <1>10, <1>11, <1>12 DEF Stream
<1> QED
  BY <1>1, <1>3, <1>4, <1>6, <1>13, OneStream DEF Rules

\* What is read is the first line of the one stream; it is the line or the value
\* of an answer to the oldest command that waits.
LEMMA ReadingIsOwn ==
    ASSUME ChannelInv, NEW s \in Sockets, Data(s)
    PROVE  /\ Stream(s) /\ Alive(s) /\ fromServer[s] # <<>>
           /\ fromServer'[s] = Tail(fromServer[s]) /\ toServer' = toServer /\ kind' = kind
           /\ buffer' = NoLine
           /\ NextCommand \in Commands /\ Waiting(NextCommand)
           /\ fromServer[s][1].cmd = NextCommand
           /\ Says(kind[NextCommand], fromServer[s][1].line)
           /\ \/ TakeValue(NextCommand)
              \/ ProcessLine(NextCommand, fromServer[s][1].line, NextCommand)
<1>1. /\ socketState[s] = "open" /\ fromServer[s] # <<>>
      /\ buffer' = NoLine /\ fromServer' = [fromServer EXCEPT ![s] = Tail(@)]
      /\ toServer' = toServer
  BY DEF Data
<1>2. Alive(s) /\ Stream(s)
  BY <1>1 DEF Alive, ChannelInv, Rules, Streams
<1>3. /\ fromServer[s][1].cmd = NextCommand /\ NextCommand \in Commands /\ Waiting(NextCommand)
      /\ Says(kind[NextCommand], fromServer[s][1].line)
  BY <1>1, <1>2, HeadIsNext
<1>4. Head(fromServer[s]) = fromServer[s][1] /\ fromServer'[s] = Tail(fromServer[s])
  BY <1>1, StreamShapes
<1>5. Readings(s, Head(fromServer[s])) = {<<fromServer[s][1].line, NextCommand>>}
  BY <1>2, <1>3, <1>4 DEF Readings, Stream
<1>6. PICK r \in Readings(s, Head(fromServer[s])) :
          \/ TakeValue(r[2])
          \/ IgnoreUnsolicited
          \/ ProcessLine(NextCommand, r[1], r[2])
  BY DEF Data
<1>7. r[1] = fromServer[s][1].line /\ r[2] = NextCommand
  BY <1>5, <1>6
<1>8. ~IgnoreUnsolicited
  BY <1>3, StreamShapes DEF IgnoreUnsolicited
<1>9. \/ TakeValue(NextCommand)
      \/ ProcessLine(NextCommand, fromServer[s][1].line, NextCommand)
  BY <1>6, <1>7, <1>8
<1>10. kind' = kind
  BY <1>9 DEF TakeValue, ProcessLine, ContinueAnswer, EndAnswer, FailAnswer, SingleLineAnswer, commandVars
<1> QED
  BY <1>1, <1>2, <1>3, <1>4, <1>9, <1>10

\* A line leaves the commands as they are but for what it does to its own.
LEMMA DataObeys ==
    ASSUME ChannelInv, NEW s \in Sockets, Data(s), NEW c \in Commands, Issued(c),
           \A d \in Commands : d # c => foundKeys'[d] = foundKeys[d] /\ outcome'[d] = outcome[d],
           kind[c] = "multi" /\ outcome'[c].how = "resolved" =>
               Len(outcome'[c].values) = foundKeys'[c] + 1,
           Stream(s)'
    PROVE  Rules'
<1>1. /\ socketState[s] = "open" /\ fromServer' = [fromServer EXCEPT ![s] = Tail(@)]
      /\ UNCHANGED <<socket, quitting, socketState, toServer>>
  BY DEF Data
<1>2. kind' = kind /\ Alive(s)
  BY ReadingIsOwn
<1>3. Obeyed'
  BY <1>1, <1>2 DEF ChannelInv, Rules, Obeyed, Issued
<1>4. ValuesAligned'
  BY <1>2 DEF ChannelInv, Rules, ValuesAligned
<1>5. socket # None
  BY <1>2, OrderShapes DEF ChannelInv, OrderInv, SocketOrder, Current
<1>6. \A t \in Sockets : t # s => fromServer'[t] = fromServer[t]
  BY <1>1, StreamShapes
<1>7. \A d \in Commands : Waiting(d)' => Waiting(d)
  BY DataAddsNoWaiting DEF ChannelInv, OrderInv
<1>8. Starting'
  BY <1>1, <1>5, <1>6, <1>7 DEF ChannelInv, Rules, Starting
<1> QED
  BY <1>1, <1>2, <1>3, <1>4, <1>8, OneStream DEF Rules

\* What waits after a command was shifted, and after it was settled.
LEMMA ShiftedWaiting ==
    ASSUME TypeOK, DeliveryInv, NextCommand # None, commandQueue' = QueueAfterShift
    PROVE  /\ currentCommand' = NextCommand => \A d \in Commands : Waiting(d)' <=> Waiting(d)
           /\ currentCommand' = None =>
                 \A d \in Commands : Waiting(d)' <=> Waiting(d) /\ d # NextCommand
<1>1. /\ NextCommand \in Commands
      /\ \A d \in Commands : Waiting(d) <=>
            \/ d = NextCommand
            \/ \E i \in 1 .. Len(QueueAfterShift) : QueueAfterShift[i] = d
      /\ \A i \in 1 .. Len(QueueAfterShift) : NextCommand < QueueAfterShift[i]
  BY ShiftKeepsWaiting
<1>2. \A i \in 1 .. Len(QueueAfterShift) : QueueAfterShift[i] # NextCommand
  BY <1>1 DEF Commands
<1>3. \A d \in Commands : d # None
  BY DEF Commands, None
<1> QED
  BY <1>1, <1>2, <1>3 DEF Waiting

LEMMA ChannelTakeValue ==
    ASSUME ChannelInv, NEW s \in Sockets, Data(s), TakeValue(NextCommand)
    PROVE  Rules'
<1>1. /\ Stream(s) /\ fromServer[s] # <<>> /\ fromServer'[s] = Tail(fromServer[s])
      /\ toServer' = toServer /\ kind' = kind /\ buffer' = NoLine
      /\ NextCommand \in Commands /\ Waiting(NextCommand)
  BY ReadingIsOwn
<1>2. /\ pendingValue /\ pendingValue' = FALSE /\ multilineData' = Append(multilineData, NextCommand)
      /\ UNCHANGED <<commandQueue, currentCommand, foundKeys, outcome>>
  BY DEF TakeValue, commandVars
<1>3. Inside(fromServer[s]) /\ fromServer[s][1].line = "data" /\ NextCommand = currentCommand
  BY <1>1, <1>2 DEF Stream, Between, Inside, NextCommand
<1>4. ~Last(fromServer[s][1].line)
  BY <1>3 DEF Last
<1>5. \A d \in Commands : Waiting(d)' <=> Waiting(d)
  BY <1>2 DEF Waiting
<1>6. /\ Answering(fromServer[s])' /\ Asking(fromServer[s], toServer[s])'
      /\ fromServer'[s] # <<>> /\ Within(fromServer[s][1].line, fromServer'[s][1].line)
  BY <1>1, <1>4, <1>5, ContinueStream
<1>7. fromServer'[s][1].line = "END"
  BY <1>3, <1>6 DEF Within
<1>8. /\ Len(multilineData') = Len(multilineData) + 1
      /\ \A i \in DOMAIN multilineData' : multilineData'[i] = currentCommand
  <2>1. multilineData \in Seq(Commands \cup {None}) /\ Len(multilineData) \in Nat
        /\ DOMAIN multilineData = 1 .. Len(multilineData)
    BY StreamShapes
  <2>2. /\ DOMAIN multilineData' = 1 .. Len(multilineData) + 1
        /\ \A i \in DOMAIN multilineData : multilineData'[i] = multilineData[i]
        /\ multilineData'[Len(multilineData) + 1] = currentCommand
        /\ Len(multilineData') = Len(multilineData) + 1
    BY <1>1, <1>2, <1>3, <2>1
  <2>3. \A i \in DOMAIN multilineData : multilineData[i] = currentCommand
    BY <1>3 DEF Inside
  <2> QED
    BY <2>1, <2>2, <2>3
<1>9. Inside(fromServer[s])'
  <2>1. kind[currentCommand] = "multi" => foundKeys[currentCommand] = Len(multilineData')
    BY <1>2, <1>3, <1>8 DEF Inside
  <2>2. Len(multilineData') \in Nat
    BY <1>8, StreamShapes
  <2> QED
    BY <1>1, <1>2, <1>3, <1>5, <1>6, <1>7, <1>8, <2>1, <2>2 DEF Inside
<1>10. Stream(s)'
  BY <1>1, <1>6, <1>9 DEF Stream, NoLine
<1>11. Issued(NextCommand) /\ (kind[NextCommand] = "multi" /\ outcome'[NextCommand].how = "resolved" =>
            Len(outcome'[NextCommand].values) = foundKeys'[NextCommand] + 1)
  BY <1>1, <1>2 DEF ChannelInv, OrderInv, DeliveryInv, NothingLost, Rules, ValuesAligned
<1> QED
  BY <1>1, <1>2, <1>10, <1>11, DataObeys

\* Inside an answer it is the one to currentCommand.
LEMMA InsideIsOwn ==
    ASSUME ChannelInv, NEW s \in Sockets, Inside(fromServer[s])
    PROVE  NextCommand = currentCommand /\ NextCommand # None
BY DEF Inside, NextCommand

LEMMA ChannelContinue ==
    ASSUME ChannelInv, NEW s \in Sockets, Data(s), ~pendingValue,
           ContinueAnswer(NextCommand, fromServer[s][1].line, NextCommand)
    PROVE  Rules'
<1>1. PICK c \in Commands, l \in Lines : c = NextCommand /\ l = fromServer[s][1].line
  <2>1. fromServer[s] \in Seq(TokenType) /\ fromServer[s] # <<>>
    BY StreamShapes, ReadingIsOwn
  <2>2. fromServer[s][1] \in TokenType
    BY <2>1
  <2>3. fromServer[s][1].line \in Lines
    BY <2>2 DEF TokenType
  <2> QED
    BY <2>3, ReadingIsOwn
<1>2. /\ Stream(s) /\ fromServer[s] # <<>> /\ fromServer'[s] = Tail(fromServer[s])
      /\ toServer' = toServer /\ kind' = kind /\ buffer' = NoLine
      /\ Waiting(c) /\ Says(kind[c], l)
  BY <1>1, ReadingIsOwn
<1>3. /\ Multiline(kind[c]) /\ l \notin {"END", "ERROR"}
      /\ commandQueue' = QueueAfterShift /\ currentCommand' = c
      /\ pendingValue' = OpensValue(kind[c], l)
      /\ multilineData' = IF PushesLine(kind[c], l) THEN Append(multilineData, c) ELSE multilineData
      /\ foundKeys' = RecordKey(c, l)
      /\ outcome' = outcome
  BY <1>1 DEF ContinueAnswer
<1>4. <<kind[c], l>> \in {<<"multi", "VALUE">>, <<"multi", "data">>, <<"multi", "EMPTY">>,
                          <<"multi", "blank">>, <<"stats", "STAT">>, <<"config", "CONFIG">>,
                          <<"config", "data">>}
  <2>1. kind[c] \in {"multi", "stats", "config"}
    BY <1>3 DEF Multiline
  <2>2. kind[c] = "multi" => l \in {"VALUE", "data", "EMPTY", "blank"}
    BY <1>2, <1>3 DEF Says
  <2>3. kind[c] = "stats" => l = "STAT"
    BY <1>2, <1>3 DEF Says
  <2>4. kind[c] = "config" => l \in {"CONFIG", "data"}
    BY <1>2, <1>3 DEF Says
  <2> QED
    BY <2>1, <2>2, <2>3, <2>4
<1>5. ~Last(l) /\ (l # "data" /\ l # "blank" => First(l))
  BY <1>4 DEF Last, First
<1>6. c # None /\ TypeOK /\ DeliveryInv
  BY StreamShapes DEF ChannelInv, OrderInv
<1>7. \A d \in Commands : Waiting(d)' <=> Waiting(d)
  BY <1>1, <1>3, <1>6, ShiftedWaiting
<1>8. /\ Answering(fromServer[s])' /\ Asking(fromServer[s], toServer[s])'
      /\ fromServer'[s] # <<>> /\ Within(l, fromServer'[s][1].line)
  BY <1>1, <1>2, <1>5, <1>7, ContinueStream
<1>9. PICK m : m = fromServer'[s][1].line
  OBVIOUS
<1>10. <<l, m>> \in {<<"VALUE", "data">>, <<"CONFIG", "data">>, <<"data", "END">>,
                     <<"EMPTY", "blank">>, <<"blank", "END">>, <<"STAT", "END">>}
  BY <1>8, <1>9 DEF Within
<1>11. l # "data" /\ (Inside(fromServer[s]) => l = "blank" /\ currentCommand = c)
       /\ (Between(fromServer[s]) => l # "blank")
  <2>1. Inside(fromServer[s]) => l = "blank" /\ currentCommand = c
    BY <1>1, <1>3, InsideIsOwn DEF Inside
  <2>2. Between(fromServer[s]) => l # "blank" /\ l # "data"
    BY <1>1, <1>2 DEF Between, First
  <2> QED
    BY <1>2, <2>1, <2>2 DEF Stream
<1>12. m \in {"data", "blank", "END"} /\ (pendingValue' <=> m = "data")
  <2>1. m \in {"data", "blank", "END"}
    BY <1>10
  <2>2. l \in {"VALUE", "CONFIG"} <=> m = "data"
    BY <1>10
  <2>3. pendingValue' <=> l \in {"VALUE", "CONFIG"}
    BY <1>3, <1>4 DEF OpensValue
  <2> QED
    BY <2>1, <2>2, <2>3
<1>13. /\ \A d \in Commands : d # c => foundKeys'[d] = foundKeys[d]
       /\ foundKeys'[c] = foundKeys[c] + IF kind[c] = "multi" /\ l \in {"VALUE", "EMPTY"} THEN 1 ELSE 0
  BY <1>3, StreamShapes DEF RecordKey, ListsKey
<1>14. /\ \A i \in DOMAIN multilineData' : multilineData'[i] = c
       /\ kind[c] = "multi" => foundKeys'[c] = Len(multilineData') + IF pendingValue' THEN 1 ELSE 0
  <2>1. CASE Inside(fromServer[s])
    <3>1. l = "blank" /\ currentCommand = c
      BY <1>11, <2>1
    <3>2. multilineData' = multilineData
      BY <1>3, <3>1 DEF PushesLine
    <3>3. ~pendingValue'
      <4>1. ~OpensValue(kind[c], l)
        BY <3>1 DEF OpensValue
      <4> QED
        BY <1>3, <4>1
    <3>4. foundKeys'[c] = foundKeys[c]
      BY <1>13, <3>1, StreamShapes
    <3> QED
      BY <2>1, <3>1, <3>2, <3>3, <3>4 DEF Inside
  <2>2. CASE Between(fromServer[s])
    <3>1. multilineData = <<>> /\ foundKeys[c] = 0
      BY <1>2, <2>2 DEF Between
    <3>2. CASE l \in {"VALUE", "CONFIG"}
      <4>1. multilineData' = <<>>
        BY <1>3, <3>1, <3>2 DEF PushesLine
      <4>2. pendingValue' = TRUE
        BY <1>3, <1>4, <3>2 DEF OpensValue
      <4>3. Len(<<>>) = 0 /\ DOMAIN <<>> = {}
        OBVIOUS
      <4>4. kind[c] = "multi" => l = "VALUE"
        BY <1>4, <3>2
      <4>5. kind[c] = "multi" => foundKeys'[c] = 1
        BY <1>13, <3>1, <4>4
      <4> QED
        BY <4>1, <4>2, <4>3, <4>5
    <3>3. CASE l \in {"EMPTY", "STAT"}
      <4>1. multilineData' = <<c>>
        BY <1>3, <1>4, <3>1, <3>3 DEF PushesLine
      <4>2. ~pendingValue'
        <5>1. ~OpensValue(kind[c], l)
          BY <3>3 DEF OpensValue
        <5> QED
          BY <1>3, <5>1
      <4>3. Len(<<c>>) = 1 /\ DOMAIN <<c>> = {1} /\ <<c>>[1] = c
        OBVIOUS
      <4>4. kind[c] = "multi" => l = "EMPTY"
        BY <1>4, <3>3
      <4>5. kind[c] = "multi" => foundKeys'[c] = 1
        BY <1>13, <3>1, <4>4
      <4> QED
        BY <4>1, <4>2, <4>3, <4>5
    <3> QED
      BY <1>4, <1>11, <2>2, <3>2, <3>3
  <2> QED
    BY <1>2, <2>1, <2>2 DEF Stream
<1>15. \A d \in Commands : Waiting(d) /\ d # c => foundKeys[d] = 0
  BY <1>2, <1>11 DEF Stream, Between, Inside
<1>16. Inside(fromServer[s])'
  BY <1>2, <1>3, <1>6, <1>7, <1>8, <1>9, <1>12, <1>13, <1>14, <1>15 DEF Inside
<1>17. Stream(s)'
  BY <1>2, <1>8, <1>16 DEF Stream, NoLine
<1>18. Issued(c) /\ outcome'[c].how # "resolved"
  BY <1>2, <1>3 DEF ChannelInv, OrderInv, DeliveryInv, NothingLost, Settled
<1> QED
  BY <1>3, <1>13, <1>17, <1>18, DataObeys

\* The last line of an answer leaves the parser between two answers.
LEMMA ChannelSettle ==
    ASSUME ChannelInv, NEW s \in Sockets, Data(s), Last(fromServer[s][1].line),
           NEW how \in {"resolved", "failed"}, NEW values, Settle(NextCommand, how, values),
           kind[NextCommand] = "multi" /\ how = "resolved" => Len(values) = foundKeys[NextCommand] + 1,
           ~pendingValue, pendingValue' = pendingValue, multilineData' = <<>>, foundKeys' = foundKeys,
           commandQueue' = QueueAfterShift, currentCommand' = None
    PROVE  Rules'
<1>1. PICK c \in Commands : c = NextCommand
  BY ReadingIsOwn
<1>2. /\ Stream(s) /\ fromServer[s] # <<>> /\ fromServer'[s] = Tail(fromServer[s])
      /\ toServer' = toServer /\ kind' = kind /\ buffer' = NoLine
      /\ Waiting(c) /\ fromServer[s][1].cmd = c
  BY <1>1, ReadingIsOwn
<1>3. c # None /\ TypeOK /\ DeliveryInv
  BY StreamShapes DEF ChannelInv, OrderInv
<1>4. \A d \in Commands : Waiting(d)' <=> Waiting(d) /\ d # c
  BY <1>1, <1>3, ShiftedWaiting
<1>5. /\ Answering(fromServer[s])' /\ Asking(fromServer[s], toServer[s])'
      /\ fromServer'[s] # <<>> => First(fromServer'[s][1].line)
  BY <1>2, <1>4, SettleStream
<1>6. \A d \in Commands : Waiting(d) /\ d # c => foundKeys[d] = 0
  <2>1. Inside(fromServer[s]) => currentCommand = c
    BY <1>1, InsideIsOwn
  <2> QED
    BY <1>2, <2>1 DEF Stream, Between, Inside
<1>7. Between(fromServer[s])'
  BY <1>4, <1>5, <1>6 DEF Between
<1>8. Stream(s)'
  BY <1>2, <1>5, <1>7 DEF Stream, NoLine
<1>9. /\ \A d \in Commands : d # c => outcome'[d] = outcome[d]
      /\ outcome'[c] = [how |-> how, values |-> values, by |-> None]
  BY <1>1, <1>3 DEF Settle, TypeOK
<1>10. Issued(c)
  BY <1>2, <1>3 DEF DeliveryInv, NothingLost
<1>11. kind[c] = "multi" /\ outcome'[c].how = "resolved" => Len(outcome'[c].values) = foundKeys'[c] + 1
  BY <1>1, <1>9
<1> QED
  BY <1>8, <1>9, <1>10, <1>11, DataObeys

LEMMA ChannelEnd ==
    ASSUME ChannelInv, NEW s \in Sockets, Data(s), ~pendingValue,
           EndAnswer(NextCommand, fromServer[s][1].line, NextCommand)
    PROVE  Rules'
<1>1. /\ fromServer[s][1].line = "END"
      /\ Settle(NextCommand, "resolved", Append(multilineData, NextCommand))
      /\ multilineData' = <<>> /\ commandQueue' = QueueAfterShift /\ currentCommand' = None
      /\ UNCHANGED <<pendingValue, foundKeys>>
  BY DEF EndAnswer
<1>2. Stream(s) /\ NextCommand \in Commands /\ Waiting(NextCommand)
  BY ReadingIsOwn
<1>3. Last(fromServer[s][1].line)
  BY <1>1 DEF Last
<1>4. Len(Append(multilineData, NextCommand)) = Len(multilineData) + 1 /\ Len(multilineData) \in Nat
  BY <1>2, StreamShapes
<1>5. kind[NextCommand] = "multi" => foundKeys[NextCommand] = Len(multilineData)
  <2>1. CASE Between(fromServer[s])
    <3>1. Len(<<>>) = 0
      OBVIOUS
    <3> QED
      BY <1>2, <2>1, <3>1 DEF Between
  <2>2. CASE Inside(fromServer[s])
    BY <1>4, <2>2, InsideIsOwn DEF Inside
  <2> QED
    BY <1>2, <2>1, <2>2 DEF Stream
<1> QED
  BY <1>1, <1>3, <1>4, <1>5, ChannelSettle

\* An error line, or the one line of a single-line answer, starts an answer.
LEMMA ChannelOneLine ==
    ASSUME ChannelInv, NEW s \in Sockets, Data(s), ~pendingValue,
           \/ FailAnswer(NextCommand, fromServer[s][1].line, NextCommand)
           \/ SingleLineAnswer(NextCommand, fromServer[s][1].line, NextCommand)
    PROVE  Rules'
<1>1. Stream(s) /\ NextCommand \in Commands /\ Says(kind[NextCommand], fromServer[s][1].line)
  BY ReadingIsOwn
<1>2. CASE FailAnswer(NextCommand, fromServer[s][1].line, NextCommand)
  <2>1. /\ fromServer[s][1].line = "ERROR" /\ Settle(NextCommand, "failed", <<NextCommand>>)
        /\ multilineData' \in {<<>>, multilineData}
        /\ commandQueue' = QueueAfterShift /\ currentCommand' = None
        /\ UNCHANGED <<pendingValue, foundKeys>>
    BY <1>2 DEF FailAnswer
  <2>2. Last(fromServer[s][1].line)
    BY <2>1 DEF Last
  <2>3. Between(fromServer[s])
    BY <1>1, <2>1 DEF Stream, Inside
  <2>4. multilineData' = <<>>
    BY <2>1, <2>3 DEF Between
  <2> QED
    BY <2>1, <2>2, <2>4, ChannelSettle
<1>3. CASE SingleLineAnswer(NextCommand, fromServer[s][1].line, NextCommand)
  <2>1. /\ ~Multiline(kind[NextCommand]) /\ fromServer[s][1].line # "ERROR"
        /\ Settle(NextCommand, "resolved", <<NextCommand>>)
        /\ commandQueue' = QueueAfterShift /\ currentCommand' = None
        /\ UNCHANGED <<multilineData, pendingValue, foundKeys>>
    BY <1>3 DEF SingleLineAnswer
  <2>2. kind[NextCommand] = "single" /\ fromServer[s][1].line = "STORED"
    BY <1>1, <2>1 DEF Multiline, Says
  <2>3. Last(fromServer[s][1].line)
    BY <2>2 DEF Last
  <2>4. Between(fromServer[s])
    BY <1>1, <2>2 DEF Stream, Inside
  <2>5. multilineData' = <<>>
    BY <2>1, <2>4 DEF Between
  <2> QED
    BY <2>1, <2>2, <2>3, <2>5, ChannelSettle
<1> QED
  BY <1>2, <1>3

LEMMA ChannelData ==
    ASSUME ChannelInv, NEW s \in Sockets, Data(s)
    PROVE  Rules'
<1>1. \/ TakeValue(NextCommand)
      \/ ProcessLine(NextCommand, fromServer[s][1].line, NextCommand)
  BY ReadingIsOwn
<1> QED
  BY <1>1, ChannelTakeValue, ChannelContinue, ChannelEnd, ChannelOneLine DEF ProcessLine

LEMMA ChannelStep ==
    ASSUME ChannelInv, Disciplined, [Next]_vars
    PROVE  Rules'
<1> USE DEF Disciplined
<1>1. \A s \in Sockets : ~Connect(s)
  BY DEF Connect, MayCall
<1>2. ~Disconnect /\ \A c \in Commands : ~Quit(c)
  BY DEF Disconnect, Quit, MayCall
<1>3. ~ReconnectDetached
  BY DEF ReconnectDetached, ChannelInv, OrderInv, SocketOrder, Trusted
<1>4. \A c \in Commands : ~QuitContinues(c)
  BY DEF QuitContinues, ChannelInv, Rules, Obeyed
<1>5. ASSUME NEW s \in Sockets, ServerQuits(s) PROVE FALSE
  <2>1. toServer[s] # <<>> /\ kind[Head(toServer[s])] = "quit"
    BY <1>5 DEF ServerQuits
  <2>2. Head(toServer[s]) \in Commands
    BY <2>1, StreamShapes
  <2> QED
    BY <2>1, <2>2 DEF ChannelInv, Rules, Obeyed
<1>6. ASSUME UNCHANGED vars PROVE Rules'
  <2>1. UNCHANGED <<socket, multilineData, pendingValue, buffer, commandQueue, currentCommand, kind,
                    foundKeys, outcome, quitting, socketState, toServer, fromServer>>
    BY <1>6 DEF vars, parserVars, commandVars, netVars
  <2>2. Obeyed' /\ ValuesAligned'
    BY <2>1, NothingResolved
  <2>3. Starting'
    BY <2>1 DEF ChannelInv, Rules, Starting, Waiting
  <2>4. Streams'
    BY <2>1, StreamKept DEF ChannelInv, Rules, Streams, Alive
  <2> QED
    BY <2>2, <2>3, <2>4 DEF Rules
<1>7. ASSUME Caller PROVE Rules'
  BY <1>1, <1>2, <1>3, <1>4, <1>7, ChannelReconnect, ChannelReconnectFresh, ChannelCommand DEF Caller
<1>8. ASSUME SocketEvent PROVE Rules'
  BY <1>8, ChannelReady, ChannelKills, ChannelClose, ChannelData, ChannelPartialData DEF SocketEvent
<1>9. ASSUME Server PROVE Rules'
  BY <1>5, <1>9, ChannelServerReplies DEF Server
<1> QED
  BY <1>6, <1>7, <1>8, <1>9 DEF Next

LEMMA ChannelInit == Init => ChannelInv
<1> SUFFICES ASSUME Init PROVE ChannelInv
  OBVIOUS
<1>1. Starting /\ Streams
  BY DEF Init, Starting, Streams, Alive
<1>2. Obeyed /\ ValuesAligned
  BY DEF Init, Obeyed, ValuesAligned
<1> QED
  BY <1>1, <1>2, OrderInit DEF ChannelInv, Rules

LEMMA ChannelHolds == Disciplined => (Spec => []ChannelInv)
<1> SUFFICES ASSUME Disciplined PROVE Spec => []ChannelInv
  OBVIOUS
<1>1. ChannelInv /\ [Next]_vars => ChannelInv'
  BY ChannelStep, StepTypeOK, StepDelivery, OrderStep, RejectionStep
     DEF ChannelInv, OrderInv, Disciplined
<1> QED
  BY ChannelInit, <1>1, PTL DEF Spec

-----------------------------------------------------------------------------
\* The channel

LEMMA SameSequence ==
    ASSUME NEW S, NEW q \in Seq(S), NEW r \in Seq(S), Len(q) = Len(r),
           \A i \in 1 .. Len(q) : q[i] = r[i]
    PROVE  q = r
OBVIOUS

LEMMA FirstAndRest ==
    ASSUME NEW S, NEW x \in S, NEW q \in Seq(S), NEW y \in S
    PROVE  /\ <<x>> \o q \in Seq(S) /\ <<x>> \o q # <<>>
           /\ Head(<<x>> \o q) = x /\ Tail(<<x>> \o q) = q
           /\ Append(<<x>> \o q, y) = <<x>> \o Append(q, y)
<1>0. <<x>> \in Seq(S) /\ Append(q, y) \in Seq(S)
  OBVIOUS
<1>1. PICK p \in Seq(S) : p = <<x>>
  BY <1>0
<1>2. Len(p) = 1 /\ p[1] = x /\ Len(q) \in Nat
  BY <1>1
<1>3. PICK r \in Seq(S) : r = p \o q
  <2>1. p \o q \in Seq(S)
    BY JoinEntries
  <2> QED
    BY <2>1
<1>4. /\ Len(r) = 1 + Len(q) /\ r[1] = x /\ \A i \in 1 .. Len(q) : r[1 + i] = q[i]
  <2>1. Len(r) = Len(p) + Len(q)
    BY <1>3
  <2>2. \A i \in 1 .. Len(p) : r[i] = p[i]
    BY <1>3, JoinEntries
  <2>3. \A i \in 1 .. Len(q) : r[Len(p) + i] = q[i]
    BY <1>3, JoinEntries
  <2> QED
    BY <1>2, <2>1, <2>2, <2>3
<1>5. r # <<>>
  BY <1>2, <1>4
<1>6. Head(r) = x
  BY <1>4, <1>5
<1>7. Tail(r) = q
  <2>1. Tail(r) \in Seq(S) /\ Len(Tail(r)) = Len(q)
    BY <1>2, <1>4, <1>5
  <2>2. \A i \in 1 .. Len(q) : Tail(r)[i] = r[i + 1]
    BY <1>2, <1>4, <1>5
  <2>3. \A i \in 1 .. Len(q) : Tail(r)[i] = q[i]
    BY <1>2, <1>4, <2>2
  <2> QED
    BY <2>1, <2>3, SameSequence
<1>8. Append(r, y) = p \o Append(q, y)
  <2>1. PICK a \in Seq(S) : a = Append(q, y)
    BY <1>0
  <2>2. PICK u \in Seq(S), v \in Seq(S) : u = Append(r, y) /\ v = p \o a
    <3>1. p \o a \in Seq(S)
      BY JoinEntries
    <3>2. Append(r, y) \in Seq(S)
      OBVIOUS
    <3> QED
      BY <3>1, <3>2
  <2>3. Len(a) = Len(q) + 1 /\ a[Len(q) + 1] = y /\ \A i \in 1 .. Len(q) : a[i] = q[i]
    BY <2>1
  <2>4. Len(u) = Len(q) + 2 /\ u[Len(q) + 2] = y /\ \A i \in 1 .. Len(q) + 1 : u[i] = r[i]
    BY <1>2, <1>4, <2>2
  <2>5. Len(v) = Len(q) + 2 /\ v[1] = x /\ \A i \in 1 .. Len(q) + 1 : v[1 + i] = a[i]
    <3>1. Len(v) = Len(p) + Len(a)
      BY <2>2
    <3>2. \A i \in 1 .. Len(p) : v[i] = p[i]
      BY <2>2, JoinEntries
    <3>3. \A i \in 1 .. Len(a) : v[Len(p) + i] = a[i]
      BY <2>2, JoinEntries
    <3> QED
      BY <1>2, <2>3, <3>1, <3>2, <3>3
  <2>6. ASSUME NEW i \in 1 .. Len(q) + 2 PROVE u[i] = v[i]
    <3>1. CASE i = 1
      BY <1>2, <1>4, <2>4, <2>5, <3>1
    <3>2. CASE i \in 2 .. Len(q) + 1
      <4>1. PICK j \in 1 .. Len(q) : i = 1 + j
        <5>1. i - 1 \in 1 .. Len(q) /\ i = 1 + (i - 1)
          BY <1>2, <3>2
        <5> QED
          BY <5>1
      <4>2. u[i] = q[j]
        <5>1. u[i] = r[i]
          BY <1>2, <2>4, <3>2
        <5>2. r[1 + j] = q[j]
          BY <1>4
        <5> QED
          BY <4>1, <5>1, <5>2
      <4>3. v[i] = q[j]
        BY <1>2, <2>3, <2>5, <4>1
      <4> QED
        BY <4>2, <4>3
    <3>3. CASE i = Len(q) + 2
      <4>1. v[1 + (Len(q) + 1)] = a[Len(q) + 1]
        <5>1. Len(q) + 1 \in 1 .. Len(q) + 1
          BY <1>2
        <5> QED
          BY <2>5, <5>1
      <4>2. 1 + (Len(q) + 1) = Len(q) + 2
        BY <1>2
      <4> QED
        BY <2>3, <2>4, <3>3, <4>1, <4>2
    <3> QED
      BY <1>2, <3>1, <3>2, <3>3
  <2>7. u = v
    BY <2>4, <2>5, <2>6, SameSequence
  <2> QED
    BY <2>1, <2>2, <2>7
<1> QED
  BY <1>1, <1>3, <1>5, <1>6, <1>7, <1>8

\* What waits is the next command and the rest of the queue.
LEMMA PendingIs ==
    ASSUME ChannelInv
    PROVE  /\ Pending \in Seq(Commands)
           /\ NextCommand = None => Pending = <<>>
           /\ NextCommand # None => /\ NextCommand \in Commands /\ QueueAfterShift \in Seq(Commands)
                                    /\ Pending = <<NextCommand>> \o QueueAfterShift
<1>1. PICK q \in Seq(Commands), n \in Commands \cup {None} : q = commandQueue /\ n = currentCommand
  BY DEF ChannelInv, OrderInv, TypeOK
<1>2. CASE n # None
  <2>1. Pending = <<n>> \o q /\ NextCommand = n /\ QueueAfterShift = q
    BY <1>1, <1>2 DEF Pending, NextCommand, QueueAfterShift
  <2> QED
    BY <1>2, <2>1, FirstAndRest
<1>3. CASE n = None /\ q = <<>>
  BY <1>1, <1>3 DEF Pending, NextCommand
<1>4. CASE n = None /\ q # <<>>
  <2>1. Pending = q /\ NextCommand = Head(q) /\ QueueAfterShift = Tail(q)
    BY <1>1, <1>4 DEF Pending, NextCommand, QueueAfterShift
  <2>2. PICK x \in Commands, r \in Seq(Commands) : x = Head(q) /\ r = Tail(q)
    <3>1. Head(q) \in Commands /\ Tail(q) \in Seq(Commands)
      BY <1>4
    <3> QED
      BY <3>1
  <2>3. PICK v \in Seq(Commands), p \in Seq(Commands) : v = p \o r /\ p = <<x>>
    <3>1. <<x>> \in Seq(Commands)
      OBVIOUS
    <3>2. <<x>> \o r \in Seq(Commands)
      BY <3>1, JoinEntries
    <3> QED
      BY <3>1, <3>2
  <2>4. Len(p) = 1 /\ p[1] = x /\ Len(r) \in Nat
    BY <2>3
  <2>5. Len(v) = Len(q) /\ v[1] = x /\ \A i \in 1 .. Len(r) : v[1 + i] = r[i]
    <3>1. Len(v) = Len(p) + Len(r)
      BY <2>3
    <3>2. \A i \in 1 .. Len(p) : v[i] = p[i]
      BY <2>3, JoinEntries
    <3>3. \A i \in 1 .. Len(r) : v[Len(p) + i] = r[i]
      BY <2>3, JoinEntries
    <3>4. Len(q) = Len(r) + 1
      BY <1>4, <2>2
    <3> QED
      BY <2>4, <3>1, <3>2, <3>3, <3>4
  <2>6. ASSUME NEW i \in 1 .. Len(q) PROVE q[i] = v[i]
    <3>1. CASE i = 1
      BY <1>4, <2>2, <2>5, <3>1
    <3>2. CASE i # 1
      <4>1. PICK j \in 1 .. Len(r) : i = 1 + j
        <5>1. i - 1 \in 1 .. Len(r) /\ i = 1 + (i - 1)
          BY <1>4, <2>2, <3>2
        <5> QED
          BY <5>1
      <4>2. r[j] = q[j + 1]
        BY <1>4, <2>2
      <4>3. j + 1 = i
        BY <2>4, <4>1
      <4> QED
        BY <2>5, <4>1, <4>2, <4>3
    <3> QED
      BY <3>1, <3>2
  <2>7. q = v
    BY <2>5, <2>6, SameSequence
  <2>8. NextCommand # None
    BY <2>1, <2>2 DEF Commands, None
  <2> QED
    BY <2>1, <2>2, <2>3, <2>7, <2>8
<1> QED
  BY <1>1, <1>2, <1>3, <1>4

\* What waits is what the channel says waits.
LEMMA WaitingIsAFate ==
    ASSUME ChannelInv, NEW c \in Commands
    PROVE  /\ FateOf(c) = "waiting" <=> Waiting(c)
           /\ FateOf(c) = "unused" <=> ~Issued(c)
<1>1. Waiting(c) <=> Issued(c) /\ ~Settled(c)
  BY DEF ChannelInv, OrderInv, DeliveryInv, NothingLost
<1>2. CASE kind[c] = "none"
  <2>1. FateOf(c) = "unused"
    BY <1>2 DEF FateOf, Issued
  <2> QED
    BY <1>1, <1>2, <2>1 DEF Issued
<1>3. CASE kind[c] # "none" /\ outcome[c].how = "unsettled"
  <2>1. FateOf(c) = "waiting"
    BY <1>3 DEF FateOf, Issued
  <2> QED
    BY <1>1, <1>3, <2>1 DEF Issued, Settled
<1>4. CASE kind[c] # "none" /\ outcome[c].how # "unsettled"
  <2>1. FateOf(c) \in {"lost", "answered", "confused"}
    BY <1>4 DEF FateOf, Issued
  <2> QED
    BY <1>1, <1>4, <2>1 DEF Issued, Settled
<1> QED
  BY <1>2, <1>3, <1>4

LEMMA SameFate ==
    ASSUME NEW c, kind'[c] = kind[c], outcome'[c] = outcome[c]
    PROVE  FateOf(c)' = FateOf(c)
BY DEF FateOf, Issued

LEMMA ChannelStutters ==
    ASSUME UNCHANGED <<connected, kind, outcome>>, Pending' = Pending
    PROVE  UNCHANGED Channel!vars
<1>1. \A c \in Commands : FateOf(c)' = FateOf(c)
  BY SameFate
<1> QED
  BY <1>1 DEF Channel!vars

LEMMA RejectLoses ==
    ASSUME ChannelInv, NEW s, RejectPendingCommands(s), kind' = kind, connected' = FALSE
    PROVE  Channel!Lose
<1>1. /\ outcome' = [c \in Commands |->
            IF Waiting(c) THEN [how |-> "closed", values |-> <<>>, by |-> s] ELSE outcome[c]]
      /\ commandQueue' = <<>> /\ currentCommand' = None
  BY DEF RejectPendingCommands
<1>2. Pending' = <<>>
  BY <1>1 DEF Pending
<1>3. ASSUME NEW c \in Commands
      PROVE  FateOf(c)' = IF FateOf(c) = "waiting" THEN "lost" ELSE FateOf(c)
  <2>1. CASE Waiting(c)
    <3>1. outcome'[c].how = "closed" /\ kind'[c] # "none"
      BY <1>1, <2>1 DEF ChannelInv, OrderInv, DeliveryInv, NothingLost, Issued
    <3> QED
      BY <2>1, <3>1, WaitingIsAFate DEF FateOf, Issued
  <2>2. CASE ~Waiting(c)
    BY <1>1, <2>2, WaitingIsAFate, SameFate
  <2> QED
    BY <2>1, <2>2
<1> QED
  BY <1>2, <1>3 DEF Channel!Lose

LEMMA CommandSubmits ==
    ASSUME ChannelInv, NEW c \in Commands, NEW k \in Kinds, Command(c, k)
    PROVE  Channel!Submit(c)
<1>1. /\ connected /\ ~Issued(c) /\ kind' = [kind EXCEPT ![c] = k]
      /\ commandQueue' = Append(commandQueue, c)
      /\ UNCHANGED <<connected, currentCommand, outcome>>
  BY DEF Command, Enqueue
<1>2. k # "none" /\ ~Settled(c)
  BY <1>1, KindsAssumption DEF AllKinds, ChannelInv, OrderInv, DeliveryInv
<1>3. \A d \in Commands : kind'[d] = IF d = c THEN k ELSE kind[d]
  BY <1>1 DEF ChannelInv, OrderInv, TypeOK
<1>4. FateOf(c) = "unused" /\ FateOf(c)' = "waiting"
  <2>1. Issued(c)' /\ outcome'[c].how = "unsettled"
    BY <1>1, <1>2, <1>3 DEF Issued, Settled
  <2> QED
    BY <1>1, <2>1 DEF FateOf
<1>5. \A d \in Commands : d # c => FateOf(d)' = FateOf(d)
  BY <1>1, <1>3, SameFate
<1>6. Pending' = Append(Pending, c)
  <2>1. PICK q \in Seq(Commands), n \in Commands \cup {None} : q = commandQueue /\ n = currentCommand
    BY DEF ChannelInv, OrderInv, TypeOK
  <2>2. CASE n = None
    BY <1>1, <2>1, <2>2 DEF Pending
  <2>3. CASE n # None
    <3>1. Append(<<n>> \o q, c) = <<n>> \o Append(q, c)
      BY <2>3, FirstAndRest
    <3> QED
      BY <1>1, <2>1, <2>3, <3>1 DEF Pending
  <2> QED
    BY <2>2, <2>3
<1> QED
  BY <1>1, <1>4, <1>5, <1>6 DEF Channel!Submit

\* A line that ends an answer settles the oldest command, with its own lines.
LEMMA SettleAnswers ==
    ASSUME ChannelInv, NEW s \in Sockets, Data(s),
           NEW how \in {"resolved", "failed"}, NEW values, Settle(NextCommand, how, values),
           \A i \in DOMAIN values : values[i] = NextCommand,
           commandQueue' = QueueAfterShift, currentCommand' = None
    PROVE  Channel!Answer
<1>1. PICK c \in Commands : c = NextCommand
  BY ReadingIsOwn
<1>2. kind' = kind /\ Waiting(c) /\ c # None
  BY <1>1, ReadingIsOwn, StreamShapes
<1>3. connected /\ connected' = connected
  BY DEF Data, ChannelInv, OrderInv, SocketOrder, Opened
<1>4. PICK q \in Seq(Commands) : q = QueueAfterShift
  BY <1>1, <1>2, PendingIs
<1>5. /\ Pending = <<c>> \o q /\ Pending # <<>> /\ Head(Pending) = c /\ Tail(Pending) = q
  BY <1>1, <1>2, <1>4, PendingIs, FirstAndRest
<1>6. Pending' = q
  BY <1>4 DEF Pending
<1>7. /\ \A d \in Commands : d # c => outcome'[d] = outcome[d]
      /\ outcome'[c] = [how |-> how, values |-> values, by |-> None]
  BY <1>1 DEF Settle, ChannelInv, OrderInv, TypeOK
<1>8. \A d \in Commands : d # c => FateOf(d)' = FateOf(d)
  BY <1>2, <1>7, SameFate
<1>9. FateOf(c)' = "answered"
  <2>1. Issued(c)'
    BY <1>2 DEF Issued, ChannelInv, OrderInv, DeliveryInv, NothingLost
  <2>2. outcome'[c].how \in {"resolved", "failed"} /\ outcome'[c].values = values
    BY <1>7
  <2> QED
    BY <1>1, <2>1, <2>2 DEF FateOf
<1> QED
  BY <1>3, <1>5, <1>6, <1>8, <1>9 DEF Channel!Answer

LEMMA DataAnswers ==
    ASSUME ChannelInv, NEW s \in Sockets, Data(s)
    PROVE  Channel!Answer \/ UNCHANGED Channel!vars
<1>1. PICK c \in Commands, l \in Lines : c = NextCommand /\ l = fromServer[s][1].line
  <2>1. fromServer[s] \in Seq(TokenType) /\ fromServer[s] # <<>>
    BY StreamShapes, ReadingIsOwn
  <2>2. fromServer[s][1] \in TokenType
    BY <2>1
  <2>3. fromServer[s][1].line \in Lines
    BY <2>2 DEF TokenType
  <2> QED
    BY <2>3, ReadingIsOwn
<1>2. /\ kind' = kind /\ connected' = connected /\ Stream(s) /\ c # None
      /\ TakeValue(c) \/ ProcessLine(c, l, c)
  BY <1>1, ReadingIsOwn, StreamShapes DEF Data
<1>3. CASE TakeValue(c)
  BY <1>2, <1>3, ChannelStutters DEF TakeValue, commandVars, Pending
<1>4. CASE ContinueAnswer(c, l, c)
  <2>1. outcome' = outcome /\ commandQueue' = QueueAfterShift /\ currentCommand' = c
    BY <1>4 DEF ContinueAnswer
  <2>2. Pending = <<c>> \o QueueAfterShift
    BY <1>1, <1>2, PendingIs
  <2>3. Pending' = Pending
    BY <1>2, <2>1, <2>2 DEF Pending
  <2> QED
    BY <1>2, <2>1, <2>3, ChannelStutters
<1>5. CASE ~pendingValue /\ EndAnswer(c, l, c)
  <2>1. /\ Settle(c, "resolved", Append(multilineData, c))
        /\ commandQueue' = QueueAfterShift /\ currentCommand' = None
    BY <1>5 DEF EndAnswer
  <2>2. PICK m \in Seq(Commands \cup {None}) : m = multilineData
    BY StreamShapes
  <2>3. \A i \in DOMAIN m : m[i] = c
    <3>1. CASE Between(fromServer[s])
      BY <2>2, <3>1 DEF Between
    <3>2. CASE Inside(fromServer[s])
      BY <1>1, <2>2, <3>2, InsideIsOwn DEF Inside
    <3> QED
      BY <1>2, <3>1, <3>2 DEF Stream
  <2>4. \A i \in DOMAIN Append(m, c) : Append(m, c)[i] = c
    <3>1. DOMAIN m = 1 .. Len(m) /\ Len(m) \in Nat
      OBVIOUS
    <3>2. DOMAIN Append(m, c) = 1 .. Len(m) + 1 /\ Append(m, c)[Len(m) + 1] = c
          /\ \A i \in 1 .. Len(m) : Append(m, c)[i] = m[i]
      BY <3>1
    <3> QED
      BY <2>3, <3>1, <3>2
  <2> QED
    BY <1>1, <2>1, <2>2, <2>4, SettleAnswers
<1>6. CASE FailAnswer(c, l, c) \/ SingleLineAnswer(c, l, c)
  <2>1. PICK how \in {"resolved", "failed"} : Settle(c, how, <<c>>)
    BY <1>6 DEF FailAnswer, SingleLineAnswer
  <2>2. commandQueue' = QueueAfterShift /\ currentCommand' = None
    BY <1>6 DEF FailAnswer, SingleLineAnswer
  <2>3. \A i \in DOMAIN <<c>> : <<c>>[i] = c
    OBVIOUS
  <2> QED
    BY <1>1, <2>1, <2>2, <2>3, SettleAnswers
<1> QED
  BY <1>2, <1>3, <1>4, <1>5, <1>6 DEF ProcessLine

\* A new connection comes up with nothing that waits from the previous one.
LEMMA ReadyComesUp ==
    ASSUME ChannelInv, ~LateClose, NEW s \in Sockets, Ready(s)
    PROVE  Channel!ComeUp
<1>1. /\ socketState[s] = "connecting" /\ InOrder(s) /\ connected' = TRUE
      /\ UNCHANGED <<commandQueue, currentCommand, kind, outcome>>
  BY DEF Ready, commandVars
<1>2. \A c \in Commands : ~Waiting(c)
  BY <1>1, NothingCarriedOver DEF ChannelInv
<1>3. Pending = <<>>
  BY <1>2, NextIsOldest, PendingIs DEF ChannelInv, OrderInv
<1>4. Pending' = Pending
  BY <1>1 DEF Pending
<1>5. \A c \in Commands : FateOf(c)' = FateOf(c)
  BY <1>1, SameFate
<1> QED
  BY <1>1, <1>3, <1>4, <1>5 DEF Channel!ComeUp

LEMMA StepIsAChannelStep ==
    ASSUME ChannelInv, Disciplined, [Next]_vars
    PROVE  [Channel!Next]_(Channel!vars)
<1> USE DEF Disciplined
<1>1. \A s \in Sockets : ~Connect(s)
  BY DEF Connect, MayCall
<1>2. ~Disconnect /\ \A c \in Commands : ~Quit(c)
  BY DEF Disconnect, Quit, MayCall
<1>3. ~ReconnectDetached
  BY DEF ReconnectDetached, ChannelInv, OrderInv, SocketOrder, Trusted
<1>4. \A c \in Commands : ~QuitContinues(c)
  BY DEF QuitContinues, ChannelInv, Rules, Obeyed
<1>5. ASSUME UNCHANGED <<connected, commandQueue, currentCommand, kind, outcome>>
      PROVE  UNCHANGED Channel!vars
  BY <1>5, ChannelStutters DEF Pending
<1>6. ASSUME NEW s \in Sockets,
             ReconnectFresh(s) \/ Error(s) \/ Timeout(s) \/ PartialData(s) \/ ServerReplies(s)
             \/ ServerQuits(s)
      PROVE  UNCHANGED Channel!vars
  BY <1>5, <1>6 DEF ReconnectFresh, Error, Timeout, PartialData, ServerReplies, ServerQuits, commandVars
<1>7. ASSUME UNCHANGED vars PROVE UNCHANGED Channel!vars
  BY <1>5, <1>7 DEF vars, commandVars
<1>8. ASSUME NEW s \in Sockets, ReconnectWithSocket(s) \/ Close(s) PROVE Channel!Lose
  BY <1>8, RejectLoses DEF ReconnectWithSocket, Close
<1>9. ASSUME Caller PROVE [Channel!Next]_(Channel!vars)
  BY <1>1, <1>2, <1>3, <1>4, <1>6, <1>8, <1>9, CommandSubmits DEF Caller, Channel!Next
<1>10. ASSUME SocketEvent PROVE [Channel!Next]_(Channel!vars)
  BY <1>6, <1>8, <1>10, ReadyComesUp, DataAnswers DEF SocketEvent, Channel!Next
<1>11. ASSUME Server PROVE [Channel!Next]_(Channel!vars)
  BY <1>6, <1>11 DEF Server
<1> QED
  BY <1>7, <1>9, <1>10, <1>11 DEF Next

-----------------------------------------------------------------------------
\* Theorems

\* With such callers the values a multi-get resolves with are as many as the
\* keys it found (node.ts 935, 947-970).
THEOREM ValuesFitTheirKeys == Disciplined => (Spec => []ValuesAligned)
<1>1. ChannelInv => ValuesAligned
  BY DEF ChannelInv, Rules
<1> QED
  BY ChannelHolds, <1>1, PTL

\* With such callers the node is a command channel: every step of it is a step
\* of CommandChannel, or none (node.ts 242-356, 786-1035).
THEOREM NodeImplementsChannel == Disciplined => (Spec => ImplementsChannel)
<1> SUFFICES ASSUME Disciplined PROVE Spec => ImplementsChannel
  OBVIOUS
<1>1. Init => Channel!Init
  BY DEF Init, Channel!Init, Pending, FateOf, Issued
<1>2. ChannelInv /\ [Next]_vars => [Channel!Next]_(Channel!vars)
  BY StepIsAChannelStep
<1> QED
  BY <1>1, <1>2, ChannelHolds, PTL DEF Spec, ImplementsChannel, Channel!Spec

=============================================================================
