----------------------- MODULE ClientOperationsProofs -----------------------
(***************************************************************************)
(* Theorems about ClientOperations, for any calls and programs, any number *)
(* of replicas, retries and faults, and any interleaving of the calls.     *)
(***************************************************************************)
EXTENDS ClientOperations, FiniteSetTheorems, SequenceTheorems, TLAPS

-----------------------------------------------------------------------------
\* Sequences of calls

\* The commands q sent to a node and the answers r on their way are those of
\* the calls in out, one of each call.
Paired(q, r, out) ==
    /\ \A i \in DOMAIN q : q[i] \in out /\ \A j \in DOMAIN q : q[i] = q[j] => i = j
    /\ \A i \in DOMAIN r : r[i].call \in out /\ \A j \in DOMAIN r : r[i].call = r[j].call => i = j
    /\ \A i \in DOMAIN q, j \in DOMAIN r : q[i] # r[j].call

Word    == {"ok", "refused", "error"}
Answers == [call : Calls, word : Word]

\* Commands are sent, executed and answered one at a time.
LEMMA PairedSend ==
    ASSUME NEW q \in Seq(Calls), NEW r \in Seq(Answers), NEW out, NEW c \in Calls,
           Paired(q, r, out), c \notin out
    PROVE  Paired(Append(q, c), r, out \cup {c})
BY DEF Paired

LEMMA PairedExecute ==
    ASSUME NEW q \in Seq(Calls), NEW r \in Seq(Answers), NEW out, Paired(q, r, out), q # <<>>,
           NEW word \in Word
    PROVE  Paired(Tail(q), Append(r, [call |-> Head(q), word |-> word]), out)
<1>1. Head(q) \in Calls /\ Head(q) = q[1] /\ Len(q) > 0 /\ Tail(q) \in Seq(Calls)
  BY HeadTailProperties
<1> DEFINE a == [call |-> Head(q), word |-> word]
<1>2. a \in Answers /\ a.call = q[1]
  BY <1>1 DEF Answers
<1> HIDE DEF a
<1>3. /\ Len(Tail(q)) = Len(q) - 1 /\ \A i \in 1 .. Len(q) - 1 : Tail(q)[i] = q[i + 1]
      /\ DOMAIN Tail(q) = 1 .. Len(q) - 1 /\ DOMAIN q = 1 .. Len(q)
  BY <1>1
<1>4. /\ DOMAIN Append(r, a) = 1 .. Len(r) + 1 /\ DOMAIN r = 1 .. Len(r)
      /\ \A i \in 1 .. Len(r) : Append(r, a)[i] = r[i]
      /\ Append(r, a)[Len(r) + 1] = a
  BY <1>2
<1>5. Paired(Tail(q), Append(r, a), out)
  BY <1>1, <1>2, <1>3, <1>4 DEF Paired
<1> QED
  BY <1>5 DEF a

LEMMA PairedDeliver ==
    ASSUME NEW q \in Seq(Calls), NEW r \in Seq(Answers), NEW out, Paired(q, r, out), r # <<>>
    PROVE  Paired(q, Tail(r), out \ {Head(r).call}) /\ Head(r).call \in out
<1>1. /\ Head(r) = r[1] /\ Len(r) \in Nat \ {0} /\ DOMAIN r = 1 .. Len(r)
      /\ DOMAIN Tail(r) = 1 .. Len(r) - 1 /\ \A i \in 1 .. Len(r) - 1 : Tail(r)[i] = r[i + 1]
  BY HeadTailProperties
<1> QED
  BY <1>1 DEF Paired

LEMMA PairedMore ==
    ASSUME NEW q, NEW r, NEW out, NEW more, Paired(q, r, out), out \subseteq more
    PROVE  Paired(q, r, more)
BY DEF Paired

LEMMA PairedEmpty == ASSUME NEW out PROVE Paired(<<>>, <<>>, out)
BY DEF Paired

\* A call occurs at most once in a sequence; at most once in three of them.
OnceIn(c, s) == \A i, j \in DOMAIN s : s[i] = c /\ s[j] = c => i = j

AtMostOnce(c, q, l, g) ==
    /\ OnceIn(c, q) /\ OnceIn(c, l) /\ OnceIn(c, g)
    /\ \A i \in DOMAIN q, j \in DOMAIN l : q[i] = c => l[j] # c
    /\ \A i \in DOMAIN q, j \in DOMAIN g : q[i] = c => g[j] # c
    /\ \A i \in DOMAIN l, j \in DOMAIN g : l[i] = c => g[j] # c

NowhereIn(c, q, l, g) ==
    /\ \A i \in DOMAIN q : q[i] # c
    /\ \A i \in DOMAIN l : l[i] # c
    /\ \A i \in DOMAIN g : g[i] # c

LEMMA AtMostOnceSend ==
    ASSUME NEW c \in Calls, NEW d \in Calls, NEW q \in Seq(Calls), NEW l \in Seq(Calls), NEW g \in Seq(Calls)
    PROVE  /\ NowhereIn(c, q, l, g) => AtMostOnce(c, Append(q, c), l, g)
           /\ AtMostOnce(c, q, l, g) /\ c # d => AtMostOnce(c, Append(q, d), l, g)
           /\ NowhereIn(c, q, l, g) /\ c # d => NowhereIn(c, Append(q, d), l, g)
BY DEF AtMostOnce, OnceIn, NowhereIn

\* The first command of q is executed, and is in the log or not.
LEMMA AtMostOnceExecute ==
    ASSUME NEW c \in Calls, NEW q \in Seq(Calls), NEW l \in Seq(Calls), NEW g \in Seq(Calls), q # <<>>
    PROVE  /\ AtMostOnce(c, q, l, g) => AtMostOnce(c, Tail(q), l, Append(g, Head(q)))
           /\ AtMostOnce(c, q, l, g) => AtMostOnce(c, Tail(q), l, g)
           /\ NowhereIn(c, q, l, g) => NowhereIn(c, Tail(q), l, Append(g, Head(q)))
           /\ NowhereIn(c, q, l, g) => NowhereIn(c, Tail(q), l, g)
<1>1. /\ Head(q) = q[1] /\ Head(q) \in Calls /\ Len(q) \in Nat \ {0} /\ DOMAIN q = 1 .. Len(q)
      /\ DOMAIN Tail(q) = 1 .. Len(q) - 1 /\ \A i \in 1 .. Len(q) - 1 : Tail(q)[i] = q[i + 1]
  BY HeadTailProperties
<1>2. /\ DOMAIN Append(g, Head(q)) = 1 .. Len(g) + 1 /\ DOMAIN g = 1 .. Len(g) /\ Len(g) \in Nat
      /\ \A i \in 1 .. Len(g) : Append(g, Head(q))[i] = g[i]
      /\ Append(g, Head(q))[Len(g) + 1] = Head(q)
  BY <1>1
<1> DEFINE t == Tail(q)
           h == Append(g, Head(q))
<1>3. DOMAIN t = 1 .. Len(q) - 1 /\ \A i \in DOMAIN t : i + 1 \in DOMAIN q /\ t[i] = q[i + 1]
  BY <1>1
<1>4. \A j \in DOMAIN h : (j \in DOMAIN g /\ h[j] = g[j]) \/ (j = Len(g) + 1 /\ h[j] = q[1])
  BY <1>1, <1>2
<1>5. 1 \in DOMAIN q /\ \A i \in DOMAIN t : i \in Int /\ i + 1 # 1
  BY <1>1, <1>3
<1> HIDE DEF t, h
<1>6. ASSUME AtMostOnce(c, q, l, g) PROVE AtMostOnce(c, t, l, h) /\ AtMostOnce(c, t, l, g)
  <2>1. OnceIn(c, t) /\ OnceIn(c, l) /\ OnceIn(c, g)
    BY <1>3, <1>5, <1>6 DEF AtMostOnce, OnceIn
  <2>2. OnceIn(c, h)
    BY <1>4, <1>5, <1>6 DEF AtMostOnce, OnceIn
  <2>3. \A i \in DOMAIN t, j \in DOMAIN l : t[i] = c => l[j] # c
    BY <1>3, <1>6 DEF AtMostOnce
  <2>4. \A i \in DOMAIN t, j \in DOMAIN g : t[i] = c => g[j] # c
    BY <1>3, <1>6 DEF AtMostOnce
  <2>5. \A i \in DOMAIN t, j \in DOMAIN h : t[i] = c => h[j] # c
    <3>1. ASSUME NEW i \in DOMAIN t, NEW j \in DOMAIN h, t[i] = c, h[j] = c PROVE FALSE
      <4>1. CASE j \in DOMAIN g /\ h[j] = g[j]
        BY <2>4, <3>1, <4>1
      <4>2. CASE j = Len(g) + 1 /\ h[j] = q[1]
        <5>1. q[1] = c /\ q[i + 1] = c /\ i + 1 \in DOMAIN q /\ i + 1 # 1
          BY <1>3, <1>5, <3>1, <4>2
        <5> QED
          BY <1>5, <1>6, <5>1 DEF AtMostOnce, OnceIn
      <4> QED
        BY <1>4, <4>1, <4>2
    <3> QED
      BY <3>1
  <2>6. \A i \in DOMAIN l, j \in DOMAIN h : l[i] = c => h[j] # c
    BY <1>4, <1>5, <1>6 DEF AtMostOnce
  <2>7. \A i \in DOMAIN l, j \in DOMAIN g : l[i] = c => g[j] # c
    BY <1>6 DEF AtMostOnce
  <2> QED
    BY <2>1, <2>2, <2>3, <2>4, <2>5, <2>6, <2>7 DEF AtMostOnce
<1>7. ASSUME NowhereIn(c, q, l, g) PROVE NowhereIn(c, t, l, h) /\ NowhereIn(c, t, l, g)
  BY <1>3, <1>4, <1>5, <1>7 DEF NowhereIn
<1> QED
  BY <1>6, <1>7 DEF t, h

LEMMA AtMostOnceSwap ==
    ASSUME NEW c, NEW q, NEW l, NEW g
    PROVE  /\ AtMostOnce(c, q, l, g) <=> AtMostOnce(c, l, q, g)
           /\ NowhereIn(c, q, l, g) <=> NowhereIn(c, l, q, g)
BY DEF AtMostOnce, NowhereIn

\* The connection is lost with the commands q.
LEMMA AtMostOnceLost ==
    ASSUME NEW c \in Calls, NEW q \in Seq(Calls), NEW l \in Seq(Calls), NEW g \in Seq(Calls)
    PROVE  /\ AtMostOnce(c, q, l, g) => AtMostOnce(c, <<>>, l \o q, g)
           /\ NowhereIn(c, q, l, g) => NowhereIn(c, <<>>, l \o q, g)
<1>1. /\ DOMAIN (l \o q) = 1 .. Len(l) + Len(q) /\ DOMAIN l = 1 .. Len(l) /\ DOMAIN q = 1 .. Len(q)
      /\ Len(l) \in Nat /\ Len(q) \in Nat
      /\ \A i \in 1 .. Len(l) + Len(q) : (l \o q)[i] = IF i <= Len(l) THEN l[i] ELSE q[i - Len(l)]
  BY ConcatProperties
<1> DEFINE m == l \o q
<1>2. /\ \A i \in DOMAIN m : \/ i \in DOMAIN l /\ m[i] = l[i]
                             \/ i - Len(l) \in DOMAIN q /\ m[i] = q[i - Len(l)]
      /\ \A i \in DOMAIN m : i \in Int /\ Len(l) \in Int
  BY <1>1
<1> HIDE DEF m
<1>3. ASSUME AtMostOnce(c, q, l, g) PROVE AtMostOnce(c, <<>>, m, g)
  <2>1. OnceIn(c, m)
    BY <1>2, <1>3 DEF AtMostOnce, OnceIn
  <2>2. \A i \in DOMAIN m, j \in DOMAIN g : m[i] = c => g[j] # c
    BY <1>2, <1>3 DEF AtMostOnce
  <2> QED
    BY <1>3, <2>1, <2>2 DEF AtMostOnce, OnceIn
<1>4. ASSUME NowhereIn(c, q, l, g) PROVE NowhereIn(c, <<>>, m, g)
  BY <1>2, <1>4 DEF NowhereIn
<1> QED
  BY <1>3, <1>4 DEF m

\* Being in a sequence, as the properties count it.
LEMMA OnceMeansOneTime ==
    ASSUME NEW c, NEW s \in Seq(Calls), OnceIn(c, s)
    PROVE  Cardinality({i \in DOMAIN s : s[i] = c}) <= 1
<1> DEFINE where == {i \in DOMAIN s : s[i] = c}
<1>1. where = {} \/ \E i \in DOMAIN s : where = {i}
  BY DEF OnceIn
<1> HIDE DEF where
<1>2. Cardinality(where) = 0 \/ Cardinality(where) = 1
  BY <1>1, FS_EmptySet, FS_Singleton
<1> QED
  BY <1>2 DEF where

LEMMA SomewhereMeansOnce ==
    ASSUME NEW c, NEW s \in Seq(Calls), c \in ToSet(s)
    PROVE  Cardinality({i \in DOMAIN s : s[i] = c}) > 0
<1> DEFINE where == {i \in DOMAIN s : s[i] = c}
<1>1. where # {} /\ where \subseteq 1 .. Len(s) /\ Len(s) \in Int
  BY DEF ToSet
<1> HIDE DEF where
<1>2. IsFiniteSet(1 .. Len(s))
  BY <1>1, FS_Interval
<1>3. IsFiniteSet(where) /\ Cardinality(where) \in Nat
  BY <1>1, <1>2, FS_Subset, FS_CardinalityType
<1>4. Cardinality(where) # 0
  BY <1>1, <1>3, FS_EmptySet
<1>5. Cardinality(where) > 0
  BY <1>3, <1>4
<1> QED
  BY <1>5 DEF where

-----------------------------------------------------------------------------
\* The calls

Stages   == {"idle", "connecting", "asking", "dialing", "asked", "running", "done"}
Legs     == [stage : {"none", "connecting", "sent", "sleeping", "ended"},
             attempt : 0 .. Retries, reply : {"none", "ok", "refused"}]

\* Call c has a command on its way to node n, or its answer back.
Outstanding(c, n) ==
    IF Kind(c) \in Reads THEN stage[c] = "asked" /\ todo[c] # <<>> /\ Head(todo[c]) = n
                         ELSE leg[c][n].stage = "sent"

Out(n) == {c \in Calls : Outstanding(c, n)}

CommandsPaired == \A n \in Nodes : Paired(queue[n], replies[n], Out(n))

\* The parts of a call fit together: a read has no legs, a write asks no node
\* after the other, and a leg that will retry has an attempt left.
CallShape(c) ==
    /\ Kind(c) \in Reads => stage[c] # "running" /\ \A n \in Nodes : leg[c][n] = NoLeg
    /\ Kind(c) \notin Reads => stage[c] \in {"idle", "connecting", "running", "done"}
    /\ stage[c] \in {"idle", "connecting"} => \A n \in Nodes : leg[c][n] = NoLeg
    /\ stage[c] = "connecting" => Kind(c) \in Writes \cup {"get"}
    /\ stage[c] \in {"connecting", "dialing", "asked"} => todo[c] # <<>>
    /\ \A n \in Nodes : leg[c][n].attempt <= MaxRetries(c)
    /\ \A n \in Nodes : leg[c][n].stage = "sleeping" => leg[c][n].attempt < MaxRetries(c)
    /\ stage[c] # "done" => outcome[c] = "none"
    /\ stage[c] = "dialing" => Kind(c) = "gets"

Types == TypeOK /\ CommandsPaired /\ \A c \in Calls : CallShape(c)

LEMMA RetriesAreBounded ==
    ASSUME NEW c \in Calls
    PROVE  MaxRetries(c) \in 0 .. Retries /\ Retries \in Nat
BY RetriesAssumption DEF MaxRetries

\* No step changes what a call is.
LEMMA OperationsStay ==
    ASSUME [Next]_vars
    PROVE  /\ operation' = operation
           /\ \A c \in Calls : Kind(c)' = Kind(c) /\ MaxRetries(c)' = MaxRetries(c)
<1>1. operation' = operation
  BY DEF Next, Event, Continue, Call, CallGets, CallAll, Connected, NotConnected, Ask, Dialed, NotDialed,
         Miss, Settle, Wake, LegConnected, LegNotConnected, Executes, ExecutesLate, Deliver, Lost, vars
<1> QED
  BY <1>1 DEF Kind, MaxRetries

LEMMA SetLeg ==
    ASSUME NEW f \in [Calls -> [Nodes -> Legs]], NEW c \in Calls, NEW n \in Nodes, NEW x \in Legs
    PROVE  /\ [f EXCEPT ![c][n] = x] \in [Calls -> [Nodes -> Legs]]
           /\ \A d \in Calls, m \in Nodes :
                 [f EXCEPT ![c][n] = x][d][m] = IF d = c /\ m = n THEN x ELSE f[d][m]
OBVIOUS

\* An attempt that failed is the last, or leaves one.
LEMMA FailedLeg ==
    ASSUME NEW c \in Calls, NEW attempt \in 0 .. MaxRetries(c)
    PROVE  /\ Failed(c, attempt) \in Legs
           /\ Failed(c, attempt).attempt <= MaxRetries(c)
           /\ Failed(c, attempt).stage \in {"sleeping", "ended"}
           /\ Failed(c, attempt).stage = "sleeping" => attempt < MaxRetries(c)
           /\ Failed(c, attempt).attempt = attempt
           /\ Failed(c, attempt).reply = "none"
           /\ MaxRetries(c) = 0 => Failed(c, attempt).stage = "ended"
BY RetriesAreBounded DEF Failed, Leg, Legs

LEMMA SentLeg ==
    ASSUME NEW c \in Calls, NEW attempt \in 0 .. MaxRetries(c), NEW where \in {"none", "connecting", "sent"}
    PROVE  Leg(where, attempt, "none") \in Legs
BY RetriesAreBounded DEF Leg, Legs

LEMMA NodesOfReplicas == Replicas \in Seq(Nodes)
BY ReplicasAssumption

\* getNodesByKey() goes on with the operation, or with a node to connect.
LEMMA LocateEffect ==
    ASSUME NEW c, NEW path \in Seq(Nodes), NEW connected, Locate(c, path, connected)
    PROVE  \/ Begin(c, connected)
           \/ \E rest \in Seq(Nodes) :
                 /\ rest # <<>>
                 /\ stage' = [stage EXCEPT ![c] = "connecting"]
                 /\ todo' = [todo EXCEPT ![c] = rest]
                 /\ UNCHANGED <<leg, queue>>
<1>1. PICK k \in 1 .. Len(path) + 1 :
        \/ k > Len(path) /\ Begin(c, connected)
        \/ /\ k <= Len(path)
           /\ stage' = [stage EXCEPT ![c] = "connecting"]
           /\ todo' = [todo EXCEPT ![c] = SubSeq(path, k, Len(path))]
           /\ UNCHANGED <<leg, queue>>
  BY DEF Locate
<1>2. ASSUME k <= Len(path)
      PROVE  SubSeq(path, k, Len(path)) \in Seq(Nodes) /\ SubSeq(path, k, Len(path)) # <<>>
  <2>1. k \in Int /\ Len(path) \in Int /\ \A i \in k .. Len(path) : path[i] \in Nodes
    OBVIOUS
  <2>2. SubSeq(path, k, Len(path)) \in Seq(Nodes) /\ Len(SubSeq(path, k, Len(path))) > 0
    BY <1>2, <2>1, SubSeqProperties
  <2> QED
    BY <2>2
<1> QED
  BY <1>1, <1>2

LEMMA InitTypes == Init => Types
<1> SUFFICES ASSUME Init PROVE Types
  OBVIOUS
<1>1. NoLeg \in Legs /\ NoLeg.attempt = 0 /\ NoLeg.stage = "none"
  BY RetriesAssumption DEF NoLeg, Leg, Legs
<1>2. TypeOK
  BY <1>1, BoundAssumption DEF Init, TypeOK, Legs
<1>3. CommandsPaired
  BY DEF Init, CommandsPaired, Paired
<1>4. ASSUME NEW c \in Calls PROVE CallShape(c)
  BY <1>1, RetriesAreBounded DEF Init, CallShape
<1> QED
  BY <1>2, <1>3, <1>4 DEF Types

\* What nobody touches keeps its shape, and the nodes it waits for.
LEMMA Untouched ==
    ASSUME NEW c \in Calls, Kind(c)' = Kind(c), MaxRetries(c)' = MaxRetries(c),
           stage'[c] = stage[c], todo'[c] = todo[c], leg'[c] = leg[c], outcome'[c] = outcome[c]
    PROVE  /\ CallShape(c) => CallShape(c)'
           /\ \A n \in Nodes : Outstanding(c, n)' <=> Outstanding(c, n)
BY DEF CallShape, Outstanding

\* A call of a write, or an operation on all nodes: where is where the leg of
\* a node begins when it is not connected.
LEMMA IssuedTypes ==
    ASSUME Types, NEW c \in Calls, NEW connected, NEW legs \in [Nodes -> Legs],
           stage[c] \in {"idle", "connecting"}, Kind(c) \notin Reads,
           Kind(c)' = Kind(c), MaxRetries(c)' = MaxRetries(c),
           \A d \in Calls : Kind(d)' = Kind(d) /\ MaxRetries(d)' = MaxRetries(d),
           \A n \in Nodes : /\ n \in connected => legs[n].stage = "sent"
                            /\ legs[n].attempt <= MaxRetries(c)
                            /\ legs[n].stage = "sleeping" => legs[n].attempt < MaxRetries(c),
           stage' = [stage EXCEPT ![c] = "running"],
           leg' = [leg EXCEPT ![c] = legs],
           queue' = [n \in Nodes |-> IF n \in connected THEN Append(queue[n], c) ELSE queue[n]],
           UNCHANGED <<replies, todo, outcome>>
    PROVE  /\ leg' \in [Calls -> [Nodes -> Legs]] /\ stage' \in [Calls -> Stages]
           /\ queue' \in [Nodes -> Seq(Calls)]
           /\ CommandsPaired' /\ \A d \in Calls : CallShape(d)'
<1>1. TypeOK /\ queue \in [Nodes -> Seq(Calls)] /\ replies \in [Nodes -> Seq(Answers)]
      /\ leg \in [Calls -> [Nodes -> Legs]] /\ stage \in [Calls -> Stages]
  BY DEF Types, TypeOK, Answers, Word, Legs, Stages
<1>2. \A d \in Calls : d # c => stage'[d] = stage[d] /\ leg'[d] = leg[d]
  BY <1>1
<1>3. stage'[c] = "running" /\ leg'[c] = legs
  BY <1>1
<1>4. ASSUME NEW d \in Calls PROVE CallShape(d)'
  <2>1. CASE d = c
    BY <1>3, <2>1 DEF Types, CallShape
  <2>2. CASE d # c
    BY <1>2, <2>2, Untouched DEF Types
  <2> QED
    BY <2>1, <2>2
<1>5. ASSUME NEW n \in Nodes PROVE Paired(queue'[n], replies'[n], Out(n)')
  <2>1. Paired(queue[n], replies[n], Out(n)) /\ queue[n] \in Seq(Calls) /\ replies[n] \in Seq(Answers)
    BY <1>1 DEF Types, CommandsPaired
  <2>2. leg[c][n].stage = "none"
    BY DEF Types, CallShape, NoLeg, Leg
  <2>3. c \notin Out(n)
    BY <2>2 DEF Out, Outstanding
  <2>4. \A d \in Calls : d # c => (Outstanding(d, n)' <=> Outstanding(d, n))
    BY <1>2, Untouched
  <2>5. Outstanding(c, n)' <=> legs[n].stage = "sent"
    BY <1>3 DEF Outstanding
  <2>6. CASE n \in connected
    <3>1. Out(n)' = Out(n) \cup {c}
      BY <2>4, <2>5, <2>6 DEF Out
    <3> QED
      BY <1>1, <2>1, <2>3, <2>6, <3>1, PairedSend
  <2>7. CASE n \notin connected
    <3>1. Out(n) \subseteq Out(n)'
      BY <2>3, <2>4 DEF Out
    <3> QED
      BY <1>1, <2>1, <2>7, <3>1 DEF Paired
  <2> QED
    BY <2>6, <2>7
<1>6. CommandsPaired'
  BY <1>5 DEF CommandsPaired
<1>7. leg' \in [Calls -> [Nodes -> Legs]] /\ stage' \in [Calls -> Stages] /\ queue' \in [Nodes -> Seq(Calls)]
  BY <1>1 DEF Stages
<1> QED
  BY <1>4, <1>6, <1>7

\* One leg of a call goes on; its command is sent when it says so.
LEMMA LegTypes ==
    ASSUME Types, NEW c \in Calls, NEW n \in Nodes, NEW x \in Legs,
           \A d \in Calls : Kind(d)' = Kind(d) /\ MaxRetries(d)' = MaxRetries(d),
           Kind(c) \notin Reads, leg[c][n].stage \notin {"none", "sent"},
           x.stage # "none", x.attempt <= MaxRetries(c),
           x.stage = "sleeping" => x.attempt < MaxRetries(c),
           leg' = [leg EXCEPT ![c][n] = x],
           queue' = [queue EXCEPT ![n] = IF x.stage = "sent" THEN Append(@, c) ELSE @],
           UNCHANGED <<replies, todo>>,
           \/ UNCHANGED <<stage, outcome>>
           \/ /\ stage' = [stage EXCEPT ![c] = "done"]
              /\ outcome' = [outcome EXCEPT ![c] = "thrown"]
    PROVE  /\ leg' \in [Calls -> [Nodes -> Legs]] /\ stage' \in [Calls -> Stages]
           /\ queue' \in [Nodes -> Seq(Calls)]
           /\ outcome' \in [Calls -> {"none", "true", "false", "thrown", "found", "miss"}]
           /\ CommandsPaired' /\ \A d \in Calls : CallShape(d)'
<1>1. TypeOK /\ queue \in [Nodes -> Seq(Calls)] /\ replies \in [Nodes -> Seq(Answers)]
      /\ leg \in [Calls -> [Nodes -> Legs]] /\ stage \in [Calls -> Stages]
      /\ outcome \in [Calls -> {"none", "true", "false", "thrown", "found", "miss"}]
  BY DEF Types, TypeOK, Answers, Word, Legs, Stages
<1>2. /\ leg' \in [Calls -> [Nodes -> Legs]]
      /\ \A d \in Calls, m \in Nodes : leg'[d][m] = IF d = c /\ m = n THEN x ELSE leg[d][m]
  BY <1>1, SetLeg
<1>3. ASSUME NEW d \in Calls, d # c PROVE leg'[d] = leg[d] /\ stage'[d] = stage[d] /\ outcome'[d] = outcome[d]
  BY <1>1, <1>3
<1>4. stage[c] \in {"running", "done"} /\ leg[c][n] # NoLeg
  <2>1. NoLeg.stage = "none"
    BY DEF NoLeg, Leg
  <2>2. /\ stage[c] \in {"idle", "connecting", "running", "done"}
        /\ stage[c] \in {"idle", "connecting"} => leg[c][n] = NoLeg
    BY DEF Types, CallShape
  <2> QED
    BY <2>1, <2>2
<1>5. stage'[c] \in {"running", "done"} /\ (stage'[c] # "done" => outcome'[c] = "none")
  BY <1>1, <1>4 DEF Types, CallShape
<1>6. ASSUME NEW d \in Calls PROVE CallShape(d)'
  <2>1. CASE d = c
    BY <1>2, <1>4, <1>5, <2>1 DEF Types, CallShape
  <2>2. CASE d # c
    BY <1>3, <2>2, Untouched DEF Types
  <2> QED
    BY <2>1, <2>2
<1>7. ASSUME NEW m \in Nodes PROVE Paired(queue'[m], replies'[m], Out(m)')
  <2>1. Paired(queue[m], replies[m], Out(m)) /\ queue[m] \in Seq(Calls) /\ replies[m] \in Seq(Answers)
    BY <1>1 DEF Types, CommandsPaired
  <2>2. \A d \in Calls : d # c => (Outstanding(d, m)' <=> Outstanding(d, m))
    BY <1>3, Untouched
  <2>3. CASE m = n /\ x.stage = "sent"
    <3>1. c \notin Out(m)
      BY <2>3 DEF Out, Outstanding
    <3>2. Outstanding(c, m)'
      BY <1>2, <2>3 DEF Outstanding
    <3>3. Out(m)' = Out(m) \cup {c}
      BY <2>2, <3>2 DEF Out
    <3>4. queue'[m] = Append(queue[m], c) /\ replies'[m] = replies[m]
      BY <1>1, <2>3
    <3> QED
      BY <2>1, <3>1, <3>3, <3>4, PairedSend
  <2>4. CASE m # n \/ x.stage # "sent"
    <3>1. Outstanding(c, m) => Outstanding(c, m)'
      BY <1>2, <2>4 DEF Outstanding
    <3>2. Out(m) \subseteq Out(m)'
      BY <2>2, <3>1 DEF Out
    <3>3. queue'[m] = queue[m] /\ replies'[m] = replies[m]
      BY <1>1, <2>4
    <3>4. Paired(queue[m], replies[m], Out(m)')
      BY <2>1, <3>2 DEF Paired
    <3> QED
      BY <3>3, <3>4
  <2> QED
    BY <2>3, <2>4
<1>8. CommandsPaired'
  BY <1>7 DEF CommandsPaired
<1>9. stage' \in [Calls -> Stages]
  BY <1>1 DEF Stages
<1>10. outcome' \in [Calls -> {"none", "true", "false", "thrown", "found", "miss"}]
  BY <1>1
<1>11. queue' \in [Nodes -> Seq(Calls)]
  <2>1. queue[n] \in Seq(Calls) /\ Append(queue[n], c) \in Seq(Calls)
    BY <1>1
  <2> QED
    BY <1>1, <2>1
<1> QED
  BY <1>2, <1>6, <1>8, <1>9, <1>10, <1>11

\* A read is sent to node n, goes on, or is over; no other call changes.
LEMMA ReadTypes ==
    ASSUME Types, NEW c \in Calls, NEW where \in Stages, NEW rest \in Seq(Nodes), NEW how,
           \A d \in Calls : Kind(d)' = Kind(d) /\ MaxRetries(d)' = MaxRetries(d),
           Kind(c) \in Reads, where # "running",
           where \notin {"idle", "connecting"},
           where \in {"dialing", "asked"} => rest # <<>>,
           where # "done" => how = "none",
           where = "dialing" => Kind(c) = "gets",
           stage'[c] = where, todo'[c] = rest, outcome'[c] = how, leg' = leg,
           \A d \in Calls : d # c => /\ stage'[d] = stage[d] /\ todo'[d] = todo[d]
                                     /\ outcome'[d] = outcome[d]
    PROVE  /\ \A d \in Calls : CallShape(d)'
           /\ \A n \in Nodes :
                 Out(n)' = IF where = "asked" /\ Head(rest) = n THEN Out(n) \cup {c} ELSE Out(n) \ {c}
<1>1. ASSUME NEW d \in Calls PROVE CallShape(d)'
  <2>1. CASE d = c
    BY <2>1 DEF Types, CallShape
  <2>2. CASE d # c
    BY <2>2, Untouched DEF Types
  <2> QED
    BY <2>1, <2>2
<1>2. ASSUME NEW n \in Nodes
      PROVE  Out(n)' = IF where = "asked" /\ Head(rest) = n THEN Out(n) \cup {c} ELSE Out(n) \ {c}
  <2>1. \A d \in Calls : d # c => (Outstanding(d, n)' <=> Outstanding(d, n))
    BY Untouched
  <2>2. Outstanding(c, n)' <=> where = "asked" /\ Head(rest) = n
    BY DEF Outstanding
  <2> QED
    BY <2>1, <2>2 DEF Out
<1> QED
  BY <1>1, <1>2

\* Its command is on the queue of that node.
LEMMA AskTypes ==
    ASSUME Types, NEW c \in Calls, NEW n \in Nodes, Kind(c) \in Reads, stage[c] \in {"asking", "dialing"},
           todo[c] # <<>>, Head(todo[c]) = n,
           \A d \in Calls : Kind(d)' = Kind(d) /\ MaxRetries(d)' = MaxRetries(d),
           stage' = [stage EXCEPT ![c] = "asked"],
           queue' = [queue EXCEPT ![n] = Append(@, c)],
           UNCHANGED <<replies, todo, leg, outcome>>
    PROVE  /\ stage' \in [Calls -> Stages] /\ queue' \in [Nodes -> Seq(Calls)]
           /\ CommandsPaired' /\ \A d \in Calls : CallShape(d)'
<1>1. /\ stage \in [Calls -> Stages] /\ queue \in [Nodes -> Seq(Calls)] /\ todo \in [Calls -> Seq(Nodes)]
      /\ replies \in [Nodes -> Seq(Answers)]
      /\ outcome \in [Calls -> {"none", "true", "false", "thrown", "found", "miss"}]
  BY DEF Types, TypeOK, Stages, Answers, Word
<1>2. /\ todo' = [todo EXCEPT ![c] = todo[c]] /\ todo[c] \in Seq(Nodes)
      /\ outcome' = [outcome EXCEPT ![c] = outcome[c]] /\ outcome[c] = "none"
  BY <1>1 DEF Types, CallShape
<1>0. PICK where \in Stages, rest \in Seq(Nodes), how \in {"none"} :
         where = "asked" /\ rest = todo[c] /\ how = outcome[c]
  BY <1>2 DEF Stages
<1>0a. /\ where # "running" /\ where # "done" /\ where # "dialing" /\ where \notin {"idle", "connecting"}
       /\ stage'[c] = where /\ leg' = leg
       /\ rest # <<>> /\ Head(rest) = n
       /\ todo'[c] = rest /\ outcome'[c] = how
       /\ \A d \in Calls : d # c => /\ stage'[d] = stage[d] /\ todo'[d] = todo[d]
                                    /\ outcome'[d] = outcome[d]
  BY <1>0, <1>1, <1>2
<1>3. /\ \A d \in Calls : CallShape(d)'
      /\ \A m \in Nodes :
            Out(m)' = IF where = "asked" /\ Head(rest) = m THEN Out(m) \cup {c} ELSE Out(m) \ {c}
  BY <1>0a, ReadTypes
<1>4. ASSUME NEW m \in Nodes PROVE Out(m)' = IF n = m THEN Out(m) \cup {c} ELSE Out(m) \ {c}
  BY <1>0, <1>3
<1>5. ASSUME NEW m \in Nodes PROVE Paired(queue'[m], replies'[m], Out(m)')
  <2>1. Paired(queue[m], replies[m], Out(m)) /\ queue[m] \in Seq(Calls) /\ replies[m] \in Seq(Answers)
    BY <1>1 DEF Types, CommandsPaired
  <2>2. c \notin Out(m)
    BY DEF Out, Outstanding
  <2>3. CASE m = n
    <3>1. Out(m)' = Out(m) \cup {c} /\ queue'[m] = Append(queue[m], c) /\ replies'[m] = replies[m]
      BY <1>1, <1>4, <2>2, <2>3
    <3> QED
      BY <2>1, <2>2, <3>1, PairedSend
  <2>4. CASE m # n
    <3>1. Out(m)' = Out(m) /\ queue'[m] = queue[m] /\ replies'[m] = replies[m]
      BY <1>1, <1>4, <2>2, <2>4
    <3> QED
      BY <2>1, <3>1
  <2> QED
    BY <2>3, <2>4
<1>6. CommandsPaired'
  BY <1>5 DEF CommandsPaired
<1>7. queue' \in [Nodes -> Seq(Calls)]
  <2>1. queue[n] \in Seq(Calls) /\ Append(queue[n], c) \in Seq(Calls)
    BY <1>1
  <2> QED
    BY <1>1, <2>1
<1>8. stage' \in [Calls -> Stages]
  BY <1>1 DEF Stages
<1> QED
  BY <1>3, <1>6, <1>7, <1>8

\* A read goes on without a command, and the commands stay as they are.
LEMMA ReadOnTypes ==
    ASSUME Types, NEW c \in Calls, NEW where \in {"asking", "dialing", "done"}, NEW rest \in Seq(Nodes),
           NEW how \in {"none", "found", "miss"},
           \A d \in Calls : Kind(d)' = Kind(d) /\ MaxRetries(d)' = MaxRetries(d),
           Kind(c) \in Reads, stage[c] # "asked",
           where = "dialing" => rest # <<>> /\ Kind(c) = "gets",
           where # "done" => how = "none",
           stage' = [stage EXCEPT ![c] = where],
           todo' = [todo EXCEPT ![c] = rest],
           outcome' = [outcome EXCEPT ![c] = how],
           UNCHANGED <<leg, queue, replies>>
    PROVE  CommandsPaired' /\ \A d \in Calls : CallShape(d)'
<1>1. /\ \A d \in Calls : CallShape(d)'
      /\ \A m \in Nodes :
            Out(m)' = IF where = "asked" /\ Head(rest) = m THEN Out(m) \cup {c} ELSE Out(m) \ {c}
  <2>1. /\ where \in Stages /\ where # "running" /\ where # "asked"
        /\ where \notin {"idle", "connecting"} /\ leg' = leg
    BY DEF Stages
  <2>2. /\ stage'[c] = where /\ todo'[c] = rest /\ outcome'[c] = how
        /\ \A d \in Calls : d # c => /\ stage'[d] = stage[d] /\ todo'[d] = todo[d]
                                     /\ outcome'[d] = outcome[d]
    BY DEF Types, TypeOK
  <2> QED
    BY <2>1, <2>2, ReadTypes
<1>2. ASSUME NEW m \in Nodes PROVE Out(m)' = Out(m)
  <2>1. Out(m)' = IF where = "asked" /\ Head(rest) = m THEN Out(m) \cup {c} ELSE Out(m) \ {c}
    BY <1>1
  <2>2. c \notin Out(m)
    BY DEF Out, Outstanding
  <2> QED
    BY <2>1, <2>2
<1>3. CommandsPaired'
  BY <1>2 DEF Types, CommandsPaired
<1> QED
  BY <1>1, <1>3


\* A call is over that waits for no answer as a read.
LEMMA SettleTypes ==
    ASSUME Types, NEW c \in Calls, NEW how \in {"true", "false", "thrown"},
           \A d \in Calls : Kind(d)' = Kind(d) /\ MaxRetries(d)' = MaxRetries(d),
           stage[c] \in {"connecting", "running"},
           stage' = [stage EXCEPT ![c] = "done"],
           outcome' = [outcome EXCEPT ![c] = how],
           UNCHANGED <<todo, leg, queue, replies>>
    PROVE  CommandsPaired' /\ \A d \in Calls : CallShape(d)'
<1>1. /\ stage \in [Calls -> Stages]
      /\ outcome \in [Calls -> {"none", "true", "false", "thrown", "found", "miss"}]
  BY DEF Types, TypeOK, Stages
<1>2. stage'[c] = "done" /\ \A d \in Calls : d # c => stage'[d] = stage[d] /\ outcome'[d] = outcome[d]
  BY <1>1
<1>3. ASSUME NEW d \in Calls PROVE CallShape(d)'
  <2>1. CASE d = c
    BY <1>2, <2>1 DEF Types, CallShape
  <2>2. CASE d # c
    BY <1>2, <2>2, Untouched DEF Types
  <2> QED
    BY <2>1, <2>2
<1>4. ASSUME NEW m \in Nodes PROVE Out(m)' = Out(m)
  <2>1. \A d \in Calls : d # c => (Outstanding(d, m)' <=> Outstanding(d, m))
    BY <1>2, Untouched
  <2>2. Outstanding(c, m)' <=> Outstanding(c, m)
    BY <1>2 DEF Outstanding
  <2> QED
    BY <2>1, <2>2 DEF Out
<1>5. CommandsPaired'
  BY <1>4 DEF Types, CommandsPaired
<1> QED
  BY <1>3, <1>5

LEMMA LocateTypes ==
    ASSUME Types, NEW c \in Calls, NEW path \in Seq(Nodes), NEW connected, Locate(c, path, connected),
           \A d \in Calls : Kind(d)' = Kind(d) /\ MaxRetries(d)' = MaxRetries(d),
           stage[c] \in {"idle", "connecting"}, Kind(c) \in Writes \cup {"get"},
           UNCHANGED <<replies, outcome>>
    PROVE  /\ leg' \in [Calls -> [Nodes -> Legs]] /\ stage' \in [Calls -> Stages]
           /\ queue' \in [Nodes -> Seq(Calls)] /\ todo' \in [Calls -> Seq(Nodes)]
           /\ CommandsPaired' /\ \A d \in Calls : CallShape(d)'
<1>1. TypeOK /\ queue \in [Nodes -> Seq(Calls)] /\ leg \in [Calls -> [Nodes -> Legs]]
      /\ stage \in [Calls -> Stages] /\ todo \in [Calls -> Seq(Nodes)]
      /\ outcome \in [Calls -> {"none", "true", "false", "thrown", "found", "miss"}]
  BY DEF Types, TypeOK, Legs, Stages
<1>2. outcome[c] = "none" /\ outcome' = outcome
  BY DEF Types, CallShape
<1>3. CASE Kind(c) = "get" /\ Begin(c, connected)
  <2>1. /\ stage' = [stage EXCEPT ![c] = "asking"] /\ todo' = [todo EXCEPT ![c] = Replicas]
        /\ UNCHANGED <<leg, queue>>
    BY <1>3 DEF Begin
  <2>2. PICK where \in {"asking", "dialing", "done"}, rest \in Seq(Nodes), how \in {"none", "found", "miss"} :
           where = "asking" /\ rest = Replicas /\ how = "none"
    BY NodesOfReplicas
  <2>3. /\ stage' = [stage EXCEPT ![c] = where] /\ todo' = [todo EXCEPT ![c] = rest]
        /\ outcome' = [outcome EXCEPT ![c] = how] /\ where # "done" /\ where # "dialing"
    BY <1>1, <1>2, <2>1, <2>2
  <2>4. CommandsPaired' /\ \A d \in Calls : CallShape(d)'
    BY <1>3, <2>1, <2>2, <2>3, ReadOnTypes DEF Reads
  <2> QED
    BY <1>1, <2>1, <2>4, NodesOfReplicas DEF Stages
<1>4. CASE Kind(c) # "get" /\ Begin(c, connected)
  <2> DEFINE legs == [n \in Nodes |-> IF n \in connected THEN Sent(0) ELSE Failed(c, 0)]
  <2>1. 0 \in 0 .. MaxRetries(c)
    BY RetriesAreBounded
  <2>2. Sent(0) \in Legs /\ Sent(0).stage = "sent" /\ Sent(0).attempt <= MaxRetries(c)
    BY <2>1, RetriesAreBounded DEF Sent, Leg, Legs
  <2>3. /\ legs \in [Nodes -> Legs]
        /\ \A n \in Nodes : /\ n \in connected => legs[n].stage = "sent"
                            /\ legs[n].attempt <= MaxRetries(c)
                            /\ legs[n].stage = "sleeping" => legs[n].attempt < MaxRetries(c)
    BY <2>1, <2>2, FailedLeg
  <2>4. /\ stage' = [stage EXCEPT ![c] = "running"] /\ leg' = [leg EXCEPT ![c] = legs]
        /\ queue' = [n \in Nodes |-> IF n \in connected THEN Append(queue[n], c) ELSE queue[n]]
        /\ todo' = todo
    BY <1>4 DEF Begin, Issued
  <2>5. Kind(c) \notin Reads
    BY <1>4 DEF Reads, Writes
  <2> HIDE DEF legs
  <2> QED
    BY <1>1, <1>2, <2>3, <2>4, <2>5, IssuedTypes
<1>5. CASE \E rest \in Seq(Nodes) :
              /\ rest # <<>>
              /\ stage' = [stage EXCEPT ![c] = "connecting"]
              /\ todo' = [todo EXCEPT ![c] = rest]
              /\ UNCHANGED <<leg, queue>>
  <2>1. PICK rest \in Seq(Nodes) :
              /\ rest # <<>>
              /\ stage' = [stage EXCEPT ![c] = "connecting"]
              /\ todo' = [todo EXCEPT ![c] = rest]
              /\ UNCHANGED <<leg, queue>>
    BY <1>5
  <2>2. stage'[c] = "connecting" /\ todo'[c] = rest
        /\ \A d \in Calls : d # c => stage'[d] = stage[d] /\ todo'[d] = todo[d]
    BY <1>1, <2>1
  <2>3. ASSUME NEW d \in Calls PROVE CallShape(d)'
    <3>1. CASE d = c
      BY <1>2, <2>1, <2>2, <3>1 DEF Types, CallShape, Reads, Writes
    <3>2. CASE d # c
      BY <1>2, <2>1, <2>2, <3>2, Untouched DEF Types
    <3> QED
      BY <3>1, <3>2
  <2>4. ASSUME NEW m \in Nodes PROVE Out(m)' = Out(m)
    <3>1. \A d \in Calls : d # c => (Outstanding(d, m)' <=> Outstanding(d, m))
      BY <1>2, <2>1, <2>2, Untouched
    <3>2. Outstanding(c, m)' <=> Outstanding(c, m)
      BY <2>1, <2>2 DEF Outstanding
    <3> QED
      BY <3>1, <3>2 DEF Out
  <2>5. CommandsPaired'
    BY <2>1, <2>4 DEF Types, CommandsPaired
  <2> QED
    BY <1>1, <2>1, <2>3, <2>5 DEF Stages
<1> QED
  BY <1>3, <1>4, <1>5, LocateEffect


LEMMA PerformsTypes ==
    ASSUME TypeOK, NEW c \in Calls, NEW n \in Nodes, Performs(n, c)
    PROVE  /\ value' \in [Nodes -> Seq(Calls)] /\ log' \in [Nodes -> Seq(Calls)]
           /\ steady' \in [Calls -> SUBSET Nodes]
           /\ \A d \in Calls : steady'[d] \subseteq steady[d]
<1>1. value[n] \in Seq(Calls) /\ log[n] \in Seq(Calls)
  BY DEF TypeOK
<1>2. After(c, value[n]) \in Seq(Calls)
  BY <1>1 DEF After
<1>3. Append(log[n], c) \in Seq(Calls)
  BY <1>1
<1>4. value' = [value EXCEPT ![n] = After(c, value[n])]
      /\ (log' = log \/ log' = [log EXCEPT ![n] = Append(log[n], c)]) /\ steady' = Passed(n, c)
  BY DEF Performs
<1> QED
  BY <1>2, <1>3, <1>4 DEF TypeOK, Passed

\* Executing and answering leave the commands in their order.
LEMMA ExecutesTypes ==
    ASSUME Types, NEW n \in Nodes, queue[n] # <<>>, NEW word \in Word,
           \A d \in Calls : Kind(d)' = Kind(d) /\ MaxRetries(d)' = MaxRetries(d),
           queue' = [queue EXCEPT ![n] = Tail(@)],
           replies' = [replies EXCEPT ![n] = Append(@, [call |-> Head(queue[n]), word |-> word])],
           UNCHANGED <<stage, todo, leg, outcome>>
    PROVE  /\ queue' \in [Nodes -> Seq(Calls)] /\ replies' \in [Nodes -> Seq(Answers)]
           /\ CommandsPaired' /\ \A d \in Calls : CallShape(d)'
<1>1. queue \in [Nodes -> Seq(Calls)] /\ replies \in [Nodes -> Seq(Answers)]
  BY DEF Types, TypeOK, Answers, Word
<1>2. Head(queue[n]) \in Calls /\ Tail(queue[n]) \in Seq(Calls)
  BY <1>1
<1> DEFINE a == [call |-> Head(queue[n]), word |-> word]
<1>3. a \in Answers
  BY <1>2 DEF Answers
<1>3a. Append(replies[n], a) \in Seq(Answers)
  BY <1>1, <1>3
<1>4. \A d \in Calls : /\ CallShape(d)'
                       /\ \A m \in Nodes : Outstanding(d, m)' <=> Outstanding(d, m)
  BY Untouched DEF Types
<1>5. ASSUME NEW m \in Nodes PROVE Paired(queue'[m], replies'[m], Out(m)')
  <2>1. Out(m)' = Out(m)
    BY <1>4 DEF Out
  <2>2. Paired(queue[m], replies[m], Out(m)) /\ queue[m] \in Seq(Calls) /\ replies[m] \in Seq(Answers)
    BY <1>1 DEF Types, CommandsPaired
  <2>3. CASE m = n
    <3>1. Paired(Tail(queue[n]), Append(replies[n], a), Out(n))
      BY <2>2, <2>3, PairedExecute
    <3>2. queue'[m] = Tail(queue[n]) /\ replies'[m] = Append(replies[n], a)
      BY <1>1, <2>3
    <3> QED
      BY <2>1, <2>3, <3>1, <3>2
  <2>4. CASE m # n
    BY <1>1, <2>1, <2>2, <2>4
  <2> QED
    BY <2>3, <2>4
<1>6. CommandsPaired'
  BY <1>5 DEF CommandsPaired
<1> QED
  BY <1>1, <1>2, <1>3a, <1>4, <1>6

\* The call of an answer waits for it.
LEMMA AnswerIsAwaited ==
    ASSUME Types, NEW n \in Nodes, replies[n] # <<>>
    PROVE  /\ Head(replies[n]) \in Answers /\ Tail(replies[n]) \in Seq(Answers)
           /\ Outstanding(Head(replies[n]).call, n)
           /\ Paired(queue[n], Tail(replies[n]), Out(n) \ {Head(replies[n]).call})
<1>1. queue[n] \in Seq(Calls) /\ replies[n] \in Seq(Answers)
  BY DEF Types, TypeOK, Answers, Word
<1>2. Head(replies[n]) \in Answers /\ Tail(replies[n]) \in Seq(Answers)
  BY <1>1
<1>3. /\ Paired(queue[n], Tail(replies[n]), Out(n) \ {Head(replies[n]).call})
      /\ Head(replies[n]).call \in Out(n)
  BY <1>1, PairedDeliver DEF Types, CommandsPaired
<1> QED
  BY <1>2, <1>3 DEF Out

LEMMA DeliverTypes ==
    ASSUME Types, NEW n \in Nodes, Deliver(n),
           \A d \in Calls : Kind(d)' = Kind(d) /\ MaxRetries(d)' = MaxRetries(d)
    PROVE  /\ leg' \in [Calls -> [Nodes -> Legs]] /\ stage' \in [Calls -> Stages]
           /\ replies' \in [Nodes -> Seq(Answers)] /\ todo' \in [Calls -> Seq(Nodes)]
           /\ outcome' \in [Calls -> {"none", "true", "false", "thrown", "found", "miss"}]
           /\ CommandsPaired' /\ \A d \in Calls : CallShape(d)'
<1>0. PICK c \in Calls, word \in Word : Head(replies[n]).call = c /\ Head(replies[n]).word = word
  BY AnswerIsAwaited DEF Deliver, Answers
<1>1. TypeOK /\ replies \in [Nodes -> Seq(Answers)] /\ leg \in [Calls -> [Nodes -> Legs]]
      /\ stage \in [Calls -> Stages] /\ todo \in [Calls -> Seq(Nodes)]
      /\ outcome \in [Calls -> {"none", "true", "false", "thrown", "found", "miss"}]
  BY DEF Types, TypeOK, Legs, Stages, Answers, Word
<1>2. /\ replies[n] # <<>> /\ replies' = [replies EXCEPT ![n] = Tail(@)] /\ queue' = queue
  BY DEF Deliver
<1>3. /\ Tail(replies[n]) \in Seq(Answers) /\ Outstanding(c, n)
      /\ Paired(queue[n], Tail(replies[n]), Out(n) \ {c})
  BY <1>0, <1>2, AnswerIsAwaited
<1>4. replies' \in [Nodes -> Seq(Answers)]
  BY <1>1, <1>2, <1>3
<1>5. ASSUME Out(n) \ {c} \subseteq Out(n)', \A m \in Nodes : m # n => Out(m) \subseteq Out(m)'
      PROVE  CommandsPaired'
  <2>1. ASSUME NEW m \in Nodes PROVE Paired(queue'[m], replies'[m], Out(m)')
    <3>1. CASE m = n
      <4>1. replies'[m] = Tail(replies[n]) /\ Out(n) \ {c} \subseteq Out(n)'
        BY <1>1, <1>2, <1>5, <3>1
      <4> QED
        BY <1>2, <1>3, <3>1, <4>1, PairedMore
    <3>2. CASE m # n
      <4>1. replies'[m] = replies[m] /\ Out(m) \subseteq Out(m)' /\ Paired(queue[m], replies[m], Out(m))
        BY <1>1, <1>2, <1>5, <3>2 DEF Types, CommandsPaired
      <4> QED
        BY <1>2, <4>1, PairedMore
    <3> QED
      BY <3>1, <3>2
  <2> QED
    BY <2>1 DEF CommandsPaired
<1>6. CASE Kind(c) \in Reads
  <2>1. /\ stage' = [stage EXCEPT ![c] = IF word = "ok" THEN "done" ELSE "asking"]
        /\ outcome' = [outcome EXCEPT ![c] = IF word = "ok" THEN "found" ELSE @]
        /\ todo' = [todo EXCEPT ![c] = Tail(@)] /\ leg' = leg
    BY <1>0, <1>6 DEF Deliver
  <2>2. stage[c] = "asked" /\ todo[c] # <<>> /\ Head(todo[c]) = n
    BY <1>3, <1>6 DEF Outstanding
  <2>3. outcome[c] = "none" /\ Tail(todo[c]) \in Seq(Nodes)
    BY <1>1, <1>3, <2>2 DEF Types, CallShape
  <2>4. PICK where \in Stages, rest \in Seq(Nodes), how \in {"none", "found"} :
           /\ where = IF word = "ok" THEN "done" ELSE "asking"
           /\ how = IF word = "ok" THEN "found" ELSE "none"
           /\ rest = Tail(todo[c])
    BY <2>3 DEF Stages
  <2>5. /\ stage'[c] = where /\ todo'[c] = rest /\ outcome'[c] = how
        /\ \A d \in Calls : d # c => /\ stage'[d] = stage[d] /\ todo'[d] = todo[d]
                                     /\ outcome'[d] = outcome[d]
        /\ where # "running" /\ where \notin {"idle", "connecting"}
        /\ where # "dialing" /\ where # "asked" /\ where \notin {"dialing", "asked"}
        /\ where # "done" => how = "none"
    BY <1>1, <1>3, <2>1, <2>3, <2>4
  <2>6. /\ \A d \in Calls : CallShape(d)'
        /\ \A m \in Nodes :
              Out(m)' = IF where = "asked" /\ Head(rest) = m THEN Out(m) \cup {c} ELSE Out(m) \ {c}
    BY <1>3, <1>6, <2>1, <2>5, ReadTypes
  <2>7. Out(n) \ {c} \subseteq Out(n)' /\ \A m \in Nodes : m # n => Out(m) \subseteq Out(m)'
    <3>1. \A m \in Nodes : m # n => c \notin Out(m)
      BY <1>6, <2>2 DEF Out, Outstanding
    <3> QED
      BY <2>5, <2>6, <3>1
  <2>8. /\ stage' \in [Calls -> Stages] /\ todo' \in [Calls -> Seq(Nodes)]
        /\ outcome' \in [Calls -> {"none", "true", "false", "thrown", "found", "miss"}]
    BY <1>1, <2>1, <2>3 DEF Stages
  <2> QED
    BY <1>1, <1>4, <1>5, <2>1, <2>6, <2>7, <2>8
<1>7. CASE Kind(c) \notin Reads
  <2> DEFINE x == IF word = "error" THEN Failed(c, leg[c][n].attempt)
                                    ELSE Leg("ended", leg[c][n].attempt, word)
  <2>1. /\ leg' = [leg EXCEPT ![c][n] = x] /\ todo' = todo
        /\ \/ UNCHANGED <<stage, outcome>>
           \/ stage' = [stage EXCEPT ![c] = "done"] /\ outcome' = [outcome EXCEPT ![c] = "thrown"]
    BY <1>0, <1>7 DEF Deliver
  <2>2. leg[c][n].stage = "sent"
    BY <1>3, <1>7 DEF Outstanding
  <2>3. leg[c][n].attempt \in 0 .. MaxRetries(c)
    BY <1>1, <1>3, RetriesAreBounded DEF Types, CallShape, Legs
  <2>4. /\ x \in Legs /\ x.attempt <= MaxRetries(c) /\ x.stage \in {"ended", "sleeping"}
        /\ x.stage = "sleeping" => x.attempt < MaxRetries(c)
    <3>1. CASE word = "error"
      BY <1>3, <2>3, <3>1, FailedLeg
    <3>2. CASE word # "error"
      BY <1>3, <2>3, <3>2, RetriesAreBounded DEF Leg, Legs, Word
    <3> QED
      BY <3>1, <3>2
  <2> HIDE DEF x
  <2>5. /\ leg' \in [Calls -> [Nodes -> Legs]]
        /\ \A d \in Calls, m \in Nodes : leg'[d][m] = IF d = c /\ m = n THEN x ELSE leg[d][m]
    BY <1>1, <1>3, <2>1, <2>4, SetLeg
  <2>6. ASSUME NEW d \in Calls, d # c
        PROVE  leg'[d] = leg[d] /\ stage'[d] = stage[d] /\ outcome'[d] = outcome[d] /\ todo'[d] = todo[d]
    BY <1>1, <2>1, <2>6
  <2>7. stage[c] \in {"running", "done"}
    <3>1. NoLeg.stage = "none"
      BY DEF NoLeg, Leg
    <3>2. /\ stage[c] \in {"idle", "connecting", "running", "done"}
          /\ stage[c] \in {"idle", "connecting"} => leg[c][n] = NoLeg
      BY <1>3, <1>7 DEF Types, CallShape
    <3> QED
      BY <2>2, <3>1, <3>2
  <2>8. stage'[c] \in {"running", "done"} /\ (stage'[c] # "done" => outcome'[c] = "none")
    BY <1>1, <1>3, <2>1, <2>7 DEF Types, CallShape
  <2>9. ASSUME NEW d \in Calls PROVE CallShape(d)'
    <3>1. CASE d = c
      BY <1>3, <1>7, <2>4, <2>5, <2>8, <3>1 DEF Types, CallShape
    <3>2. CASE d # c
      BY <2>6, <3>2, Untouched DEF Types
    <3> QED
      BY <3>1, <3>2
  <2>10. Out(n) \ {c} \subseteq Out(n)' /\ \A m \in Nodes : m # n => Out(m) \subseteq Out(m)'
    <3>1. \A d \in Calls : d # c => \A m \in Nodes : Outstanding(d, m)' <=> Outstanding(d, m)
      BY <2>6, Untouched
    <3>2. \A m \in Nodes : m # n => leg'[c][m] = leg[c][m]
      BY <2>5
    <3>3. \A m \in Nodes : m # n => (Outstanding(c, m) => Outstanding(c, m)')
      BY <1>7, <3>2 DEF Outstanding
    <3> QED
      BY <3>1, <3>3 DEF Out
  <2>11. /\ stage' \in [Calls -> Stages]
         /\ outcome' \in [Calls -> {"none", "true", "false", "thrown", "found", "miss"}]
    BY <1>1, <2>1 DEF Stages
  <2> QED
    BY <1>1, <1>4, <1>5, <2>1, <2>5, <2>9, <2>10, <2>11
<1> QED
  BY <1>6, <1>7


LEMMA LostTypes ==
    ASSUME Types, NEW n \in Nodes, Lost(n),
           \A d \in Calls : Kind(d)' = Kind(d) /\ MaxRetries(d)' = MaxRetries(d)
    PROVE  /\ leg' \in [Calls -> [Nodes -> Legs]] /\ stage' \in [Calls -> Stages]
           /\ queue' \in [Nodes -> Seq(Calls)] /\ replies' \in [Nodes -> Seq(Answers)]
           /\ late' \in [Nodes -> Seq(Calls)] /\ todo' \in [Calls -> Seq(Nodes)]
           /\ outcome' \in [Calls -> {"none", "true", "false", "thrown", "found", "miss"}]
           /\ steady' \in [Calls -> SUBSET Nodes]
           /\ CommandsPaired' /\ \A d \in Calls : CallShape(d)'
<1> DEFINE reads == {c \in Calls : stage[c] = "asked" /\ Head(todo[c]) = n}
           sent  == {c \in Calls : leg[c][n].stage = "sent"}
           all   == {c \in sent : Kind(c) = "flush"}
<1>1. TypeOK /\ replies \in [Nodes -> Seq(Answers)] /\ leg \in [Calls -> [Nodes -> Legs]]
      /\ stage \in [Calls -> Stages] /\ todo \in [Calls -> Seq(Nodes)]
      /\ queue \in [Nodes -> Seq(Calls)] /\ late \in [Nodes -> Seq(Calls)]
      /\ outcome \in [Calls -> {"none", "true", "false", "thrown", "found", "miss"}]
  BY DEF Types, TypeOK, Legs, Stages, Answers, Word
<1>2. /\ queue' = [queue EXCEPT ![n] = <<>>] /\ replies' = [replies EXCEPT ![n] = <<>>]
      /\ late' = [late EXCEPT ![n] = @ \o queue[n]]
      /\ stage' = [c \in Calls |-> IF c \in reads THEN "asking"
                                   ELSE IF c \in all THEN "done" ELSE stage[c]]
      /\ outcome' = [c \in Calls |-> IF c \in all THEN "thrown" ELSE outcome[c]]
      /\ todo' = [c \in Calls |-> IF c \in reads THEN Tail(todo[c]) ELSE todo[c]]
      /\ leg' = [c \in Calls |->
                    IF c \in sent THEN [leg[c] EXCEPT ![n] = Failed(c, @.attempt)] ELSE leg[c]]
  BY DEF Lost
<1>3. steady' \in [Calls -> SUBSET Nodes]
  BY <1>1 DEF Lost, TypeOK
<1>4. late' \in [Nodes -> Seq(Calls)]
  <2>1. late[n] \o queue[n] \in Seq(Calls)
    BY <1>1
  <2> QED
    BY <1>1, <1>2, <2>1
<1>5. \A c \in reads : c \notin sent /\ Kind(c) \in Reads /\ Tail(todo[c]) \in Seq(Nodes)
  <2>1. ASSUME NEW c \in reads PROVE c \notin sent /\ Kind(c) \in Reads /\ Tail(todo[c]) \in Seq(Nodes)
    <3>1. Kind(c) \in Reads /\ todo[c] # <<>>
      BY DEF Types, CallShape
    <3>2. leg[c][n].stage = "none"
      BY <3>1 DEF Types, CallShape, NoLeg, Leg
    <3> QED
      BY <1>1, <3>1, <3>2
  <2> QED
    BY <2>1
<1>6. \A c \in sent : /\ Kind(c) \notin Reads /\ leg[c][n].attempt \in 0 .. MaxRetries(c)
                      /\ stage[c] \in {"running", "done"}
  <2>1. ASSUME NEW c \in sent
        PROVE  /\ Kind(c) \notin Reads /\ leg[c][n].attempt \in 0 .. MaxRetries(c)
               /\ stage[c] \in {"running", "done"}
    <3>1. leg[c][n] # NoLeg /\ CallShape(c)
      BY DEF Types, NoLeg, Leg
    <3>2. Kind(c) \notin Reads
      BY <3>1 DEF CallShape
    <3>3. stage[c] \in {"running", "done"}
      BY <3>1, <3>2 DEF CallShape
    <3>4. leg[c][n].attempt \in 0 .. MaxRetries(c)
      BY <1>1, <3>1, RetriesAreBounded DEF CallShape, Legs
    <3> QED
      BY <3>2, <3>3, <3>4
  <2> QED
    BY <2>1
<1>7. \A c \in sent : \A m \in Nodes :
         /\ leg'[c][m] = IF m = n THEN Failed(c, leg[c][n].attempt) ELSE leg[c][m]
         /\ leg'[c] \in [Nodes -> Legs]
  <2>1. ASSUME NEW c \in sent
        PROVE  /\ leg'[c] \in [Nodes -> Legs]
               /\ \A m \in Nodes :
                     leg'[c][m] = IF m = n THEN Failed(c, leg[c][n].attempt) ELSE leg[c][m]
    <3>1. leg'[c] = [leg[c] EXCEPT ![n] = Failed(c, leg[c][n].attempt)]
      BY <1>2
    <3>2. Failed(c, leg[c][n].attempt) \in Legs
      BY <1>6, FailedLeg
    <3>3. leg[c] \in [Nodes -> Legs]
      BY <1>1
    <3> QED
      BY <3>1, <3>2, <3>3
  <2> QED
    BY <2>1
<1>8. \A c \in Calls : c \notin sent => leg'[c] = leg[c]
  BY <1>2
<1>9. leg' \in [Calls -> [Nodes -> Legs]]
  BY <1>1, <1>2, <1>7, <1>8
<1>10. ASSUME NEW c \in Calls PROVE CallShape(c)'
  <2>1. CASE c \in reads
    <3>1. stage'[c] = "asking" /\ leg'[c] = leg[c] /\ outcome'[c] = outcome[c] /\ outcome[c] = "none"
      BY <1>2, <1>5, <1>8, <2>1 DEF Types, CallShape
    <3> QED
      BY <1>5, <2>1, <3>1 DEF Types, CallShape
  <2>2. CASE c \in sent
    <3>1. /\ stage'[c] = "done" \/ (stage'[c] = stage[c] /\ outcome'[c] = outcome[c])
          /\ todo'[c] = todo[c] /\ stage'[c] \in {"running", "done"}
      BY <1>2, <1>5, <1>6, <2>2
    <3>2. \A m \in Nodes : \/ leg'[c][m] = leg[c][m]
                           \/ leg'[c][m] = Failed(c, leg[c][n].attempt)
      BY <1>7, <2>2
    <3>3. LET x == Failed(c, leg[c][n].attempt) IN
          x.attempt <= MaxRetries(c) /\ (x.stage = "sleeping" => x.attempt < MaxRetries(c))
      BY <1>6, <2>2, FailedLeg
    <3> QED
      BY <1>6, <2>2, <3>1, <3>2, <3>3 DEF Types, CallShape
  <2>3. CASE c \notin reads /\ c \notin sent
    <3>1. stage'[c] = stage[c] /\ todo'[c] = todo[c] /\ leg'[c] = leg[c] /\ outcome'[c] = outcome[c]
      BY <1>2, <2>3
    <3> QED
      BY <3>1, Untouched DEF Types
  <2> QED
    BY <2>1, <2>2, <2>3
<1>11. ASSUME NEW m \in Nodes PROVE Paired(queue'[m], replies'[m], Out(m)')
  <2>1. CASE m = n
    BY <1>1, <1>2, <2>1, PairedEmpty
  <2>2. CASE m # n
    <3>1. ASSUME NEW c \in Out(m) PROVE c \in Out(m)'
      <4>1. CASE Kind(c) \in Reads
        <5>1. c \notin reads /\ c \notin all
          BY <2>2, <4>1 DEF Out, Outstanding, Reads
        <5>2. stage'[c] = stage[c] /\ todo'[c] = todo[c]
          BY <1>2, <5>1 DEF Out
        <5> QED
          BY <4>1, <5>2 DEF Out, Outstanding
      <4>2. CASE Kind(c) \notin Reads
        <5>1. leg'[c][m] = leg[c][m]
          BY <1>7, <1>8, <2>2 DEF Out
        <5> QED
          BY <4>2, <5>1 DEF Out, Outstanding
      <4> QED
        BY <4>1, <4>2
    <3>2. Paired(queue[m], replies[m], Out(m)) /\ queue'[m] = queue[m] /\ replies'[m] = replies[m]
      BY <1>1, <1>2, <2>2 DEF Types, CommandsPaired
    <3>3. Out(m) \subseteq Out(m)'
      BY <3>1
    <3> QED
      BY <3>2, <3>3, PairedMore
  <2> QED
    BY <2>1, <2>2
<1>12. CommandsPaired'
  BY <1>11 DEF CommandsPaired
<1>13. /\ stage' \in [Calls -> Stages] /\ todo' \in [Calls -> Seq(Nodes)]
       /\ outcome' \in [Calls -> {"none", "true", "false", "thrown", "found", "miss"}]
  BY <1>1, <1>2, <1>5 DEF Stages
<1>14. queue' \in [Nodes -> Seq(Calls)] /\ replies' \in [Nodes -> Seq(Answers)]
  BY <1>1, <1>2
<1> QED
  BY <1>3, <1>4, <1>9, <1>10, <1>12, <1>13, <1>14


\* The parts of the type invariant, by the names above.
LEMMA TypeParts ==
    Types <=> /\ operation \in Programs /\ up \subseteq Nodes
              /\ queue \in [Nodes -> Seq(Calls)] /\ late \in [Nodes -> Seq(Calls)]
              /\ value \in [Nodes -> Seq(Calls)] /\ log \in [Nodes -> Seq(Calls)]
              /\ replies \in [Nodes -> Seq(Answers)] /\ stage \in [Calls -> Stages]
              /\ todo \in [Calls -> Seq(Nodes)] /\ leg \in [Calls -> [Nodes -> Legs]]
              /\ outcome \in [Calls -> {"none", "true", "false", "thrown", "found", "miss"}]
              /\ steady \in [Calls -> SUBSET Nodes] /\ faults \in 0 .. MaxFaults
              /\ CommandsPaired /\ \A c \in Calls : CallShape(c)
BY DEF Types, TypeOK, Answers, Word, Stages, Legs

LEMMA FaultCounts == ASSUME Types, Fault PROVE faults' \in 0 .. MaxFaults
BY BoundAssumption DEF Types, TypeOK, Fault

\* A leg that is sleeping or connecting is one of a write or of flush().
LEMMA LegOfWrite ==
    ASSUME Types, NEW c \in Calls, NEW n \in Nodes, leg[c][n].stage # "none"
    PROVE  Kind(c) \notin Reads /\ leg[c][n].attempt \in 0 .. MaxRetries(c) /\ leg[c][n] \in Legs
<1>1. leg[c][n] # NoLeg /\ leg[c][n] \in Legs
  BY TypeParts DEF NoLeg, Leg
<1> QED
  BY <1>1, RetriesAreBounded DEF Types, CallShape, Legs

LEMMA ResendTypes ==
    ASSUME Types, NEW c \in Calls, NEW n \in Nodes, NEW connected, Resend(c, n, connected),
           \A d \in Calls : Kind(d)' = Kind(d) /\ MaxRetries(d)' = MaxRetries(d),
           leg[c][n].stage = "connecting", UNCHANGED <<replies, todo, stage, outcome>>
    PROVE  /\ leg' \in [Calls -> [Nodes -> Legs]] /\ stage' \in [Calls -> Stages]
           /\ queue' \in [Nodes -> Seq(Calls)]
           /\ CommandsPaired' /\ \A d \in Calls : CallShape(d)'
<1>1. Kind(c) \notin Reads /\ leg[c][n].attempt \in 0 .. MaxRetries(c)
  BY LegOfWrite
<1>2. PICK x \in Legs :
         /\ x = IF n \in connected THEN Sent(leg[c][n].attempt) ELSE Failed(c, leg[c][n].attempt)
         /\ x.stage = "sent" <=> n \in connected
         /\ x.stage # "none" /\ x.attempt <= MaxRetries(c)
         /\ x.stage = "sleeping" => x.attempt < MaxRetries(c)
  <2>1. CASE n \in connected
    <3>1. Sent(leg[c][n].attempt) \in Legs
      BY <1>1, SentLeg DEF Sent
    <3>2. Sent(leg[c][n].attempt).stage = "sent" /\ Sent(leg[c][n].attempt).attempt <= MaxRetries(c)
      BY <1>1, RetriesAreBounded DEF Sent, Leg
    <3> QED
      BY <2>1, <3>1, <3>2
  <2>2. CASE n \notin connected
    BY <1>1, <2>2, FailedLeg
  <2> QED
    BY <2>1, <2>2
<1>3. /\ leg' = [leg EXCEPT ![c][n] = x]
      /\ queue' = [queue EXCEPT ![n] = IF x.stage = "sent" THEN Append(@, c) ELSE @]
  BY <1>2 DEF Resend
<1> QED
  BY <1>1, <1>2, <1>3, LegTypes

LEMMA StepTypes == Types /\ [Next]_vars => Types'
<1> SUFFICES ASSUME Types, [Next]_vars PROVE Types'
  OBVIOUS
<1>0. operation' = operation /\ \A d \in Calls : Kind(d)' = Kind(d) /\ MaxRetries(d)' = MaxRetries(d)
  BY OperationsStay
<1> DEFINE Outcomes == {"none", "true", "false", "thrown", "found", "miss"}
<1>p. /\ operation \in Programs /\ up \subseteq Nodes
      /\ queue \in [Nodes -> Seq(Calls)] /\ late \in [Nodes -> Seq(Calls)]
      /\ value \in [Nodes -> Seq(Calls)] /\ log \in [Nodes -> Seq(Calls)]
      /\ replies \in [Nodes -> Seq(Answers)] /\ stage \in [Calls -> Stages]
      /\ todo \in [Calls -> Seq(Nodes)] /\ leg \in [Calls -> [Nodes -> Legs]]
      /\ outcome \in [Calls -> Outcomes]
      /\ steady \in [Calls -> SUBSET Nodes] /\ faults \in 0 .. MaxFaults
      /\ CommandsPaired /\ \A c \in Calls : CallShape(c)
  BY TypeParts
<1>q. ASSUME /\ up' \subseteq Nodes
             /\ queue' \in [Nodes -> Seq(Calls)] /\ late' \in [Nodes -> Seq(Calls)]
             /\ value' \in [Nodes -> Seq(Calls)] /\ log' \in [Nodes -> Seq(Calls)]
             /\ replies' \in [Nodes -> Seq(Answers)] /\ stage' \in [Calls -> Stages]
             /\ todo' \in [Calls -> Seq(Nodes)] /\ leg' \in [Calls -> [Nodes -> Legs]]
             /\ outcome' \in [Calls -> Outcomes]
             /\ steady' \in [Calls -> SUBSET Nodes] /\ faults' \in 0 .. MaxFaults
             /\ CommandsPaired' /\ \A c \in Calls : CallShape(c)'
      PROVE  Types'
  BY <1>0, <1>p, <1>q DEF Types, TypeOK, Answers, Word, Stages, Legs
<1> HIDE DEF Outcomes
<1>1. ASSUME NEW c \in Calls, Call(c) PROVE Types'
  <2>1. /\ stage[c] \in {"idle", "connecting"} /\ Kind(c) \in Writes \cup {"get"} /\ Locate(c, Replicas, up)
        /\ UNCHANGED <<operation, up, replies, late, value, log, outcome, faults>>
    BY <1>1 DEF Call
  <2>2. steady' \in [Calls -> SUBSET Nodes]
    BY <1>1, <1>p DEF Call
  <2>3. /\ leg' \in [Calls -> [Nodes -> Legs]] /\ stage' \in [Calls -> Stages]
        /\ queue' \in [Nodes -> Seq(Calls)] /\ todo' \in [Calls -> Seq(Nodes)]
        /\ CommandsPaired' /\ \A d \in Calls : CallShape(d)'
    BY <1>0, <2>1, NodesOfReplicas, LocateTypes
  <2> QED
    BY <1>p, <1>q, <2>1, <2>2, <2>3
<1>2. ASSUME NEW c \in Calls, CallGets(c) PROVE Types'
  <2>1. /\ stage[c] = "idle" /\ Kind(c) \in Reads /\ outcome[c] = "none"
        /\ stage' = [stage EXCEPT ![c] = "asking"] /\ todo' = [todo EXCEPT ![c] = Replicas]
        /\ UNCHANGED <<operation, up, wires, leg, outcome, faults>>
    BY <1>2, <1>p DEF CallGets, Reads, CallShape
  <2>2. steady' \in [Calls -> SUBSET Nodes]
    BY <1>2, <1>p DEF CallGets
  <2>3. PICK where \in {"asking", "dialing", "done"}, rest \in Seq(Nodes), how \in {"none", "found", "miss"} :
           where = "asking" /\ rest = Replicas /\ how = "none"
    BY NodesOfReplicas
  <2>4. /\ stage' = [stage EXCEPT ![c] = where] /\ todo' = [todo EXCEPT ![c] = rest]
        /\ outcome' = [outcome EXCEPT ![c] = how] /\ where # "done" /\ where # "dialing"
        /\ UNCHANGED <<leg, queue, replies>> /\ stage[c] # "asked"
    BY <1>p, <2>1, <2>3 DEF wires
  <2>5. CommandsPaired' /\ \A d \in Calls : CallShape(d)'
    BY <1>0, <2>1, <2>3, <2>4, ReadOnTypes
  <2>6. stage' \in [Calls -> Stages] /\ todo' \in [Calls -> Seq(Nodes)]
    BY <1>p, <2>1, NodesOfReplicas DEF Stages
  <2> QED
    BY <1>p, <1>q, <2>1, <2>2, <2>5, <2>6 DEF wires
<1>3. ASSUME NEW c \in Calls, CallAll(c) PROVE Types'
  <2> DEFINE legs == [n \in Nodes |-> IF n \in up THEN Sent(0) ELSE Leg("connecting", 0, "none")]
  <2>1. /\ stage[c] \in {"idle", "connecting"} /\ Kind(c) \notin Reads
        /\ stage' = [stage EXCEPT ![c] = "running"] /\ leg' = [leg EXCEPT ![c] = legs]
        /\ queue' = [n \in Nodes |-> IF n \in up THEN Append(queue[n], c) ELSE queue[n]]
        /\ UNCHANGED <<operation, up, replies, late, value, log, todo, outcome, steady, faults>>
    BY <1>3 DEF CallAll, Reads
  <2>2. /\ legs \in [Nodes -> Legs]
        /\ \A n \in Nodes : /\ n \in up => legs[n].stage = "sent"
                            /\ legs[n].attempt <= MaxRetries(c)
                            /\ legs[n].stage = "sleeping" => legs[n].attempt < MaxRetries(c)
    BY RetriesAreBounded DEF Sent, Leg, Legs
  <2> HIDE DEF legs
  <2>3. /\ leg' \in [Calls -> [Nodes -> Legs]] /\ stage' \in [Calls -> Stages]
        /\ queue' \in [Nodes -> Seq(Calls)]
        /\ CommandsPaired' /\ \A d \in Calls : CallShape(d)'
    BY <1>0, <2>1, <2>2, IssuedTypes
  <2> QED
    BY <1>p, <1>q, <2>1, <2>3
<1>4. ASSUME NEW c \in Calls, Connected(c) PROVE Types'
  <2>1. /\ stage[c] \in {"idle", "connecting"} /\ todo[c] # <<>> /\ Kind(c) \in Writes \cup {"get"}
        /\ up' = up \cup {Head(todo[c])} /\ Locate(c, Tail(todo[c]), up')
        /\ UNCHANGED <<operation, replies, late, value, log, outcome, steady, faults>>
    BY <1>4, <1>p DEF Connected, CallShape
  <2>2. PICK path \in Seq(Nodes), connected \in SUBSET Nodes : path = Tail(todo[c]) /\ connected = up'
    <3>1. Tail(todo[c]) \in Seq(Nodes) /\ Head(todo[c]) \in Nodes
      BY <1>p, <2>1
    <3> QED
      BY <1>p, <2>1, <3>1
  <2>3. Locate(c, path, connected)
    BY <2>1, <2>2
  <2>4. /\ leg' \in [Calls -> [Nodes -> Legs]] /\ stage' \in [Calls -> Stages]
        /\ queue' \in [Nodes -> Seq(Calls)] /\ todo' \in [Calls -> Seq(Nodes)]
        /\ CommandsPaired' /\ \A d \in Calls : CallShape(d)'
    BY <1>0, <2>1, <2>3, LocateTypes
  <2> QED
    BY <1>p, <1>q, <2>1, <2>2, <2>4
<1>5. ASSUME NEW c \in Calls, NotConnected(c) \/ Settle(c) PROVE Types'
  <2>1. PICK how \in {"true", "false", "thrown"} :
           /\ stage[c] \in {"connecting", "running"}
           /\ stage' = [stage EXCEPT ![c] = "done"] /\ outcome' = [outcome EXCEPT ![c] = how]
           /\ UNCHANGED <<operation, up, wires, todo, leg, steady>>
    BY <1>5 DEF NotConnected, Settle
  <2>2. faults' \in 0 .. MaxFaults
    BY <1>5, <1>p, FaultCounts DEF NotConnected, Settle
  <2>3. UNCHANGED <<todo, leg, queue, replies>>
    BY <2>1 DEF wires
  <2>4. CommandsPaired' /\ \A d \in Calls : CallShape(d)'
    BY <1>0, <2>1, <2>3, SettleTypes
  <2>5. stage' \in [Calls -> Stages] /\ outcome' \in [Calls -> Outcomes]
    BY <1>p, <2>1 DEF Stages, Outcomes
  <2> QED
    BY <1>p, <1>q, <2>1, <2>2, <2>4, <2>5 DEF wires
<1>6. ASSUME NEW c \in Calls, Ask(c) \/ NotDialed(c) \/ Miss(c) PROVE Types'
  <2>1. /\ stage[c] \in {"asking", "dialing"} /\ Kind(c) \in Reads /\ outcome[c] = "none"
        /\ stage[c] = "dialing" => todo[c] # <<>>
    BY <1>6, <1>p DEF Ask, NotDialed, Miss, CallShape
  <2>2. /\ faults' \in 0 .. MaxFaults /\ steady' \in [Calls -> SUBSET Nodes]
        /\ UNCHANGED <<operation, up, replies, late, value, log, leg>>
    <3>1. CASE Ask(c) \/ Miss(c)
      BY <1>p, <3>1 DEF Ask, Miss, wires
    <3>2. CASE NotDialed(c)
      <4>1. Fault /\ steady' = [steady EXCEPT ![c] = @ \ {Head(todo[c])}]
            /\ UNCHANGED <<operation, up, wires, leg, outcome>>
        BY <3>2 DEF NotDialed
      <4>2. steady' \in [Calls -> SUBSET Nodes]
        BY <1>p, <4>1
      <4> QED
        BY <4>1, <4>2, FaultCounts DEF wires
    <3> QED
      BY <1>6, <3>1, <3>2
  <2>3. todo[c] # <<>> => Tail(todo[c]) \in Seq(Nodes) /\ Head(todo[c]) \in Nodes
    BY <1>p
  <2>4. CASE Ask(c) /\ Head(todo[c]) \in up
    <3>1. /\ todo[c] # <<>> /\ stage' = [stage EXCEPT ![c] = "asked"]
          /\ queue' = [queue EXCEPT ![Head(todo[c])] = Append(@, c)]
          /\ UNCHANGED <<replies, todo, leg, outcome, faults, steady>>
      BY <2>4 DEF Ask
    <3>2. PICK n \in Nodes : n = Head(todo[c])
      BY <2>3, <3>1
    <3>3. queue' = [queue EXCEPT ![n] = Append(@, c)]
      BY <3>1, <3>2
    <3>4. /\ stage' \in [Calls -> Stages] /\ queue' \in [Nodes -> Seq(Calls)]
          /\ CommandsPaired' /\ \A d \in Calls : CallShape(d)'
      BY <1>0, <2>1, <3>1, <3>2, <3>3, AskTypes
    <3> QED
      BY <1>p, <1>q, <2>2, <3>1, <3>4
  <2>5. CASE ~(Ask(c) /\ Head(todo[c]) \in up)
    <3>1. PICK where \in {"asking", "dialing", "done"}, rest \in Seq(Nodes), how \in {"none", "found", "miss"} :
             /\ stage' = [stage EXCEPT ![c] = where] /\ todo' = [todo EXCEPT ![c] = rest]
             /\ outcome' = [outcome EXCEPT ![c] = how] /\ queue' = queue
             /\ where = "dialing" => rest # <<>> /\ Kind(c) = "gets"
             /\ where # "done" => how = "none"
      <4>1. todo' = [todo EXCEPT ![c] = todo[c]] \/ todo' # todo
        BY <1>p
      <4>2. outcome' = [outcome EXCEPT ![c] = "none"] \/ outcome' # outcome
        BY <1>p, <2>1
      <4>3. stage' = [stage EXCEPT ![c] = stage[c]] \/ stage' # stage
        BY <1>p
      <4>4. CASE Ask(c) /\ Head(todo[c]) \notin up /\ Kind(c) = "get"
        <5>1. /\ todo[c] # <<>> /\ stage[c] = "asking"
              /\ todo' = [todo EXCEPT ![c] = Tail(todo[c])] /\ UNCHANGED <<stage, queue, outcome>>
          BY <4>4 DEF Ask
        <5> QED
          BY <2>3, <4>2, <4>3, <5>1
      <4>5. CASE Ask(c) /\ Head(todo[c]) \notin up /\ Kind(c) = "gets"
        <5>1. /\ todo[c] # <<>> /\ stage' = [stage EXCEPT ![c] = "dialing"]
              /\ UNCHANGED <<todo, queue, outcome>>
          BY <4>5 DEF Ask
        <5> QED
          BY <1>p, <4>1, <4>2, <4>5, <5>1
      <4>6. CASE NotDialed(c)
        <5>1. /\ stage' = [stage EXCEPT ![c] = "asking"] /\ todo[c] # <<>>
              /\ todo' = [todo EXCEPT ![c] = Tail(todo[c])] /\ UNCHANGED <<queue, outcome>>
          BY <2>1, <4>6 DEF NotDialed, wires
        <5> QED
          BY <2>3, <4>2, <5>1
      <4>7. CASE Miss(c)
        <5>1. /\ stage' = [stage EXCEPT ![c] = "done"] /\ outcome' = [outcome EXCEPT ![c] = "miss"]
              /\ UNCHANGED <<todo, queue>>
          BY <4>7 DEF Miss, wires
        <5> QED
          BY <1>p, <4>1, <5>1
      <4> QED
        BY <1>6, <2>1, <2>5, <4>4, <4>5, <4>6, <4>7 DEF Reads
    <3>2. UNCHANGED <<leg, queue, replies>> /\ stage[c] # "asked"
      BY <2>1, <2>2, <3>1
    <3>3. CommandsPaired' /\ \A d \in Calls : CallShape(d)'
      BY <1>0, <2>1, <3>1, <3>2, ReadOnTypes
    <3>4. stage' \in [Calls -> Stages] /\ todo' \in [Calls -> Seq(Nodes)] /\ outcome' \in [Calls -> Outcomes]
      BY <1>p, <3>1 DEF Stages, Outcomes
    <3> QED
      BY <1>p, <1>q, <2>2, <3>2, <3>3, <3>4
  <2> QED
    BY <2>4, <2>5
<1>7. ASSUME NEW c \in Calls, Dialed(c) PROVE Types'
  <2>1. /\ stage[c] = "dialing" /\ Kind(c) \in Reads /\ todo[c] # <<>> /\ Head(todo[c]) \in Nodes
        /\ up' = up \cup {Head(todo[c])} /\ stage' = [stage EXCEPT ![c] = "asked"]
        /\ UNCHANGED <<operation, replies, late, value, log, todo, leg, outcome, steady, faults>>
    <3>1. stage[c] = "dialing" /\ CallShape(c) /\ todo[c] \in Seq(Nodes)
      BY <1>7, <1>p DEF Dialed
    <3>2. todo[c] # <<>> /\ Kind(c) \in Reads
      BY <3>1 DEF CallShape, Reads
    <3>3. Head(todo[c]) \in Nodes
      BY <3>1, <3>2
    <3> QED
      BY <1>7, <3>1, <3>2, <3>3 DEF Dialed
  <2>2. PICK n \in Nodes : n = Head(todo[c]) /\ queue' = [queue EXCEPT ![n] = Append(@, c)]
    BY <1>7, <2>1 DEF Dialed
  <2>3. /\ stage' \in [Calls -> Stages] /\ queue' \in [Nodes -> Seq(Calls)]
        /\ CommandsPaired' /\ \A d \in Calls : CallShape(d)'
    BY <1>0, <2>1, <2>2, AskTypes
  <2> QED
    BY <1>p, <1>q, <2>1, <2>3
<1>8. ASSUME NEW c \in Calls, NEW n \in Nodes, Wake(c, n) PROVE Types'
  <2>1. leg[c][n].stage = "sleeping" /\ leg[c][n].attempt < MaxRetries(c)
        /\ UNCHANGED <<operation, up, replies, late, value, log, stage, todo, outcome, steady, faults>>
    BY <1>8, <1>p DEF Wake, CallShape
  <2>2. Kind(c) \notin Reads /\ leg[c][n].attempt + 1 \in 0 .. MaxRetries(c)
    BY <2>1, LegOfWrite, RetriesAreBounded
  <2>3. PICK x \in Legs :
           /\ leg' = [leg EXCEPT ![c][n] = x] /\ x.stage \in {"sent", "connecting"}
           /\ x.attempt <= MaxRetries(c)
           /\ queue' = [queue EXCEPT ![n] = IF x.stage = "sent" THEN Append(@, c) ELSE @]
    <3> DEFINE attempt == leg[c][n].attempt + 1
    <3>1. CASE n \in up
      <4>1. leg' = [leg EXCEPT ![c][n] = Sent(attempt)] /\ queue' = [queue EXCEPT ![n] = Append(@, c)]
        BY <1>8, <3>1 DEF Wake
      <4>2. /\ Sent(attempt) \in Legs /\ Sent(attempt).stage = "sent"
            /\ Sent(attempt).attempt <= MaxRetries(c)
        BY <2>2, RetriesAreBounded DEF Sent, Leg, Legs
      <4> QED
        BY <4>1, <4>2
    <3>2. CASE n \notin up
      <4>1. leg' = [leg EXCEPT ![c][n] = Leg("connecting", attempt, "none")] /\ queue' = queue
        BY <1>8, <3>2 DEF Wake
      <4>2. /\ Leg("connecting", attempt, "none") \in Legs
            /\ Leg("connecting", attempt, "none").stage = "connecting"
            /\ Leg("connecting", attempt, "none").attempt <= MaxRetries(c)
        BY <2>2, RetriesAreBounded DEF Leg, Legs
      <4>3. queue' = [queue EXCEPT ![n] = queue[n]]
        BY <1>p, <4>1
      <4> QED
        BY <4>1, <4>2, <4>3
    <3> QED
      BY <3>1, <3>2
  <2>4. /\ leg' \in [Calls -> [Nodes -> Legs]] /\ stage' \in [Calls -> Stages]
        /\ queue' \in [Nodes -> Seq(Calls)]
        /\ CommandsPaired' /\ \A d \in Calls : CallShape(d)'
    BY <1>0, <2>1, <2>2, <2>3, LegTypes
  <2> QED
    BY <1>p, <1>q, <2>1, <2>4
<1>9. ASSUME NEW c \in Calls, NEW n \in Nodes, LegConnected(c, n) PROVE Types'
  <2>1. /\ leg[c][n].stage = "connecting" /\ up' = up \cup {n} /\ Resend(c, n, up')
        /\ UNCHANGED <<operation, replies, late, value, log, stage, todo, outcome, steady, faults>>
    BY <1>9 DEF LegConnected
  <2>2. PICK connected : connected = up'
    OBVIOUS
  <2>3. Resend(c, n, connected)
    BY <2>1, <2>2
  <2>4. /\ leg' \in [Calls -> [Nodes -> Legs]] /\ stage' \in [Calls -> Stages]
        /\ queue' \in [Nodes -> Seq(Calls)]
        /\ CommandsPaired' /\ \A d \in Calls : CallShape(d)'
    BY <1>0, <2>1, <2>3, ResendTypes
  <2> QED
    BY <1>p, <1>q, <2>1, <2>4
<1>10. ASSUME NEW c \in Calls, NEW n \in Nodes, LegNotConnected(c, n) PROVE Types'
  <2>1. /\ leg[c][n].stage = "connecting" /\ faults' \in 0 .. MaxFaults
        /\ UNCHANGED <<operation, up, replies, late, value, log, todo, steady>>
    BY <1>10, FaultCounts DEF LegNotConnected
  <2>2. CASE Resend(c, n, up) /\ UNCHANGED <<stage, outcome>>
    <3>1. /\ leg' \in [Calls -> [Nodes -> Legs]] /\ stage' \in [Calls -> Stages]
          /\ queue' \in [Nodes -> Seq(Calls)]
          /\ CommandsPaired' /\ \A d \in Calls : CallShape(d)'
      BY <1>0, <2>1, <2>2, ResendTypes
    <3> QED
      BY <1>p, <1>q, <2>1, <2>2, <3>1
  <2>3. CASE /\ leg' = [leg EXCEPT ![c][n] = Failed(c, 0)]
             /\ stage' = [stage EXCEPT ![c] = "done"]
             /\ outcome' = [outcome EXCEPT ![c] = "thrown"]
             /\ UNCHANGED queue
    <3>1. Kind(c) \notin Reads /\ 0 \in 0 .. MaxRetries(c)
      BY <2>1, LegOfWrite, RetriesAreBounded
    <3>2. PICK x \in Legs : /\ x = Failed(c, 0) /\ x.stage \in {"sleeping", "ended"}
                            /\ x.attempt <= MaxRetries(c)
                            /\ x.stage = "sleeping" => x.attempt < MaxRetries(c)
      BY <3>1, FailedLeg
    <3>3. /\ leg' = [leg EXCEPT ![c][n] = x]
          /\ queue' = [queue EXCEPT ![n] = IF x.stage = "sent" THEN Append(@, c) ELSE @]
      BY <1>p, <2>3, <3>2
    <3>4. /\ leg' \in [Calls -> [Nodes -> Legs]] /\ stage' \in [Calls -> Stages]
          /\ queue' \in [Nodes -> Seq(Calls)] /\ outcome' \in [Calls -> Outcomes]
          /\ CommandsPaired' /\ \A d \in Calls : CallShape(d)'
      BY <1>0, <2>1, <2>3, <3>1, <3>2, <3>3, LegTypes DEF Outcomes
    <3> QED
      BY <1>p, <1>q, <2>1, <3>4
  <2> QED
    BY <1>10, <2>2, <2>3 DEF LegNotConnected
<1>11. ASSUME NEW n \in Nodes, Executes(n) PROVE Types'
  <2>1. PICK word \in Word :
           /\ queue[n] # <<>> /\ queue' = [queue EXCEPT ![n] = Tail(@)]
           /\ replies' = [replies EXCEPT ![n] = Append(@, [call |-> Head(queue[n]), word |-> word])]
           /\ UNCHANGED <<operation, up, late, stage, todo, leg, outcome>>
    BY <1>11 DEF Executes, Word
  <2>2. Head(queue[n]) \in Calls
    BY <1>p, <2>1
  <2>3. /\ value' \in [Nodes -> Seq(Calls)] /\ log' \in [Nodes -> Seq(Calls)]
        /\ steady' \in [Calls -> SUBSET Nodes] /\ faults' \in 0 .. MaxFaults
    <3>1. CASE Fault /\ steady' = [steady EXCEPT ![Head(queue[n])] = @ \ {n}] /\ UNCHANGED <<value, log>>
      BY <1>p, <3>1, FaultCounts
    <3>2. CASE Performs(n, Head(queue[n])) /\ UNCHANGED faults
      BY <1>p, <2>2, <3>2, PerformsTypes DEF Types
    <3>3. CASE UNCHANGED <<value, log, steady, faults>>
      BY <1>p, <3>3
    <3> QED
      BY <1>11, <3>1, <3>2, <3>3 DEF Executes
  <2>4. /\ queue' \in [Nodes -> Seq(Calls)] /\ replies' \in [Nodes -> Seq(Answers)]
        /\ CommandsPaired' /\ \A d \in Calls : CallShape(d)'
    BY <1>0, <2>1, ExecutesTypes
  <2> QED
    BY <1>p, <1>q, <2>1, <2>3, <2>4
<1>12. ASSUME NEW n \in Nodes, ExecutesLate(n) PROVE Types'
  <2>1. /\ late[n] # <<>> /\ late' = [late EXCEPT ![n] = Tail(@)]
        /\ UNCHANGED <<operation, up, queue, replies, stage, todo, leg, outcome, faults>>
    BY <1>12 DEF ExecutesLate
  <2>2. Head(late[n]) \in Calls /\ Tail(late[n]) \in Seq(Calls)
    BY <1>p, <2>1
  <2>3. /\ value' \in [Nodes -> Seq(Calls)] /\ log' \in [Nodes -> Seq(Calls)]
        /\ steady' \in [Calls -> SUBSET Nodes]
    <3>1. CASE UNCHANGED <<value, log, steady>>
      BY <1>p, <3>1
    <3>2. CASE Performs(n, Head(late[n]))
      BY <2>2, <3>2, PerformsTypes DEF Types
    <3> QED
      BY <1>12, <3>1, <3>2 DEF ExecutesLate
  <2>4. \A d \in Calls : /\ CallShape(d)'
                         /\ \A m \in Nodes : Outstanding(d, m)' <=> Outstanding(d, m)
    BY <1>0, <1>p, <2>1, Untouched
  <2>5. \A m \in Nodes : Out(m)' = Out(m)
    BY <2>4 DEF Out
  <2>6. CommandsPaired'
    BY <1>p, <2>1, <2>5 DEF CommandsPaired
  <2>7. late' \in [Nodes -> Seq(Calls)]
    BY <1>p, <2>1, <2>2
  <2> QED
    BY <1>p, <1>q, <2>1, <2>3, <2>4, <2>6, <2>7
<1>13. ASSUME NEW n \in Nodes, Deliver(n) PROVE Types'
  <2>1. UNCHANGED <<operation, up, queue, late, value, log, steady, faults>>
    BY <1>13 DEF Deliver
  <2> QED
    BY <1>0, <1>p, <1>q, <1>13, <2>1, DeliverTypes DEF Outcomes
<1>14. ASSUME NEW n \in Nodes, Lost(n) PROVE Types'
  <2>1. up' \subseteq Nodes /\ faults' \in 0 .. MaxFaults /\ UNCHANGED <<value, log>>
    BY <1>14, <1>p, FaultCounts DEF Lost
  <2> QED
    BY <1>0, <1>p, <1>q, <1>14, <2>1, LostTypes DEF Outcomes
<1>15. CASE UNCHANGED vars
  <2>1. UNCHANGED <<operation, up, queue, replies, late, value, log, stage, todo, leg, outcome, steady, faults>>
    BY <1>15 DEF vars, wires
  <2>2. \A d \in Calls : /\ CallShape(d)'
                         /\ \A m \in Nodes : Outstanding(d, m)' <=> Outstanding(d, m)
    BY <1>0, <1>p, <2>1, Untouched
  <2>3. \A m \in Nodes : Out(m)' = Out(m)
    BY <2>2 DEF Out
  <2>4. CommandsPaired'
    BY <1>p, <2>1, <2>3 DEF CommandsPaired
  <2> QED
    BY <1>p, <1>q, <2>1, <2>2, <2>4
<1> QED
  BY <1>1, <1>2, <1>3, <1>4, <1>5, <1>6, <1>7, <1>8, <1>9, <1>10, <1>11, <1>12, <1>13, <1>14, <1>15
  DEF Next, Event, Continue

\* Every state of every behaviour is well typed.  The commands that were sent
\* and the answers on their way are those the calls wait for, one of each, so
\* that an answer never goes to a call that has gone on (index.ts 1560-1604).
THEOREM TypeCorrect == Spec => []TypeOK
<1>1. Spec => []Types
  BY InitTypes, StepTypes, PTL DEF Spec
<1> QED
  BY <1>1, PTL DEF Types


-----------------------------------------------------------------------------
\* What a step does to a leg and to the commands of a node

\* getNodesByKey() issues the commands of call c to the connected nodes, or
\* sends none.
LEMMA LocateIssues ==
    ASSUME Types, NEW c \in Calls, NEW path \in Seq(Nodes), NEW connected, Locate(c, path, connected)
    PROVE  \/ UNCHANGED <<leg, queue>>
           \/ /\ \A d \in Calls, n \in Nodes :
                    leg'[d][n] = IF d # c THEN leg[d][n]
                                 ELSE IF n \in connected THEN Sent(0) ELSE Failed(c, 0)
              /\ \A n \in Nodes :
                    queue'[n] = IF n \in connected THEN Append(queue[n], c) ELSE queue[n]
<1>1. leg \in [Calls -> [Nodes -> Legs]]
  BY TypeParts
<1>2. CASE Begin(c, connected)
  <2>1. CASE UNCHANGED <<leg, queue>>
    BY <2>1
  <2>2. CASE Issued(c, connected)
    <3> DEFINE legs == [n \in Nodes |-> IF n \in connected THEN Sent(0) ELSE Failed(c, 0)]
    <3>1. leg' = [leg EXCEPT ![c] = legs]
          /\ queue' = [n \in Nodes |-> IF n \in connected THEN Append(queue[n], c) ELSE queue[n]]
      BY <2>2 DEF Issued
    <3>2. \A n \in Nodes : legs[n] = IF n \in connected THEN Sent(0) ELSE Failed(c, 0)
      OBVIOUS
    <3> HIDE DEF legs
    <3>3. \A d \in Calls : leg'[d] = IF d = c THEN legs ELSE leg[d]
      BY <1>1, <3>1
    <3>4. \A d \in Calls, n \in Nodes :
             leg'[d][n] = IF d # c THEN leg[d][n]
                          ELSE IF n \in connected THEN Sent(0) ELSE Failed(c, 0)
      BY <3>2, <3>3
    <3>5. \A n \in Nodes : queue'[n] = IF n \in connected THEN Append(queue[n], c) ELSE queue[n]
      BY <3>1
    <3> QED
      BY <3>4, <3>5
  <2> QED
    BY <1>2, <2>1, <2>2 DEF Begin
<1> QED
  BY <1>2, LocateEffect

\* Call c sends a command to node n when its leg there has not begun, or has
\* to be sent again.
Sends(c, n) ==
    /\ queue'[n] = Append(queue[n], c)
    /\ Kind(c) \notin Reads => /\ leg[c][n].stage \in {"none", "connecting", "sleeping"}
                               /\ leg'[c][n].stage = "sent"

\* Command c of node n leaves the commands s, executed or not.
Leaves(n, s) ==
    /\ s[n] # <<>>
    /\ \/ log'[n] = log[n]
       \/ Kind(Head(s[n])) \notin Reads /\ log'[n] = Append(log[n], Head(s[n]))

WireStep(n) ==
    \/ UNCHANGED <<queue[n], late[n], log[n]>>
    \/ (\E c \in Calls : Sends(c, n)) /\ UNCHANGED <<late[n], log[n]>>
    \/ Leaves(n, queue) /\ queue'[n] = Tail(queue[n]) /\ late'[n] = late[n]
    \/ Leaves(n, late) /\ late'[n] = Tail(late[n]) /\ queue'[n] = queue[n]
    \/ Lost(n) /\ queue'[n] = <<>> /\ late'[n] = late[n] \o queue[n] /\ log'[n] = log[n]

\* A leg that waits to be sent did before, or is to be sent again; one that
\* has a good answer had one, or it was the next.
LegStep(c, n) ==
    /\ leg'[c][n].stage \in {"none", "connecting"} =>
          leg'[c][n] = leg[c][n] \/ leg[c][n].stage \in {"none", "sleeping"}
    /\ leg'[c][n].reply = "ok" =>
          \/ leg[c][n].reply = "ok"
          \/ replies[n] # <<>> /\ Head(replies[n]) = [call |-> c, word |-> "ok"]

LEMMA IdleMeansNoLeg ==
    ASSUME Types, NEW c \in Calls, NEW n \in Nodes, stage[c] \in {"idle", "connecting"}
    PROVE  leg[c][n].stage = "none"
BY DEF Types, CallShape, NoLeg, Leg

LEMMA StepLeg ==
    ASSUME Types, [Next]_vars, NEW c \in Calls, NEW n \in Nodes
    PROVE  LegStep(c, n)
<1>1. leg \in [Calls -> [Nodes -> Legs]] /\ todo \in [Calls -> Seq(Nodes)] /\ up \subseteq Nodes
      /\ replies \in [Nodes -> Seq(Answers)]
  BY TypeParts
<1>2. ASSUME leg'[c][n] = leg[c][n] PROVE LegStep(c, n)
  BY <1>2 DEF LegStep
<1>3. ASSUME NEW attempt, \/ leg'[c][n] = Failed(c, attempt) \/ leg'[c][n] = Sent(attempt)
                          \/ /\ leg'[c][n] = Leg("connecting", attempt, "none")
                             /\ leg[c][n].stage \in {"none", "sleeping"}
      PROVE  LegStep(c, n)
  BY <1>3 DEF LegStep, Failed, Sent, Leg
<1>4. ASSUME NEW d \in Calls, Call(d) \/ Connected(d) PROVE LegStep(c, n)
  <2>1. PICK path, connected : path \in Seq(Nodes) /\ Locate(d, path, connected)
    <3>1. CASE Call(d)
      BY <3>1, NodesOfReplicas DEF Call
    <3>2. CASE Connected(d)
      <4>1. todo[d] # <<>> /\ todo[d] \in Seq(Nodes) /\ Locate(d, Tail(todo[d]), up')
        BY <1>1, <3>2 DEF Connected, Types, CallShape
      <4>2. Tail(todo[d]) \in Seq(Nodes)
        BY <4>1
      <4> QED
        BY <4>1, <4>2
    <3> QED
      BY <1>4, <3>1, <3>2
  <2>2. leg' = leg \/ (leg'[c][n] = IF c # d THEN leg[c][n]
                                   ELSE IF n \in connected THEN Sent(0) ELSE Failed(d, 0))
    BY <2>1, LocateIssues
  <2> QED
    BY <1>2, <1>3, <2>2
<1>5. ASSUME NEW d \in Calls, CallAll(d) PROVE LegStep(c, n)
  <2>1. leg' = [leg EXCEPT ![d] = [m \in Nodes |->
                   IF m \in up THEN Sent(0) ELSE Leg("connecting", 0, "none")]] /\ stage[d] = "idle"
    BY <1>5 DEF CallAll
  <2>2. leg'[c][n] = IF c # d THEN leg[c][n]
                     ELSE IF n \in up THEN Sent(0) ELSE Leg("connecting", 0, "none")
    BY <1>1, <2>1
  <2>3. c = d => leg[c][n].stage = "none"
    BY <2>1, IdleMeansNoLeg
  <2> QED
    BY <1>2, <1>3, <2>2, <2>3
<1>6. ASSUME NEW d \in Calls, NEW m \in Nodes, Wake(d, m) \/ LegConnected(d, m) \/ LegNotConnected(d, m)
      PROVE  LegStep(c, n)
  <2>1. CASE Wake(d, m)
    <3>1. PICK attempt :
             \/ leg' = [leg EXCEPT ![d][m] = Sent(attempt)]
             \/ leg' = [leg EXCEPT ![d][m] = Leg("connecting", attempt, "none")]
      BY <2>1 DEF Wake
    <3>2. leg[d][m].stage = "sleeping"
      BY <2>1 DEF Wake
    <3>3. \/ leg'[c][n] = leg[c][n]
          \/ leg'[c][n] = Sent(attempt)
          \/ leg'[c][n] = Leg("connecting", attempt, "none") /\ leg[c][n].stage = "sleeping"
      <4>1. CASE c = d /\ n = m
        BY <1>1, <3>1, <3>2, <4>1
      <4>2. CASE ~(c = d /\ n = m)
        <5>1. \A x : [leg EXCEPT ![d][m] = x][c][n] = leg[c][n]
          BY <1>1, <4>2
        <5> QED
          BY <3>1, <5>1
      <4> QED
        BY <4>1, <4>2
    <3> QED
      BY <1>2, <1>3, <3>3
  <2>2. CASE LegConnected(d, m) \/ LegNotConnected(d, m)
    <3>1. PICK attempt :
             \/ leg' = [leg EXCEPT ![d][m] = Sent(attempt)]
             \/ leg' = [leg EXCEPT ![d][m] = Failed(d, attempt)]
      BY <2>2 DEF LegConnected, LegNotConnected, Resend
    <3>2. leg'[c][n] = leg[c][n] \/ leg'[c][n] = Sent(attempt) \/ leg'[c][n] = Failed(c, attempt)
      <4>1. CASE c = d /\ n = m
        BY <1>1, <3>1, <4>1
      <4>2. CASE ~(c = d /\ n = m)
        <5>1. \A x : [leg EXCEPT ![d][m] = x][c][n] = leg[c][n]
          BY <1>1, <4>2
        <5> QED
          BY <3>1, <5>1
      <4> QED
        BY <4>1, <4>2
    <3> QED
      BY <1>2, <1>3, <3>2
  <2> QED
    BY <1>6, <2>1, <2>2
<1>7. ASSUME NEW m \in Nodes, Deliver(m) PROVE LegStep(c, n)
  <2>1. replies[m] # <<>> /\ Head(replies[m]) \in Answers
    BY <1>7, AnswerIsAwaited DEF Deliver
  <2>2. PICK d \in Calls, word \in Word : Head(replies[m]) = [call |-> d, word |-> word]
    BY <2>1 DEF Answers
  <2>3. \/ leg' = leg
        \/ leg' = [leg EXCEPT ![d][m] = IF word = "error" THEN Failed(d, leg[d][m].attempt)
                                        ELSE Leg("ended", leg[d][m].attempt, word)]
    BY <1>7, <2>2 DEF Deliver
  <2>4. \/ leg'[c][n] = leg[c][n]
        \/ leg'[c][n] = Failed(c, leg[c][n].attempt)
        \/ leg'[c][n] = Leg("ended", leg[c][n].attempt, word) /\ c = d /\ n = m
    BY <1>1, <2>3
  <2>5. CASE leg'[c][n] = Leg("ended", leg[c][n].attempt, word) /\ c = d /\ n = m
    BY <2>1, <2>2, <2>5 DEF LegStep, Leg
  <2> QED
    BY <1>2, <1>3, <2>4, <2>5
<1>8. ASSUME NEW m \in Nodes, Lost(m) PROVE LegStep(c, n)
  <2>1. \/ leg'[c] = leg[c]
        \/ leg'[c] = [leg[c] EXCEPT ![m] = Failed(c, leg[c][m].attempt)]
    BY <1>8 DEF Lost
  <2>2. leg'[c][n] = leg[c][n] \/ leg'[c][n] = Failed(c, leg[c][m].attempt)
    BY <1>1, <2>1
  <2> QED
    BY <1>2, <1>3, <2>2
<1>9. CASE \/ \E d \in Calls : \/ CallGets(d) \/ NotConnected(d) \/ Ask(d) \/ Dialed(d) \/ NotDialed(d)
                               \/ Miss(d) \/ Settle(d)
           \/ \E m \in Nodes : Executes(m) \/ ExecutesLate(m)
           \/ UNCHANGED vars
  <2>1. leg' = leg
    BY <1>9 DEF CallGets, NotConnected, Ask, Dialed, NotDialed, Miss, Settle, Executes, ExecutesLate, vars
  <2> QED
    BY <1>2, <2>1
<1> QED
  BY <1>4, <1>5, <1>6, <1>7, <1>8, <1>9 DEF Next, Event, Continue

LEMMA LocatePath ==
    ASSUME Types, NEW c \in Calls, Call(c) \/ Connected(c)
    PROVE  /\ \E path \in Seq(Nodes) : \E connected : Locate(c, path, connected)
           /\ UNCHANGED <<late, log>>
           /\ stage[c] \in {"idle", "connecting"}
<1>1. CASE Call(c)
  BY <1>1, NodesOfReplicas DEF Call
<1>2. CASE Connected(c)
  <2>1. /\ todo[c] # <<>> /\ todo[c] \in Seq(Nodes) /\ Locate(c, Tail(todo[c]), up')
        /\ stage[c] = "connecting" /\ UNCHANGED <<late, log>>
    BY <1>2, TypeParts DEF Connected, Types, CallShape
  <2>2. Tail(todo[c]) \in Seq(Nodes)
    BY <2>1
  <2> QED
    BY <2>1, <2>2
<1> QED
  BY <1>1, <1>2

LEMMA StepWires ==
    ASSUME Types, [Next]_vars, NEW n \in Nodes
    PROVE  WireStep(n)
<1>1. /\ leg \in [Calls -> [Nodes -> Legs]] /\ todo \in [Calls -> Seq(Nodes)]
      /\ queue \in [Nodes -> Seq(Calls)] /\ late \in [Nodes -> Seq(Calls)] /\ log \in [Nodes -> Seq(Calls)]
  BY TypeParts
<1>2. ASSUME UNCHANGED <<queue, late, log>> PROVE WireStep(n)
  BY <1>2 DEF WireStep
\* A leg that goes on, and sends its command or not.
<1>3. ASSUME NEW c \in Calls, NEW m \in Nodes, leg[c][m].stage \in {"none", "connecting", "sleeping"},
             UNCHANGED <<late, log>>,
             \/ UNCHANGED queue
             \/ /\ queue' = [queue EXCEPT ![m] = Append(@, c)] /\ leg'[c][m].stage = "sent"
      PROVE  WireStep(n)
  <2>1. queue'[n] = queue[n] \/ (m = n /\ Sends(c, n))
    BY <1>1, <1>3 DEF Sends
  <2> QED
    BY <1>3, <2>1 DEF WireStep
<1>4. ASSUME NEW c \in Calls, Call(c) \/ Connected(c) PROVE WireStep(n)
  <2>1. PICK path, connected : path \in Seq(Nodes) /\ Locate(c, path, connected)
    BY <1>4, LocatePath
  <2>2. \/ queue' = queue
        \/ leg'[c][n] = (IF n \in connected THEN Sent(0) ELSE Failed(c, 0))
           /\ queue'[n] = IF n \in connected THEN Append(queue[n], c) ELSE queue[n]
    BY <2>1, LocateIssues
  <2>3. leg[c][n].stage = "none" /\ UNCHANGED <<late, log>>
    BY <1>4, LocatePath, IdleMeansNoLeg
  <2>4. Sent(0).stage = "sent"
    BY DEF Sent, Leg
  <2> QED
    BY <2>2, <2>3, <2>4 DEF WireStep, Sends
<1>5. ASSUME NEW c \in Calls, CallAll(c) PROVE WireStep(n)
  <2>1. /\ leg'[c][n] = (IF n \in up THEN Sent(0) ELSE Leg("connecting", 0, "none"))
        /\ queue'[n] = (IF n \in up THEN Append(queue[n], c) ELSE queue[n])
        /\ stage[c] = "idle" /\ UNCHANGED <<late, log>>
    BY <1>1, <1>5 DEF CallAll
  <2>2. leg[c][n].stage = "none"
    BY <2>1, IdleMeansNoLeg
  <2>3. Sent(0).stage = "sent"
    BY DEF Sent, Leg
  <2> QED
    BY <2>1, <2>2, <2>3 DEF WireStep, Sends
<1>6. ASSUME NEW c \in Calls, Ask(c) \/ Dialed(c) PROVE WireStep(n)
  <2>1. Kind(c) \in Reads /\ UNCHANGED <<late, log>>
    BY <1>6 DEF Ask, Dialed, Types, CallShape
  <2>2. PICK m : queue' = queue \/ queue' = [queue EXCEPT ![m] = Append(@, c)]
    BY <1>6 DEF Ask, Dialed
  <2>3. queue'[n] = queue[n] \/ queue'[n] = Append(queue[n], c)
    BY <1>1, <2>2
  <2> QED
    BY <2>1, <2>3 DEF WireStep, Sends
<1>7. ASSUME NEW c \in Calls, NEW m \in Nodes, Wake(c, m) PROVE WireStep(n)
  <2>1. leg[c][m].stage = "sleeping" /\ UNCHANGED <<late, log>>
    BY <1>7 DEF Wake
  <2>2. PICK attempt : \/ UNCHANGED queue
                       \/ /\ queue' = [queue EXCEPT ![m] = Append(@, c)]
                          /\ leg' = [leg EXCEPT ![c][m] = Sent(attempt)]
    BY <1>7 DEF Wake
  <2>3. Sent(attempt).stage = "sent"
    BY DEF Sent, Leg
  <2>4. UNCHANGED queue \/ (queue' = [queue EXCEPT ![m] = Append(@, c)] /\ leg'[c][m].stage = "sent")
    BY <1>1, <2>2, <2>3
  <2> QED
    BY <1>3, <2>1, <2>4
<1>8. ASSUME NEW c \in Calls, NEW m \in Nodes, LegConnected(c, m) \/ LegNotConnected(c, m) PROVE WireStep(n)
  <2>1. leg[c][m].stage = "connecting" /\ UNCHANGED <<late, log>>
    BY <1>8 DEF LegConnected, LegNotConnected
  <2>2. PICK attempt : \/ queue' = queue
                       \/ queue' = [queue EXCEPT ![m] = queue[m]]
                       \/ /\ queue' = [queue EXCEPT ![m] = Append(@, c)]
                          /\ leg' = [leg EXCEPT ![c][m] = Sent(attempt)]
    BY <1>8 DEF LegConnected, LegNotConnected, Resend
  <2>3. Sent(attempt).stage = "sent"
    BY DEF Sent, Leg
  <2>4. UNCHANGED queue \/ (queue' = [queue EXCEPT ![m] = Append(@, c)] /\ leg'[c][m].stage = "sent")
    BY <1>1, <2>2, <2>3
  <2> QED
    BY <1>3, <2>1, <2>4
<1>9. ASSUME NEW m \in Nodes, Executes(m) \/ ExecutesLate(m) PROVE WireStep(n)
  <2>1. PICK s \in {queue, late} :
           /\ s[m] # <<>>
           /\ \/ log' = log
              \/ Kind(Head(s[m])) \notin Reads /\ log' = [log EXCEPT ![m] = Append(@, Head(s[m]))]
           /\ \/ s = queue /\ queue' = [queue EXCEPT ![m] = Tail(@)] /\ late' = late
              \/ s = late /\ late' = [late EXCEPT ![m] = Tail(@)] /\ queue' = queue
    BY <1>9 DEF Executes, ExecutesLate, Performs
  <2>2. s \in [Nodes -> Seq(Calls)]
    BY <1>1
  <2>3. CASE m = n
    <3>1. Leaves(n, s)
      BY <1>1, <2>1, <2>3 DEF Leaves
    <3>2. \/ s = queue /\ queue'[n] = Tail(queue[n]) /\ late'[n] = late[n]
          \/ s = late /\ late'[n] = Tail(late[n]) /\ queue'[n] = queue[n]
      BY <1>1, <2>1, <2>3
    <3> QED
      BY <3>1, <3>2 DEF WireStep
  <2>4. CASE m # n
    <3>1. UNCHANGED <<queue[n], late[n], log[n]>>
      BY <1>1, <2>1, <2>4
    <3> QED
      BY <3>1 DEF WireStep
  <2> QED
    BY <2>3, <2>4
<1>10. ASSUME NEW m \in Nodes, Lost(m) PROVE WireStep(n)
  <2>1. /\ queue' = [queue EXCEPT ![m] = <<>>] /\ late' = [late EXCEPT ![m] = @ \o queue[m]] /\ log' = log
    BY <1>10 DEF Lost
  <2>2. \/ m = n /\ queue'[n] = <<>> /\ late'[n] = late[n] \o queue[n]
        \/ queue'[n] = queue[n] /\ late'[n] = late[n]
    BY <1>1, <2>1
  <2> QED
    BY <1>10, <2>1, <2>2 DEF WireStep
<1>11. CASE \/ \E c \in Calls : CallGets(c) \/ NotConnected(c) \/ NotDialed(c) \/ Miss(c) \/ Settle(c)
            \/ \E m \in Nodes : Deliver(m)
            \/ UNCHANGED vars
  <2>1. UNCHANGED <<queue, late, log>>
    BY <1>11 DEF CallGets, NotConnected, NotDialed, Miss, Settle, Deliver, vars, wires
  <2> QED
    BY <1>2, <2>1
<1> QED
  BY <1>4, <1>5, <1>6, <1>7, <1>8, <1>9, <1>10, <1>11 DEF Next, Event, Continue

-----------------------------------------------------------------------------
\* No command is executed twice that is not retried

Single(c) == Kind(c) \notin Reads /\ MaxRetries(c) = 0

\* A command that is not retried is on its way, on its way from a lost
\* connection, or executed, and nowhere before its leg has begun.
SentOnce(c, n) ==
    /\ AtMostOnce(c, queue[n], late[n], log[n])
    /\ leg[c][n].stage \in {"none", "connecting"} => NowhereIn(c, queue[n], late[n], log[n])

WritesLogged == \A n \in Nodes : \A i \in DOMAIN log[n] : Kind(log[n][i]) \notin Reads

Executions == WritesLogged /\ \A c \in Calls, n \in Nodes : Single(c) => SentOnce(c, n)

LEMMA InitExecutions == Init => Executions
BY DEF Init, Executions, WritesLogged, SentOnce, AtMostOnce, OnceIn, NowhereIn

LEMMA StepExecutions == Types /\ Executions /\ [Next]_vars => Executions'
<1> SUFFICES ASSUME Types, Executions, [Next]_vars PROVE Executions'
  OBVIOUS
<1>1. queue \in [Nodes -> Seq(Calls)] /\ late \in [Nodes -> Seq(Calls)] /\ log \in [Nodes -> Seq(Calls)]
  BY TypeParts
<1>2. \A c \in Calls : Kind(c)' = Kind(c) /\ (Single(c)' <=> Single(c))
  BY OperationsStay DEF Single
<1>3. ASSUME NEW n \in Nodes, NEW i \in DOMAIN log'[n] PROVE Kind(log'[n][i]) \notin Reads
  <2>1. WireStep(n) /\ log[n] \in Seq(Calls) /\ queue[n] \in Seq(Calls) /\ late[n] \in Seq(Calls)
    BY <1>1, StepWires
  <2>2. CASE log'[n] = log[n]
    BY <1>3, <2>1, <2>2 DEF Executions, WritesLogged
  <2>3. ASSUME NEW d \in Calls, Kind(d) \notin Reads, log'[n] = Append(log[n], d)
        PROVE  Kind(log'[n][i]) \notin Reads
    <3>1. log'[n][i] = d \/ (i \in DOMAIN log[n] /\ log'[n][i] = log[n][i])
      BY <1>3, <2>1, <2>3
    <3> QED
      BY <2>1, <2>3, <3>1 DEF Executions, WritesLogged
  <2>4. /\ queue[n] # <<>> => Head(queue[n]) \in Calls
        /\ late[n] # <<>> => Head(late[n]) \in Calls
    BY <2>1
  <2> QED
    BY <2>1, <2>2, <2>3, <2>4 DEF WireStep, Leaves
<1>4. ASSUME NEW c \in Calls, NEW n \in Nodes, Single(c) PROVE SentOnce(c, n)'
  <2>1. PICK q \in Seq(Calls), l \in Seq(Calls), g \in Seq(Calls) :
           q = queue[n] /\ l = late[n] /\ g = log[n]
    BY <1>1
  <2>2. /\ AtMostOnce(c, q, l, g)
        /\ leg[c][n].stage \in {"none", "connecting"} => NowhereIn(c, q, l, g)
    BY <1>4, <2>1 DEF Executions, SentOnce
  <2>3. leg[c][n].stage # "sleeping" /\ Kind(c) \notin Reads
    BY <1>4, LegOfWrite DEF Single, Types, CallShape
  <2>4. leg'[c][n].stage \in {"none", "connecting"} => NowhereIn(c, q, l, g)
    BY <2>2, <2>3, StepLeg DEF LegStep
  <2>5. WireStep(n)
    BY StepWires
  <2>6. CASE UNCHANGED <<queue[n], late[n], log[n]>>
    BY <2>1, <2>2, <2>4, <2>6 DEF SentOnce
  <2>7. ASSUME NEW d \in Calls, Sends(d, n), UNCHANGED <<late[n], log[n]>> PROVE SentOnce(c, n)'
    <3>1. queue'[n] = Append(q, d) /\ late'[n] = l /\ log'[n] = g
      BY <2>1, <2>7 DEF Sends
    <3>2. CASE d = c
      <4>1. leg[c][n].stage \in {"none", "connecting"} /\ leg'[c][n].stage = "sent"
        BY <2>3, <2>7, <3>2 DEF Sends
      <4> QED
        BY <2>2, <3>1, <3>2, <4>1, AtMostOnceSend DEF SentOnce
    <3>3. CASE d # c
      BY <2>2, <2>4, <3>1, <3>3, AtMostOnceSend DEF SentOnce
    <3> QED
      BY <3>2, <3>3
  <2>8. CASE Leaves(n, queue) /\ queue'[n] = Tail(queue[n]) /\ late'[n] = late[n]
    <3>1. q # <<>> /\ queue'[n] = Tail(q) /\ late'[n] = l /\ (log'[n] = g \/ log'[n] = Append(g, Head(q)))
      BY <2>1, <2>8 DEF Leaves
    <3>2. AtMostOnce(c, queue'[n], late'[n], log'[n])
      BY <2>2, <3>1, AtMostOnceExecute
    <3>3. NowhereIn(c, q, l, g) => NowhereIn(c, queue'[n], late'[n], log'[n])
      BY <3>1, AtMostOnceExecute
    <3> QED
      BY <2>4, <3>2, <3>3 DEF SentOnce
  <2>9. CASE Leaves(n, late) /\ late'[n] = Tail(late[n]) /\ queue'[n] = queue[n]
    <3>1. l # <<>> /\ late'[n] = Tail(l) /\ queue'[n] = q /\ (log'[n] = g \/ log'[n] = Append(g, Head(l)))
      BY <2>1, <2>9 DEF Leaves
    <3>2. AtMostOnce(c, late'[n], queue'[n], log'[n])
      BY <2>2, <3>1, AtMostOnceExecute, AtMostOnceSwap
    <3>3. NowhereIn(c, q, l, g) => NowhereIn(c, late'[n], queue'[n], log'[n])
      BY <3>1, AtMostOnceExecute, AtMostOnceSwap
    <3> QED
      BY <2>4, <3>2, <3>3, AtMostOnceSwap DEF SentOnce
  <2>10. CASE queue'[n] = <<>> /\ late'[n] = late[n] \o queue[n] /\ log'[n] = log[n]
    <3>1. queue'[n] = <<>> /\ late'[n] = l \o q /\ log'[n] = g
      BY <2>1, <2>10
    <3> QED
      BY <2>2, <2>4, <3>1, AtMostOnceLost DEF SentOnce
  <2> QED
    BY <2>5, <2>6, <2>7, <2>8, <2>9, <2>10 DEF WireStep
<1>5. WritesLogged'
  BY <1>3, OperationsStay DEF WritesLogged, Kind
<1> QED
  BY <1>2, <1>4, <1>5 DEF Executions

LEMMA ExecutionsHold == Spec => [](Types /\ Executions)
BY InitTypes, StepTypes, InitExecutions, StepExecutions, PTL DEF Spec

\* With retryOnlyIdempotent no server executes a command twice that was not
\* declared idempotent, whatever is lost and however late it arrives, for any
\* number of calls, nodes, retries and faults (index.ts 1352-1395).
THEOREM NothingTwice == Spec => []ExecutedOnce
<1>1. Types /\ Executions => ExecutedOnce
  <2> SUFFICES ASSUME Types, Executions, NEW c \in Calls, RetryOnlyIdempotent, ~operation[c].idempotent,
                      NEW n \in Nodes
               PROVE  Times(c, n) <= 1
    BY DEF ExecutedOnce
  <2>1. log[n] \in Seq(Calls)
    BY TypeParts
  <2>2. MaxRetries(c) = 0
    BY DEF MaxRetries
  <2>3. OnceIn(c, log[n])
    <3>1. CASE Kind(c) \in Reads
      BY <3>1 DEF Executions, WritesLogged, OnceIn
    <3>2. CASE Kind(c) \notin Reads
      BY <2>2, <3>2 DEF Executions, Single, SentOnce, AtMostOnce
    <3> QED
      BY <3>1, <3>2
  <2> QED
    BY <2>1, <2>3, OnceMeansOneTime DEF Times
<1> QED
  BY <1>1, ExecutionsHold, PTL

-----------------------------------------------------------------------------
\* What a promise of true stands for

\* An answer is added when its command is executed, with what became of it.
ReplyStep(n) ==
    \/ replies'[n] = replies[n]
    \/ replies'[n] = <<>> /\ Lost(n)
    \/ replies[n] # <<>> /\ replies'[n] = Tail(replies[n]) /\ Deliver(n)
    \/ /\ Executes(n) /\ queue[n] # <<>>
       /\ \E word \in Word :
             /\ replies'[n] = Append(replies[n], [call |-> Head(queue[n]), word |-> word])
             /\ word = "ok" /\ Kind(Head(queue[n])) \notin Reads => log'[n] = Append(log[n], Head(queue[n]))

LEMMA StepReplies ==
    ASSUME Types, [Next]_vars, NEW n \in Nodes
    PROVE  ReplyStep(n)
<1>1. replies \in [Nodes -> Seq(Answers)] /\ log \in [Nodes -> Seq(Calls)]
  BY TypeParts
<1>2. ASSUME NEW m \in Nodes, Executes(m) PROVE ReplyStep(n)
  <2>1. PICK word \in Word :
           /\ queue[m] # <<>>
           /\ replies' = [replies EXCEPT ![m] = Append(@, [call |-> Head(queue[m]), word |-> word])]
           /\ word = "ok" => Performs(m, Head(queue[m]))
    BY <1>2 DEF Executes, Word
  <2>2. CASE m = n
    <3>1. replies'[n] = Append(replies[n], [call |-> Head(queue[n]), word |-> word])
      BY <1>1, <2>1, <2>2
    <3>2. word = "ok" /\ Kind(Head(queue[n])) \notin Reads => log'[n] = Append(log[n], Head(queue[n]))
      BY <1>1, <2>1, <2>2 DEF Performs
    <3> QED
      BY <1>2, <2>1, <2>2, <3>1, <3>2 DEF ReplyStep
  <2>3. CASE m # n
    <3>1. replies'[n] = replies[n]
      BY <1>1, <2>1, <2>3
    <3> QED
      BY <3>1 DEF ReplyStep
  <2> QED
    BY <2>2, <2>3
<1>3. ASSUME NEW m \in Nodes, Deliver(m) \/ Lost(m) PROVE ReplyStep(n)
  <2>1. \/ replies[m] # <<>> /\ replies' = [replies EXCEPT ![m] = Tail(@)] /\ Deliver(m)
        \/ replies' = [replies EXCEPT ![m] = <<>>] /\ Lost(m)
    BY <1>3 DEF Deliver, Lost
  <2> QED
    BY <1>1, <2>1 DEF ReplyStep
<1>4. CASE \/ \E c \in Calls : \/ Call(c) \/ CallGets(c) \/ CallAll(c) \/ Continue(c) \/ Event(c)
           \/ \E m \in Nodes : ExecutesLate(m)
           \/ UNCHANGED vars
  <2>1. replies' = replies
    BY <1>4 DEF Call, CallGets, CallAll, Continue, Event, Connected, NotConnected, Ask, Dialed, NotDialed,
                Miss, Settle, Wake, LegConnected, LegNotConnected, ExecutesLate, vars, wires
  <2> QED
    BY <2>1 DEF ReplyStep
<1> QED
  BY <1>2, <1>3, <1>4 DEF Next

\* A call settles once, when its legs have ended or no node is left to ask.
OutcomeStep(c) ==
    \/ outcome'[c] = outcome[c] \/ outcome'[c] \in {"thrown", "found", "false"}
    \/ outcome'[c] = "true" /\ Succeeded(c)
    \/ outcome'[c] = "miss" /\ stage[c] = "asking" /\ todo[c] = <<>> /\ UNCHANGED steady

LEMMA StepOutcome ==
    ASSUME Types, [Next]_vars, NEW c \in Calls
    PROVE  OutcomeStep(c)
<1>1. outcome \in [Calls -> {"none", "true", "false", "thrown", "found", "miss"}]
  BY TypeParts
<1>2. ASSUME NEW d \in Calls, NEW word,
             \/ outcome' = [outcome EXCEPT ![d] = word]
             \/ outcome' = [outcome EXCEPT ![d] = outcome[d]],
             \/ word \in {"thrown", "found", "false"}
             \/ word = "true" /\ Succeeded(d)
             \/ word = "miss" /\ stage[d] = "asking" /\ todo[d] = <<>> /\ UNCHANGED steady
      PROVE  OutcomeStep(c)
  <2>1. CASE c = d
    BY <1>1, <1>2, <2>1 DEF OutcomeStep
  <2>2. CASE c # d
    <3>1. outcome'[c] = outcome[c]
      BY <1>1, <1>2, <2>2
    <3> QED
      BY <3>1 DEF OutcomeStep
  <2> QED
    BY <2>1, <2>2
<1>3. ASSUME outcome' = outcome PROVE OutcomeStep(c)
  BY <1>3 DEF OutcomeStep
<1>4. ASSUME NEW d \in Calls, NotConnected(d) \/ Miss(d) \/ Settle(d) PROVE OutcomeStep(c)
  <2>1. PICK word : word = outcome'[d]
    OBVIOUS
  <2>2. /\ outcome' = [outcome EXCEPT ![d] = word]
        /\ \/ word = "thrown"
           \/ word = "miss" /\ stage[d] = "asking" /\ todo[d] = <<>> /\ UNCHANGED steady
           \/ word = (IF Succeeded(d) THEN "true" ELSE "false")
    BY <1>1, <1>4, <2>1 DEF NotConnected, Miss, Settle
  <2> QED
    BY <1>2, <2>2
<1>5. ASSUME NEW d \in Calls, NEW m \in Nodes, LegNotConnected(d, m) PROVE OutcomeStep(c)
  <2>1. outcome' = outcome \/ outcome' = [outcome EXCEPT ![d] = "thrown"]
    BY <1>5 DEF LegNotConnected
  <2> QED
    BY <1>2, <1>3, <2>1
<1>6. ASSUME NEW m \in Nodes, Deliver(m) PROVE OutcomeStep(c)
  <2>1. replies[m] # <<>> /\ Head(replies[m]).call \in Calls
    BY <1>6, AnswerIsAwaited DEF Deliver, Answers
  <2>2. PICK d \in Calls : d = Head(replies[m]).call
    BY <2>1
  <2>3. \/ outcome' = [outcome EXCEPT ![d] = "found"] \/ outcome' = [outcome EXCEPT ![d] = outcome[d]]
        \/ outcome' = [outcome EXCEPT ![d] = "thrown"] \/ outcome' = outcome
    BY <1>6, <2>2 DEF Deliver
  <2> QED
    BY <1>2, <1>3, <2>3
<1>7. ASSUME NEW m \in Nodes, Lost(m) PROVE OutcomeStep(c)
  <2>1. outcome'[c] = "thrown" \/ outcome'[c] = outcome[c]
    BY <1>7 DEF Lost
  <2> QED
    BY <2>1 DEF OutcomeStep
<1>8. CASE \/ \E d \in Calls : \/ Call(d) \/ CallGets(d) \/ CallAll(d) \/ Connected(d) \/ Ask(d) \/ Dialed(d)
                               \/ NotDialed(d) \/ \E m \in Nodes : Wake(d, m) \/ LegConnected(d, m)
           \/ \E m \in Nodes : Executes(m) \/ ExecutesLate(m)
           \/ UNCHANGED vars
  <2>1. outcome' = outcome
    BY <1>8 DEF Call, CallGets, CallAll, Connected, Ask, Dialed, NotDialed, Wake, LegConnected, Executes,
                ExecutesLate, vars
  <2> QED
    BY <1>3, <2>1
<1> QED
  BY <1>4, <1>5, <1>6, <1>7, <1>8 DEF Next, Event, Continue

\* Call c is in the log of node n.
Logged(c, n) == c \in ToSet(log[n])

\* A good answer, on its way or arrived, is that of a write that was executed.
Reported ==
    /\ \A n \in Nodes : \A i \in DOMAIN replies[n] :
          replies[n][i].word = "ok" /\ Kind(replies[n][i].call) \notin Reads => Logged(replies[n][i].call, n)
    /\ \A c \in Calls, n \in Nodes : leg[c][n].reply = "ok" => Logged(c, n)
    /\ \A c \in Calls : outcome[c] = "true" =>
          IF Kind(c) = "incr" THEN \E n \in Nodes : Logged(c, n) ELSE \A n \in Nodes : Logged(c, n)

LEMMA LogGrows ==
    ASSUME Types, [Next]_vars, NEW c, NEW n \in Nodes, Logged(c, n)
    PROVE  Logged(c, n)'
<1>1. log \in [Nodes -> Seq(Calls)] /\ WireStep(n)
  BY TypeParts, StepWires
<1>2. log'[n] = log[n] \/ \E d : log'[n] = Append(log[n], d)
  BY <1>1 DEF WireStep, Leaves
<1>3. PICK i \in DOMAIN log[n] : log[n][i] = c
  BY DEF Logged, ToSet
<1>4. i \in DOMAIN log'[n] /\ log'[n][i] = c
  BY <1>1, <1>2, <1>3
<1> QED
  BY <1>4 DEF Logged, ToSet

LEMMA InitReported == Init => Reported
<1> SUFFICES ASSUME Init PROVE Reported
  OBVIOUS
<1>1. \A c \in Calls, n \in Nodes : leg[c][n].reply # "ok"
  BY DEF Init, NoLeg, Leg
<1> QED
  BY <1>1 DEF Init, Reported

LEMMA StepReported == Types /\ Types' /\ Reported /\ [Next]_vars => Reported'
<1> SUFFICES ASSUME Types, Types', Reported, [Next]_vars PROVE Reported'
  OBVIOUS
<1>1. replies \in [Nodes -> Seq(Answers)] /\ log \in [Nodes -> Seq(Calls)] /\ queue \in [Nodes -> Seq(Calls)]
  BY TypeParts
<1>2. operation' = operation /\ \A c \in Calls : Kind(c)' = Kind(c)
  BY OperationsStay
<1>3. \A c \in Calls, n \in Nodes : Logged(c, n) => Logged(c, n)'
  BY LogGrows
<1>4. ASSUME NEW n \in Nodes, NEW i \in DOMAIN replies'[n], replies'[n][i].word = "ok",
             Kind(replies'[n][i].call) \notin Reads
      PROVE  replies'[n][i].call \in Calls /\ replies'[n][i].call \in ToSet(log'[n])
  <2>1. PICK r \in Seq(Answers) : r = replies[n]
    BY <1>1
  <2>2. \A j \in DOMAIN r : r[j].word = "ok" /\ Kind(r[j].call) \notin Reads =>
              r[j].call \in Calls /\ r[j].call \in ToSet(log'[n])
    <3>1. ASSUME NEW j \in DOMAIN r, r[j].word = "ok", Kind(r[j].call) \notin Reads
          PROVE  r[j].call \in Calls /\ r[j].call \in ToSet(log'[n])
      <4>1. r[j] \in Answers /\ Logged(r[j].call, n)
        BY <2>1, <3>1 DEF Reported
      <4>2. PICK d \in Calls : d = r[j].call
        BY <4>1 DEF Answers
      <4>3. Logged(d, n)'
        BY <1>3, <4>1, <4>2
      <4> QED
        BY <4>2, <4>3 DEF Logged
    <3> QED
      BY <3>1
  <2>3. ReplyStep(n)
    BY StepReplies
  <2>4. CASE replies'[n] = r
    BY <1>4, <2>2, <2>4
  <2>5. CASE r # <<>> /\ replies'[n] = Tail(r)
    <3>1. i + 1 \in DOMAIN r /\ replies'[n][i] = r[i + 1]
      BY <1>4, <2>5
    <3> QED
      BY <1>4, <2>2, <3>1
  <2>6. ASSUME NEW word \in Word, queue[n] # <<>>,
               replies'[n] = Append(r, [call |-> Head(queue[n]), word |-> word]),
               word = "ok" /\ Kind(Head(queue[n])) \notin Reads => log'[n] = Append(log[n], Head(queue[n]))
        PROVE  replies'[n][i].call \in Calls /\ replies'[n][i].call \in ToSet(log'[n])
    <3>1. PICK d \in Calls : d = Head(queue[n])
      BY <1>1, <2>6
    <3>2. PICK a \in Answers : a = [call |-> d, word |-> word]
      BY DEF Answers
    <3>3. a.call = d /\ a.word = word
      BY <3>2
    <3>4. (i \in DOMAIN r /\ replies'[n][i] = r[i]) \/ replies'[n][i] = a
      <4>1. replies'[n] = Append(r, a)
        BY <2>6, <3>1, <3>2
      <4> QED
        BY <1>4, <4>1
    <3>5. ASSUME replies'[n][i] = a PROVE d \in ToSet(log'[n])
      <4>1. log'[n] = Append(log[n], d) /\ log[n] \in Seq(Calls)
        BY <1>1, <1>4, <2>6, <3>1, <3>3, <3>5
      <4>2. Len(log[n]) + 1 \in DOMAIN log'[n] /\ log'[n][Len(log[n]) + 1] = d
        BY <4>1
      <4> QED
        BY <4>2 DEF ToSet
    <3> QED
      BY <1>4, <2>2, <3>3, <3>4, <3>5
  <2>7. CASE replies'[n] = <<>>
    BY <1>4, <2>7
  <2> QED
    BY <2>1, <2>3, <2>4, <2>5, <2>6, <2>7 DEF ReplyStep
<1>5. ASSUME NEW c \in Calls, NEW n \in Nodes, leg'[c][n].reply = "ok" PROVE Logged(c, n)'
  <2>1. leg[c][n].reply = "ok" \/ (replies[n] # <<>> /\ Head(replies[n]) = [call |-> c, word |-> "ok"])
    BY <1>5, StepLeg DEF LegStep
  <2>2. Kind(c) \notin Reads
    <3>1. Kind(c)' \in Reads => leg'[c][n] = NoLeg
      BY DEF Types, CallShape
    <3>2. NoLeg.reply = "none"
      BY DEF NoLeg, Leg
    <3> QED
      BY <1>2, <1>5, <3>1, <3>2
  <2>3. CASE replies[n] # <<>> /\ Head(replies[n]) = [call |-> c, word |-> "ok"]
    <3>1. replies[n] \in Seq(Answers) /\ 1 \in DOMAIN replies[n] /\ Head(replies[n]) = replies[n][1]
      BY <1>1, <2>3
    <3>2. replies[n][1].call = c /\ replies[n][1].word = "ok"
      BY <2>3, <3>1
    <3> QED
      BY <1>3, <2>2, <3>1, <3>2 DEF Reported
  <2> QED
    BY <1>3, <2>1, <2>3 DEF Reported
<1>6. ASSUME NEW c \in Calls, outcome'[c] = "true"
      PROVE  IF Kind(c)' = "incr" THEN \E n \in Nodes : Logged(c, n)' ELSE \A n \in Nodes : Logged(c, n)'
  <2>1. outcome[c] = "true" \/ Succeeded(c)
    BY <1>6, StepOutcome DEF OutcomeStep
  <2>2. IF Kind(c) = "incr" THEN \E n \in Nodes : Logged(c, n) ELSE \A n \in Nodes : Logged(c, n)
    BY <2>1 DEF Reported, Succeeded
  <2> QED
    BY <1>2, <1>3, <2>2
<1>7. \A n \in Nodes : \A i \in DOMAIN replies'[n] :
         replies'[n][i].word = "ok" /\ operation'[replies'[n][i].call].kind \notin Reads
            => replies'[n][i].call \in ToSet(log'[n])
  BY <1>2, <1>4 DEF Kind
<1> QED
  BY <1>5, <1>6, <1>7 DEF Reported, Logged, Kind

\* A write that returns true has been executed by every node of its key, and
\* incr() that returns a number by some node, whatever was lost and retried in
\* between (index.ts 73-76, 907-1215).
THEOREM TrueIsExecuted == Spec => []TrueMeansExecuted
<1>1. Types /\ Reported => TrueMeansExecuted
  <2> SUFFICES ASSUME Types, Reported PROVE TrueMeansExecuted
    OBVIOUS
  <2>1. ASSUME NEW c \in Calls, NEW n \in Nodes, Logged(c, n) PROVE Times(c, n) > 0
    <3>1. log[n] \in Seq(Calls)
      BY TypeParts
    <3> QED
      BY <2>1, <3>1, SomewhereMeansOnce DEF Logged, Times
  <2> QED
    BY <2>1 DEF Reported, TrueMeansExecuted
<1>2. Spec => [](Types /\ Reported)
  BY InitTypes, StepTypes, InitReported, StepReported, PTL DEF Spec
<1> QED
  BY <1>1, <1>2, PTL

-----------------------------------------------------------------------------
\* What a miss stands for

Asks == {"asking", "dialing", "asked"}

\* A node that has had a value all along still has it, is still to be asked,
\* and has not answered without it; get() has it connected.
NodesKeepValue == \A c \in Calls, n \in Nodes : n \in steady[c] => value[n] # <<>>

NodesStayUp == \A c \in Calls : Kind(c) = "get" => steady[c] \subseteq up

NodesToAsk == \A c \in Calls : stage[c] \in Asks => steady[c] \subseteq ToSet(todo[c])

AnswersCount ==
    \A n \in Nodes : \A i \in DOMAIN replies[n] :
        Kind(replies[n][i].call) \in Reads /\ replies[n][i].word # "ok" =>
            n \notin steady[replies[n][i].call]

Searches == NodesKeepValue /\ NodesStayUp /\ NodesToAsk /\ AnswersCount /\ FindsValue

LEMMA InitSearches == Init => Searches
BY DEF Init, Searches, NodesKeepValue, NodesStayUp, NodesToAsk, AnswersCount, FindsValue, Asks

\* The history of a read only shrinks once the read has begun.
LEMMA SteadyShrinks ==
    ASSUME Types, [Next]_vars, NEW c \in Calls, ~Call(c), ~CallGets(c)
    PROVE  steady'[c] \subseteq steady[c]
<1>1. steady \in [Calls -> SUBSET Nodes]
  BY TypeParts
<1>2. ASSUME NEW d \in Calls, Call(d) \/ CallGets(d) PROVE steady'[c] = steady[c]
  <2>1. d # c /\ \E s : steady' = [steady EXCEPT ![d] = s]
    BY <1>2 DEF Call, CallGets
  <2> QED
    BY <1>1, <2>1
<1>3. ASSUME NEW d, NEW n, steady' = [steady EXCEPT ![d] = @ \ {n}] PROVE steady'[c] \subseteq steady[c]
  BY <1>1, <1>3
<1>4. ASSUME NEW d, NEW n, Performs(n, d) PROVE steady'[c] \subseteq steady[c]
  BY <1>4 DEF Performs, Passed
<1>5. ASSUME NEW n \in Nodes, Executes(n) \/ ExecutesLate(n) PROVE steady'[c] \subseteq steady[c]
  <2>1. PICK d : d = Head(queue[n])
    OBVIOUS
  <2>2. PICK e : e = Head(late[n])
    OBVIOUS
  <2>3. \/ steady' = [steady EXCEPT ![d] = @ \ {n}] \/ Performs(n, d) \/ Performs(n, e)
        \/ steady' = steady
    BY <1>5, <2>1, <2>2 DEF Executes, ExecutesLate
  <2> QED
    BY <1>3, <1>4, <2>3
<1>6. ASSUME NEW n \in Nodes, Lost(n) PROVE steady'[c] \subseteq steady[c]
  BY <1>6 DEF Lost
<1>7. ASSUME NEW d \in Calls, NotDialed(d) PROVE steady'[c] \subseteq steady[c]
  BY <1>1, <1>7 DEF NotDialed
<1>8. CASE \/ \E d \in Calls : \/ CallAll(d) \/ Continue(d) \/ Connected(d) \/ NotConnected(d) \/ Dialed(d)
                               \/ \E n \in Nodes : Wake(d, n) \/ LegConnected(d, n) \/ LegNotConnected(d, n)
           \/ \E n \in Nodes : Deliver(n)
           \/ UNCHANGED vars
  BY <1>8 DEF CallAll, Continue, Ask, Miss, Settle, Connected, NotConnected, Dialed, Wake, LegConnected,
              LegNotConnected, Deliver, vars
<1> QED
  BY <1>2, <1>5, <1>6, <1>7, <1>8 DEF Next, Event

LEMMA StepKeepsValue == Types /\ NodesKeepValue /\ [Next]_vars => NodesKeepValue'
<1> SUFFICES ASSUME Types, NodesKeepValue, [Next]_vars, NEW c \in Calls, NEW n \in Nodes, n \in steady'[c]
             PROVE  value'[n] # <<>>
  BY DEF NodesKeepValue
<1>1. steady \in [Calls -> SUBSET Nodes] /\ value \in [Nodes -> Seq(Calls)]
  BY TypeParts
<1>2. ASSUME value' = value, n \in steady[c] PROVE value'[n] # <<>>
  BY <1>2 DEF NodesKeepValue
<1>3. CASE Call(c) \/ CallGets(c)
  <2>1. CASE Call(c)
    <3>1. value' = value /\ steady' = [steady EXCEPT ![c] = {m \in up : Kind(c) = "get" /\ value[m] # <<>>}]
      BY <2>1 DEF Call
    <3> QED
      BY <1>1, <3>1
  <2>2. CASE CallGets(c)
    <3>1. value' = value /\ steady' = [steady EXCEPT ![c] = {m \in Nodes : value[m] # <<>>}]
      BY <2>2 DEF CallGets, wires
    <3> QED
      BY <1>1, <3>1
  <2> QED
    BY <1>3, <2>1, <2>2
<1>4. ASSUME NEW m \in Nodes, NEW d \in Calls, Performs(m, d) PROVE value'[n] # <<>>
  <2>1. value' = [value EXCEPT ![m] = After(d, value[m])]
        /\ steady'[c] = IF Kind(d) \notin Reads /\ After(d, value[m]) = <<>> THEN steady[c] \ {m} ELSE steady[c]
    BY <1>4 DEF Performs, Passed
  <2>2. value[n] # <<>>
    BY <2>1 DEF NodesKeepValue
  <2>3. CASE m # n
    BY <1>1, <2>1, <2>2, <2>3
  <2>4. CASE m = n
    <3>1. Kind(d) \in Reads => After(d, value[m]) = value[m]
      BY DEF After, Reads
    <3> QED
      BY <1>1, <2>1, <2>2, <2>4, <3>1
  <2> QED
    BY <2>3, <2>4
<1>5. ASSUME NEW m \in Nodes, Executes(m) \/ ExecutesLate(m) PROVE value'[n] # <<>>
  <2>1. \/ value' = value /\ \E d : \/ steady' = [steady EXCEPT ![d] = @ \ {m}]
                                    \/ steady' = steady
        \/ queue[m] # <<>> /\ Performs(m, Head(queue[m]))
        \/ late[m] # <<>> /\ Performs(m, Head(late[m]))
    BY <1>5 DEF Executes, ExecutesLate
  <2>2. CASE value' = value /\ \E d : \/ steady' = [steady EXCEPT ![d] = @ \ {m}]
                                      \/ steady' = steady
    BY <1>1, <1>2, <2>2
  <2>3. /\ queue[m] # <<>> => Head(queue[m]) \in Calls
        /\ late[m] # <<>> => Head(late[m]) \in Calls
    BY TypeParts
  <2> QED
    BY <1>4, <2>1, <2>2, <2>3
<1>6. CASE value' = value /\ ~Call(c) /\ ~CallGets(c)
  BY <1>2, <1>6, SteadyShrinks
<1>7. CASE \/ \E d \in Calls : Call(d) \/ CallGets(d) \/ CallAll(d) \/ Continue(d) \/ Event(d)
           \/ \E m \in Nodes : Deliver(m) \/ Lost(m)
           \/ UNCHANGED vars
  <2>1. value' = value
    BY <1>7 DEF Call, CallGets, CallAll, Continue, Event, Ask, Miss, Settle, Connected, NotConnected, Dialed,
       NotDialed, Wake, LegConnected, LegNotConnected, Deliver, Lost, vars, wires
  <2> QED
    BY <1>3, <1>6, <2>1
<1> QED
  BY <1>5, <1>7 DEF Next

LEMMA StepStaysUp == Types /\ NodesStayUp /\ [Next]_vars => NodesStayUp'
<1> SUFFICES ASSUME Types, NodesStayUp, [Next]_vars, NEW c \in Calls, Kind(c) = "get"
             PROVE  steady'[c] \subseteq up'
  BY OperationsStay DEF NodesStayUp
<1>1. steady[c] \subseteq up /\ steady \in [Calls -> SUBSET Nodes]
  BY TypeParts DEF NodesStayUp
<1>2. CASE Call(c)
  <2>1. /\ up' = up
        /\ steady' = [steady EXCEPT ![c] = {n \in up : Kind(c) = "get" /\ value[n] # <<>>}]
    BY <1>2 DEF Call
  <2> QED
    BY <1>1, <2>1
<1>3. ~CallGets(c)
  BY DEF CallGets
<1>4. CASE \E n \in Nodes : Lost(n)
  <2>1. PICK n \in Nodes : Lost(n)
    BY <1>4
  <2>2. up' = up \ {n} /\ steady'[c] = steady[c] \ {n}
    BY <2>1 DEF Lost
  <2> QED
    BY <1>1, <2>2
<1>5. CASE \/ \E d \in Calls : Call(d) \/ CallGets(d) \/ CallAll(d) \/ Continue(d) \/ Event(d)
           \/ \E n \in Nodes : Executes(n) \/ ExecutesLate(n) \/ Deliver(n)
           \/ UNCHANGED vars
  <2>1. up \subseteq up'
    BY <1>5 DEF Call, CallGets, CallAll, Continue, Event, Ask, Miss, Settle, Connected, NotConnected, Dialed,
                NotDialed, Wake, LegConnected, LegNotConnected, Executes, ExecutesLate, Deliver, vars
  <2> QED
    BY <1>1, <1>2, <1>3, <2>1, SteadyShrinks
<1> QED
  BY <1>4, <1>5 DEF Next

\* A read goes on to its first node, stays with the one it has, or leaves one
\* that has no value to give.
AskStep(c) ==
    stage'[c] \in Asks =>
        \/ todo'[c] = Replicas
        \/ stage[c] \in Asks /\ todo'[c] = todo[c]
        \/ /\ stage[c] \in Asks /\ todo[c] # <<>> /\ todo'[c] = Tail(todo[c])
           /\ Head(todo[c]) \notin steady'[c]

LEMMA LocateAsks ==
    ASSUME Types, NEW d \in Calls, NEW path, NEW connected, Locate(d, path, connected), NEW c \in Calls
    PROVE  \/ UNCHANGED <<stage[c], todo[c]>>
           \/ stage'[c] \notin Asks
           \/ todo'[c] = Replicas
<1>1. stage \in [Calls -> Stages] /\ todo \in [Calls -> Seq(Nodes)]
  BY TypeParts
<1>2. \/ stage' = [stage EXCEPT ![d] = "connecting"] /\ \E rest : todo' = [todo EXCEPT ![d] = rest]
      \/ stage' = [stage EXCEPT ![d] = "running"] /\ todo' = todo
      \/ stage' = [stage EXCEPT ![d] = "asking"] /\ todo' = [todo EXCEPT ![d] = Replicas]
  BY DEF Locate, Begin, Issued
<1>3. CASE c = d
  BY <1>1, <1>2, <1>3 DEF Asks
<1>4. CASE c # d
  BY <1>1, <1>2, <1>4
<1> QED
  BY <1>3, <1>4

LEMMA StepAsks ==
    ASSUME Types, Searches, [Next]_vars, NEW c \in Calls
    PROVE  AskStep(c)
<1>1. stage \in [Calls -> Stages] /\ todo \in [Calls -> Seq(Nodes)] /\ steady \in [Calls -> SUBSET Nodes]
      /\ replies \in [Nodes -> Seq(Answers)]
  BY TypeParts
<1>2. ASSUME UNCHANGED <<stage[c], todo[c]>> PROVE AskStep(c)
  BY <1>2 DEF AskStep
<1>3. ASSUME NEW d \in Calls, NEW where, stage' = [stage EXCEPT ![d] = where], todo' = todo,
             stage[d] \in Asks \/ where \notin Asks
      PROVE  AskStep(c)
  <2>1. CASE c = d
    BY <1>1, <1>3, <2>1 DEF AskStep
  <2>2. CASE c # d
    BY <1>1, <1>2, <1>3, <2>2
  <2> QED
    BY <2>1, <2>2
<1>4. ASSUME NEW d \in Calls, stage[d] \in Asks, todo[d] # <<>>, todo' = [todo EXCEPT ![d] = Tail(@)],
             Head(todo[d]) \notin steady'[d],
             \A e \in Calls : e # d => stage'[e] = stage[e]
      PROVE  AskStep(c)
  <2>1. CASE c = d
    BY <1>1, <1>4, <2>1 DEF AskStep
  <2>2. CASE c # d
    BY <1>1, <1>2, <1>4, <2>2
  <2> QED
    BY <2>1, <2>2
<1>5. ASSUME NEW d \in Calls, Call(d) \/ Connected(d) PROVE AskStep(c)
  <2>1. PICK path, connected : Locate(d, path, connected)
    BY <1>5 DEF Call, Connected
  <2> QED
    BY <1>2, <2>1, LocateAsks DEF AskStep
<1>6. ASSUME NEW d \in Calls, CallGets(d) PROVE AskStep(c)
  <2>1. /\ stage' = [stage EXCEPT ![d] = "asking"] /\ todo' = [todo EXCEPT ![d] = Replicas]
    BY <1>6 DEF CallGets
  <2>2. CASE c = d
    BY <1>1, <2>1, <2>2 DEF AskStep
  <2>3. CASE c # d
    BY <1>1, <1>2, <2>1, <2>3
  <2> QED
    BY <2>2, <2>3
<1>7. ASSUME NEW d \in Calls, CallAll(d) \/ NotConnected(d) \/ Miss(d) \/ Settle(d) PROVE AskStep(c)
  <2>1. \/ stage' = [stage EXCEPT ![d] = "running"] /\ todo' = todo
        \/ stage' = [stage EXCEPT ![d] = "done"] /\ todo' = todo
    BY <1>7 DEF CallAll, NotConnected, Miss, Settle
  <2>2. "running" \notin Asks /\ "done" \notin Asks
    BY DEF Asks
  <2> QED
    BY <1>3, <2>1, <2>2
<1>8. ASSUME NEW d \in Calls, Dialed(d) PROVE AskStep(c)
  <2>1. stage[d] \in Asks /\ stage' = [stage EXCEPT ![d] = "asked"] /\ todo' = todo
    BY <1>8 DEF Dialed, Asks
  <2> QED
    BY <1>3, <2>1
<1>9. ASSUME NEW d \in Calls, Ask(d) PROVE AskStep(c)
  <2>1. stage[d] \in Asks /\ todo[d] # <<>> /\ steady' = steady
    BY <1>9 DEF Ask, Asks
  <2>2. \/ todo' = todo /\ \/ stage' = [stage EXCEPT ![d] = "asked"]
                           \/ stage' = [stage EXCEPT ![d] = "dialing"]
        \/ /\ Head(todo[d]) \notin up /\ Kind(d) = "get"
           /\ todo' = [todo EXCEPT ![d] = Tail(@)] /\ stage' = stage
    BY <1>9 DEF Ask
  <2>3. Head(todo[d]) \notin up /\ Kind(d) = "get" => Head(todo[d]) \notin steady'[d]
    BY <2>1 DEF Searches, NodesStayUp
  <2> QED
    BY <1>3, <1>4, <2>1, <2>2, <2>3
<1>10. ASSUME NEW d \in Calls, NotDialed(d) PROVE AskStep(c)
  <2>1. /\ stage[d] \in Asks /\ todo[d] # <<>> /\ todo' = [todo EXCEPT ![d] = Tail(@)]
        /\ steady' = [steady EXCEPT ![d] = @ \ {Head(todo[d])}]
        /\ stage' = [stage EXCEPT ![d] = "asking"]
    BY <1>10 DEF NotDialed, Asks, Types, CallShape
  <2>2. Head(todo[d]) \notin steady'[d] /\ \A e \in Calls : e # d => stage'[e] = stage[e]
    BY <1>1, <2>1
  <2> QED
    BY <1>4, <2>1, <2>2
<1>11. ASSUME NEW d \in Calls, NEW n \in Nodes, Wake(d, n) \/ LegConnected(d, n) \/ LegNotConnected(d, n)
       PROVE  AskStep(c)
  <2>1. todo' = todo /\ (stage' = stage \/ stage' = [stage EXCEPT ![d] = "done"])
    BY <1>11 DEF Wake, LegConnected, LegNotConnected
  <2>2. "done" \notin Asks
    BY DEF Asks
  <2> QED
    BY <1>2, <1>3, <2>1, <2>2
<1>12. ASSUME NEW n \in Nodes, Deliver(n) PROVE AskStep(c)
  <2>1. replies[n] # <<>> /\ Head(replies[n]) \in Answers /\ Outstanding(Head(replies[n]).call, n)
        /\ steady' = steady /\ 1 \in DOMAIN replies[n] /\ Head(replies[n]) = replies[n][1]
    <3>1. replies[n] # <<>> /\ steady' = steady /\ replies[n] \in Seq(Answers)
      BY <1>1, <1>12 DEF Deliver
    <3>2. 1 \in DOMAIN replies[n] /\ Head(replies[n]) = replies[n][1]
      BY <3>1
    <3> QED
      BY <3>1, <3>2, AnswerIsAwaited
  <2>2. PICK d \in Calls, word \in Word : Head(replies[n]).call = d /\ Head(replies[n]).word = word
    BY <2>1 DEF Answers
  <2>3. CASE Kind(d) \in Reads
    <3>1. stage[d] \in Asks /\ todo[d] # <<>> /\ Head(todo[d]) = n
      BY <2>1, <2>2, <2>3 DEF Outstanding, Asks
    <3>2. /\ stage' = [stage EXCEPT ![d] = IF word = "ok" THEN "done" ELSE "asking"]
          /\ todo' = [todo EXCEPT ![d] = Tail(@)]
      BY <1>12, <2>2, <2>3 DEF Deliver
    <3>3. \A e \in Calls : e # d => stage'[e] = stage[e]
      BY <1>1, <3>2
    <3>4. word # "ok" => n \notin steady[d]
      BY <2>1, <2>2, <2>3 DEF Searches, AnswersCount
    <3>5. CASE word = "ok"
      <4>1. stage'[d] = "done" /\ \A e \in Calls : e # d => todo'[e] = todo[e]
        BY <1>1, <3>2, <3>5
      <4> QED
        BY <1>2, <3>3, <4>1 DEF AskStep, Asks
    <3> QED
      BY <1>4, <2>1, <3>1, <3>2, <3>3, <3>4, <3>5
  <2>4. CASE Kind(d) \notin Reads
    <3>1. todo' = todo /\ (stage' = stage \/ stage' = [stage EXCEPT ![d] = "done"])
      BY <1>12, <2>2, <2>4 DEF Deliver
    <3>2. "done" \notin Asks
      BY DEF Asks
    <3> QED
      BY <1>2, <1>3, <3>1, <3>2
  <2> QED
    BY <2>3, <2>4
<1>13. ASSUME NEW n \in Nodes, Lost(n) PROVE AskStep(c)
  <2>1. CASE stage[c] = "asked" /\ Head(todo[c]) = n
    <3>1. /\ todo'[c] = Tail(todo[c]) /\ steady'[c] = steady[c] \ {n}
      BY <1>13, <2>1 DEF Lost
    <3>2. stage[c] \in Asks /\ todo[c] # <<>>
      BY <2>1 DEF Asks, Types, CallShape
    <3> QED
      BY <2>1, <3>1, <3>2 DEF AskStep
  <2>2. CASE ~(stage[c] = "asked" /\ Head(todo[c]) = n)
    <3>1. todo'[c] = todo[c] /\ (stage'[c] = stage[c] \/ stage'[c] = "done")
      BY <1>13, <2>2 DEF Lost
    <3> QED
      BY <3>1 DEF AskStep, Asks
  <2> QED
    BY <2>1, <2>2
<1>14. CASE \E n \in Nodes : Executes(n) \/ ExecutesLate(n)
  BY <1>2, <1>14 DEF Executes, ExecutesLate
<1>15. CASE UNCHANGED vars
  BY <1>2, <1>15 DEF vars
<1> QED
  BY <1>5, <1>6, <1>7, <1>8, <1>9, <1>10, <1>11, <1>12, <1>13, <1>14, <1>15 DEF Next, Event, Continue

LEMMA StepToAsk ==
    ASSUME Types, Types', Searches, [Next]_vars, NEW c \in Calls, stage'[c] \in Asks
    PROVE  steady'[c] \subseteq ToSet(todo'[c])
<1>1. todo \in [Calls -> Seq(Nodes)] /\ steady' \in [Calls -> SUBSET Nodes]
  BY DEF Types, TypeOK
<1>2. AskStep(c)
  BY StepAsks
<1>3. CASE todo'[c] = Replicas
  BY <1>1, <1>3 DEF Nodes
<1>4. ASSUME stage[c] \in Asks PROVE steady'[c] \subseteq steady[c] /\ steady[c] \subseteq ToSet(todo[c])
  <2>1. ~Call(c) /\ ~CallGets(c)
    BY <1>4 DEF Call, CallGets, Asks
  <2> QED
    BY <1>4, <2>1, SteadyShrinks DEF Searches, NodesToAsk
<1>5. CASE stage[c] \in Asks /\ todo'[c] = todo[c]
  BY <1>4, <1>5
<1>6. CASE /\ stage[c] \in Asks /\ todo[c] # <<>> /\ todo'[c] = Tail(todo[c])
           /\ Head(todo[c]) \notin steady'[c]
  <2>1. PICK s \in Seq(Nodes) : s = todo[c]
    BY <1>1
  <2>2. ASSUME NEW n \in ToSet(s), n # Head(s) PROVE n \in ToSet(Tail(s))
    <3>1. PICK i \in DOMAIN s : s[i] = n
      BY DEF ToSet
    <3>2. s # <<>> /\ Head(s) = s[1]
      BY <1>6, <2>1
    <3>3. i - 1 \in DOMAIN Tail(s) /\ Tail(s)[i - 1] = n
      BY <2>2, <3>1, <3>2
    <3> QED
      BY <3>3 DEF ToSet
  <2> QED
    BY <1>4, <1>6, <2>1, <2>2
<1> QED
  BY <1>2, <1>3, <1>5, <1>6 DEF AskStep

\* The call of an answer waits for it.
LEMMA AnswerIsFor ==
    ASSUME Types, NEW n \in Nodes, NEW i \in DOMAIN replies[n]
    PROVE  /\ replies[n][i] \in Answers
           /\ Kind(replies[n][i].call) \in Reads => stage[replies[n][i].call] = "asked"
<1>1. replies[n] \in Seq(Answers) /\ replies[n][i].call \in Out(n)
  BY TypeParts DEF CommandsPaired, Paired
<1> QED
  BY <1>1 DEF Out, Outstanding

LEMMA StepAnswersCount ==
    ASSUME Types, Types', Searches, [Next]_vars
    PROVE  AnswersCount'
<1>1. replies \in [Nodes -> Seq(Answers)] /\ queue \in [Nodes -> Seq(Calls)]
      /\ steady \in [Calls -> SUBSET Nodes]
  BY TypeParts
<1>2. operation' = operation
  BY OperationsStay
<1>3. SUFFICES ASSUME NEW n \in Nodes, NEW i \in DOMAIN replies'[n], replies'[n][i].word # "ok",
                      Kind(replies'[n][i].call) \in Reads
               PROVE  n \notin steady'[replies'[n][i].call]
  BY <1>2 DEF AnswersCount, Kind
\* The answers that were on their way.
<1>4. ASSUME NEW j \in DOMAIN replies[n], replies'[n][i] = replies[n][j]
      PROVE  n \notin steady'[replies'[n][i].call]
  <2>1. PICK d \in Calls : d = replies[n][j].call
    BY AnswerIsFor DEF Answers
  <2>2. stage[d] = "asked" /\ n \notin steady[d]
    BY <1>3, <1>4, <2>1, AnswerIsFor DEF Searches, AnswersCount
  <2>3. ~Call(d) /\ ~CallGets(d)
    BY <2>2 DEF Call, CallGets
  <2> QED
    BY <1>4, <2>1, <2>2, <2>3, SteadyShrinks
<1>5. CASE replies'[n] = replies[n] \/ replies'[n] = <<>>
  BY <1>4, <1>5
<1>6. CASE replies[n] # <<>> /\ replies'[n] = Tail(replies[n])
  <2>1. i + 1 \in DOMAIN replies[n] /\ replies'[n][i] = replies[n][i + 1]
    BY <1>1, <1>6
  <2> QED
    BY <1>4, <2>1
<1>7. CASE Executes(n)
  <2>1. PICK d \in Calls : queue[n] # <<>> /\ d = Head(queue[n])
    BY <1>1, <1>7 DEF Executes
  <2>2. PICK word \in Word :
           /\ replies' = [replies EXCEPT ![n] = Append(@, [call |-> d, word |-> word])]
           /\ \/ word = "error" /\ steady' = [steady EXCEPT ![d] = @ \ {n}]
              \/ word = "ok"
              \/ word = "refused" /\ ~Accepts(d, value[n]) /\ steady' = steady
    BY <1>7, <2>1 DEF Executes, Word
  <2>3. PICK a \in Answers : a = [call |-> d, word |-> word]
    BY DEF Answers
  <2>4. a.call = d /\ a.word = word /\ replies'[n] = Append(replies[n], a)
    BY <1>1, <2>2, <2>3
  <2>5. (\E j \in DOMAIN replies[n] : replies'[n][i] = replies[n][j]) \/ replies'[n][i] = a
    BY <1>1, <2>4
  <2>6. CASE replies'[n][i] = a
    <3>1. Kind(d) \in Reads /\ word # "ok"
      BY <1>3, <2>4, <2>6
    <3>2. CASE word = "error"
      BY <1>1, <2>2, <2>4, <2>6, <3>2
    <3>3. CASE word = "refused"
      <4>1. steady' = steady /\ value[n] = <<>>
        BY <2>2, <3>1, <3>3 DEF Accepts, Reads
      <4> QED
        BY <2>4, <2>6, <4>1 DEF Searches, NodesKeepValue
    <3> QED
      BY <2>2, <3>1, <3>2, <3>3
  <2> QED
    BY <1>4, <2>5, <2>6
<1>8. CASE ~Executes(n)
  <2>1. replies'[n] = replies[n] \/ replies'[n] = <<>> \/ (replies[n] # <<>> /\ replies'[n] = Tail(replies[n]))
    BY <1>8, StepReplies DEF ReplyStep
  <2> QED
    BY <1>5, <1>6, <2>1
<1> QED
  BY <1>7, <1>8

LEMMA StepSearches == Types /\ Types' /\ Searches /\ [Next]_vars => Searches'
<1> SUFFICES ASSUME Types, Types', Searches, [Next]_vars PROVE Searches'
  OBVIOUS
<1>1. NodesKeepValue' /\ NodesStayUp'
  BY StepKeepsValue, StepStaysUp DEF Searches
<1>2. NodesToAsk'
  BY StepToAsk DEF NodesToAsk
<1>3. AnswersCount'
  BY StepAnswersCount
<1>4. ASSUME NEW c \in Calls, outcome'[c] = "miss" PROVE steady'[c] = {}
  <2>1. CASE outcome[c] = "miss"
    <3>1. stage[c] = "done" /\ steady[c] = {}
      BY <2>1 DEF Types, CallShape, Searches, FindsValue
    <3>2. ~Call(c) /\ ~CallGets(c)
      BY <3>1 DEF Call, CallGets
    <3> QED
      BY <3>1, <3>2, SteadyShrinks
  <2>2. CASE stage[c] = "asking" /\ todo[c] = <<>> /\ UNCHANGED steady
    <3>1. steady[c] \subseteq ToSet(<<>>) /\ ToSet(<<>>) = {}
      BY <2>2 DEF Searches, NodesToAsk, Asks, ToSet
    <3> QED
      BY <2>2, <3>1
  <2> QED
    BY <1>4, <2>1, <2>2, StepOutcome DEF OutcomeStep
<1>5. FindsValue'
  BY <1>4 DEF FindsValue
<1> QED
  BY <1>1, <1>2, <1>3, <1>5 DEF Searches

\* A read misses only when there was no node that had a value and was connected
\* and answered all along (get), or had one and failed neither when it was
\* connected nor when it was asked (gets): nothing is skipped on the way from
\* node to node (index.ts 716-728, 790-864).
THEOREM MissMeansNone == Spec => []FindsValue
<1>1. Spec => [](Types /\ Searches)
  BY InitTypes, StepTypes, InitSearches, StepSearches, PTL DEF Spec
<1> QED
  BY <1>1, PTL DEF Searches

-----------------------------------------------------------------------------
\* One order of writes for all nodes

\* The calls issued, K of them, one after another: call c is number rank[c].
\* After the first k of them a node has the value V[k] and the log L[k]:
\* takes[c] are the values with which a server accepts call c, and makes[c]
\* what it makes of them.
Table(takes, makes, issued, K, rank, V, L) ==
    /\ K \in Nat /\ rank \in [Calls -> Nat]
    /\ V \in [Nat -> Seq(Calls)] /\ L \in [Nat -> Seq(Calls)]
    /\ issued \subseteq Calls
    /\ \A c \in issued : rank[c] \in 1 .. K
    /\ \A c, d \in issued : rank[c] = rank[d] => c = d
    /\ \A r \in 1 .. K : \E c \in issued : rank[c] = r
    /\ \A c \in issued :
          /\ V[rank[c]] = IF V[rank[c] - 1] \in takes[c] THEN makes[c][V[rank[c] - 1]] ELSE V[rank[c] - 1]
          /\ L[rank[c]] = IF V[rank[c] - 1] \in takes[c] THEN Append(L[rank[c] - 1], c) ELSE L[rank[c] - 1]

\* A node with commands q, log g and value v has executed the first k calls,
\* and has the others before it, in their order.
At(issued, rank, V, L, k, q, g, v) ==
    /\ g = L[k] /\ v = V[k]
    /\ \A i \in DOMAIN q : q[i] \in issued => rank[q[i]] > k
    /\ \A c \in issued : rank[c] > k => \E i \in DOMAIN q : q[i] = c
    /\ \A i, j \in DOMAIN q : i < j /\ q[i] \in issued /\ q[j] \in issued => rank[q[i]] < rank[q[j]]

\* A read is sent, and executed; the connection is lost.
LEMMA AtRead ==
    ASSUME NEW issued, NEW rank, NEW V, NEW L, NEW k, NEW q \in Seq(Calls), NEW g, NEW v,
           At(issued, rank, V, L, k, q, g, v), NEW c \in Calls, c \notin issued
    PROVE  At(issued, rank, V, L, k, Append(q, c), g, v)
<1> DEFINE s == Append(q, c)
<1>1. /\ DOMAIN s = 1 .. Len(q) + 1 /\ DOMAIN q = 1 .. Len(q) /\ Len(q) \in Nat
      /\ \A i \in DOMAIN q : s[i] = q[i]
      /\ s[Len(q) + 1] = c
  OBVIOUS
<1> HIDE DEF s
<1>2. \A i \in DOMAIN s : s[i] \in issued => i \in DOMAIN q /\ s[i] = q[i]
  BY <1>1
<1>3. At(issued, rank, V, L, k, s, g, v)
  BY <1>1, <1>2 DEF At
<1> QED
  BY <1>3 DEF s

LEMMA TailOf ==
    ASSUME NEW q \in Seq(Calls), q # <<>>
    PROVE  /\ Head(q) = q[1] /\ Head(q) \in Calls /\ Tail(q) \in Seq(Calls) /\ 1 \in DOMAIN q
           /\ \A i \in DOMAIN q : i \in Int /\ (i # 1 => i - 1 \in DOMAIN Tail(q) /\ i > 1)
           /\ \A i \in DOMAIN Tail(q) : i \in Int /\ i + 1 \in DOMAIN q /\ Tail(q)[i] = q[i + 1] /\ i + 1 > 1
           /\ \A i \in DOMAIN q : i # 1 => Tail(q)[i - 1] = q[i]
<1>1. /\ Head(q) = q[1] /\ Len(q) \in Nat \ {0} /\ DOMAIN q = 1 .. Len(q) /\ Head(q) \in Calls
      /\ DOMAIN Tail(q) = 1 .. Len(q) - 1 /\ \A i \in 1 .. Len(q) - 1 : Tail(q)[i] = q[i + 1]
      /\ Tail(q) \in Seq(Calls)
  BY HeadTailProperties
<1> QED
  BY <1>1

LEMMA AtReadDone ==
    ASSUME NEW issued, NEW rank, NEW V, NEW L, NEW k, NEW q \in Seq(Calls), NEW g, NEW v,
           At(issued, rank, V, L, k, q, g, v), q # <<>>, Head(q) \notin issued
    PROVE  At(issued, rank, V, L, k, Tail(q), g, v)
<1> DEFINE t == Tail(q)
<1>1. /\ q[1] \notin issued
      /\ \A i \in DOMAIN q : i \in Int /\ (i # 1 => i - 1 \in DOMAIN t /\ t[i - 1] = q[i])
      /\ \A i \in DOMAIN t : i \in Int /\ i + 1 \in DOMAIN q /\ t[i] = q[i + 1]
  BY TailOf
<1> HIDE DEF t
<1>2. /\ \A i \in DOMAIN t : t[i] \in issued => rank[t[i]] > k
      /\ \A c \in issued : rank[c] > k => \E i \in DOMAIN t : t[i] = c
  BY <1>1 DEF At
<1>3. ASSUME NEW i \in DOMAIN t, NEW j \in DOMAIN t, i < j, t[i] \in issued, t[j] \in issued
      PROVE  rank[t[i]] < rank[t[j]]
  <2>1. i + 1 < j + 1 /\ i + 1 \in DOMAIN q /\ j + 1 \in DOMAIN q
    BY <1>1, <1>3
  <2> QED
    BY <1>1, <1>3, <2>1 DEF At
<1>4. At(issued, rank, V, L, k, t, g, v)
  BY <1>2, <1>3 DEF At
<1> QED
  BY <1>4 DEF t

LEMMA AtLost ==
    ASSUME NEW issued, NEW rank, NEW V, NEW L, NEW k, NEW q, NEW g, NEW v,
           At(issued, rank, V, L, k, q, g, v), \A i \in DOMAIN q : q[i] \notin issued
    PROVE  At(issued, rank, V, L, k, <<>>, g, v)
BY DEF At

\* The next write is the next in the order.
LEMMA AtWriteDone ==
    ASSUME NEW takes, NEW makes, NEW issued, NEW K, NEW rank, NEW V, NEW L,
           Table(takes, makes, issued, K, rank, V, L),
           NEW k \in 0 .. K, NEW q \in Seq(Calls), NEW g, NEW v, NEW h,
           At(issued, rank, V, L, k, q, g, v), q # <<>>, h = Head(q), h \in issued
    PROVE  /\ k + 1 \in 0 .. K
           /\ At(issued, rank, V, L, k + 1, Tail(q), IF v \in takes[h] THEN Append(g, h) ELSE g,
                 IF v \in takes[h] THEN makes[h][v] ELSE v)
<1> DEFINE t == Tail(q)
<1>1. /\ h = q[1] /\ h \in issued /\ 1 \in DOMAIN q
      /\ \A i \in DOMAIN q : i \in Int /\ (i # 1 => i - 1 \in DOMAIN t /\ t[i - 1] = q[i] /\ i > 1)
      /\ \A i \in DOMAIN t : i \in Int /\ i + 1 \in DOMAIN q /\ t[i] = q[i + 1] /\ i + 1 > 1
  BY TailOf
<1> HIDE DEF t
<1>2. /\ K \in Nat /\ rank[h] \in 1 .. K /\ rank[h] > k
      /\ issued \subseteq Calls /\ \A c \in issued : rank[c] \in 1 .. K
  BY <1>1 DEF Table, At
<1>3. rank[h] = k + 1
  <2>1. SUFFICES ASSUME rank[h] # k + 1 PROVE FALSE
    OBVIOUS
  <2>2. k + 1 \in 1 .. K /\ rank[h] > k + 1
    BY <1>2, <2>1
  <2>3. PICK c \in issued : rank[c] = k + 1
    BY <2>2 DEF Table
  <2>4. PICK i \in DOMAIN q : q[i] = c
    BY <2>2, <2>3 DEF At
  <2>5. i # 1 /\ 1 < i
    BY <1>1, <2>2, <2>3, <2>4
  <2>6. rank[h] < rank[c]
    BY <1>1, <2>3, <2>4, <2>5 DEF At
  <2> QED
    BY <1>2, <2>2, <2>3, <2>6
<1>4. g = L[rank[h] - 1] /\ v = V[rank[h] - 1]
  BY <1>2, <1>3 DEF At
<1>5. /\ L[k + 1] = (IF v \in takes[h] THEN Append(g, h) ELSE g)
      /\ V[k + 1] = IF v \in takes[h] THEN makes[h][v] ELSE v
  BY <1>1, <1>3, <1>4 DEF Table
<1>6. ASSUME NEW i \in DOMAIN t, t[i] \in issued PROVE rank[t[i]] > k + 1
  <2>1. i + 1 \in DOMAIN q /\ t[i] = q[i + 1] /\ 1 < i + 1 /\ 1 \in DOMAIN q
    BY <1>1
  <2>2. rank[q[1]] < rank[q[i + 1]]
    BY <1>1, <1>6, <2>1 DEF At
  <2> QED
    BY <1>1, <1>3, <2>1, <2>2
<1>7. ASSUME NEW c \in issued, rank[c] > k + 1 PROVE \E i \in DOMAIN t : t[i] = c
  <2>1. rank[c] > k
    BY <1>2, <1>7
  <2>2. PICK i \in DOMAIN q : q[i] = c
    BY <2>1 DEF At
  <2>3. i # 1
    BY <1>1, <1>3, <1>7, <2>2
  <2> QED
    BY <1>1, <2>2, <2>3
<1>8. ASSUME NEW i \in DOMAIN t, NEW j \in DOMAIN t, i < j, t[i] \in issued, t[j] \in issued
      PROVE  rank[t[i]] < rank[t[j]]
  <2>1. i + 1 < j + 1 /\ i + 1 \in DOMAIN q /\ j + 1 \in DOMAIN q
    BY <1>1, <1>8
  <2> QED
    BY <1>1, <1>8, <2>1 DEF At
<1>9. At(issued, rank, V, L, k + 1, t, L[k + 1], V[k + 1])
  BY <1>6, <1>7, <1>8 DEF At
<1>10. k + 1 \in 0 .. K
  BY <1>2, <1>3
<1> QED
  BY <1>5, <1>9, <1>10 DEF t

\* A write is issued to all nodes, and is the last of the order.
Longer(takes, makes, issued, K, rank, V, L, c, R, W, M) ==
    /\ Table(takes, makes, issued \cup {c}, K + 1, R, W, M)
    /\ R[c] = K + 1 /\ \A d \in issued : R[d] = rank[d]
    /\ \A k \in 0 .. K : W[k] = V[k] /\ M[k] = L[k]

LEMMA TableIssue ==
    ASSUME NEW takes, NEW makes \in [Calls -> [Seq(Calls) -> Seq(Calls)]],
           NEW issued, NEW K, NEW rank, NEW V, NEW L,
           Table(takes, makes, issued, K, rank, V, L), NEW c \in Calls, c \notin issued
    PROVE  \E R, W, M : Longer(takes, makes, issued, K, rank, V, L, c, R, W, M)
<1>1. /\ K \in Nat /\ rank \in [Calls -> Nat] /\ V \in [Nat -> Seq(Calls)] /\ L \in [Nat -> Seq(Calls)]
      /\ issued \subseteq Calls /\ \A d \in issued : rank[d] \in 1 .. K
  BY DEF Table
<1>2. /\ V[K] \in Seq(Calls) /\ makes[c][V[K]] \in Seq(Calls)
      /\ L[K] \in Seq(Calls) /\ Append(L[K], c) \in Seq(Calls)
  BY <1>1
<1>3. PICK w \in Seq(Calls) : w = IF V[K] \in takes[c] THEN makes[c][V[K]] ELSE V[K]
  BY <1>2
<1>4. PICK m \in Seq(Calls) : m = IF V[K] \in takes[c] THEN Append(L[K], c) ELSE L[K]
  <2>1. L[K] \in Seq(Calls)
    BY <1>1
  <2>2. Append(L[K], c) \in Seq(Calls)
    BY <2>1
  <2> QED
    BY <2>1, <2>2
<1>5. PICK R \in [Calls -> Nat] : R = [rank EXCEPT ![c] = K + 1]
  <2>1. K + 1 \in Nat
    BY <1>1
  <2>2. [rank EXCEPT ![c] = K + 1] \in [Calls -> Nat]
    BY <1>1, <2>1
  <2> QED
    BY <2>2
<1>6. PICK W \in [Nat -> Seq(Calls)] : W = [V EXCEPT ![K + 1] = w]
  BY <1>1
<1>7. PICK M \in [Nat -> Seq(Calls)] : M = [L EXCEPT ![K + 1] = m]
  BY <1>1
<1>8. R[c] = K + 1 /\ \A d \in issued : R[d] = rank[d] /\ d # c
  BY <1>1, <1>5
<1>9. /\ W[K + 1] = w /\ \A k \in 0 .. K : W[k] = V[k]
      /\ M[K + 1] = m /\ \A k \in 0 .. K : M[k] = L[k]
  BY <1>1, <1>6, <1>7
<1>10. ASSUME NEW d \in issued \cup {c}
       PROVE  /\ R[d] \in 1 .. K + 1
              /\ W[R[d]] = IF W[R[d] - 1] \in takes[d] THEN makes[d][W[R[d] - 1]] ELSE W[R[d] - 1]
              /\ M[R[d]] = IF W[R[d] - 1] \in takes[d] THEN Append(M[R[d] - 1], d) ELSE M[R[d] - 1]
  <2>1. CASE d \in issued
    <3>0. PICK j \in 1 .. K : j = rank[d]
      BY <1>1, <2>1
    <3>1. R[d] = j /\ j \in 0 .. K /\ j - 1 \in 0 .. K /\ j \in 1 .. K + 1
      <4>1. K \in Nat /\ j \in 1 .. K
        BY <1>1
      <4>2. j \in 0 .. K /\ j - 1 \in 0 .. K /\ j \in 1 .. K + 1
        BY <4>1
      <4> QED
        BY <1>8, <2>1, <3>0, <4>2
    <3>2. W[j] = V[j] /\ W[j - 1] = V[j - 1] /\ M[j] = L[j] /\ M[j - 1] = L[j - 1]
      BY <1>9, <3>1
    <3>3. R[d] \in 1 .. K + 1 /\ rank[d] = j
      BY <3>0, <3>1
    <3> QED
      <4>1. /\ V[j] = (IF V[j - 1] \in takes[d] THEN makes[d][V[j - 1]] ELSE V[j - 1])
            /\ L[j] = IF V[j - 1] \in takes[d] THEN Append(L[j - 1], d) ELSE L[j - 1]
        BY <2>1, <3>3 DEF Table
      <4> QED
        BY <3>1, <3>2, <4>1
  <2>2. CASE d = c
    <3>1. R[d] = K + 1 /\ R[d] - 1 = K /\ K \in 0 .. K /\ R[d] \in 1 .. K + 1
      BY <1>1, <1>8, <2>2
    <3> QED
      BY <1>3, <1>4, <1>9, <2>2, <3>1
  <2> QED
    BY <2>1, <2>2
<1>11. \A d, e \in issued \cup {c} : R[d] = R[e] => d = e
  <2>1. \A d \in issued : R[d] # K + 1
    BY <1>1, <1>8
  <2> QED
    BY <1>8, <2>1 DEF Table
<1>12. \A r \in 1 .. K + 1 : \E d \in issued \cup {c} : R[d] = r
  <2>1. \A r \in 1 .. K + 1 : r \in 1 .. K \/ r = K + 1
    BY <1>1
  <2> QED
    BY <1>8, <2>1 DEF Table
<1>13. Table(takes, makes, issued \cup {c}, K + 1, R, W, M)
  <2>1. K + 1 \in Nat /\ issued \cup {c} \subseteq Calls
    BY <1>1
  <2> QED
    BY <1>10, <1>11, <1>12, <2>1 DEF Table
<1>14. Longer(takes, makes, issued, K, rank, V, L, c, R, W, M)
  BY <1>8, <1>9, <1>13 DEF Longer
<1> QED
  BY <1>14

LEMMA AtIssue ==
    ASSUME NEW issued, NEW K \in Nat, NEW rank, NEW V, NEW L, NEW R, NEW W, NEW M,
           NEW k \in 0 .. K, NEW q \in Seq(Calls), NEW g, NEW v, NEW c \in Calls,
           \A d \in issued : rank[d] \in 1 .. K,
           At(issued, rank, V, L, k, q, g, v), c \notin issued, \A i \in DOMAIN q : q[i] # c,
           NEW takes, NEW makes, Longer(takes, makes, issued, K, rank, V, L, c, R, W, M)
    PROVE  At(issued \cup {c}, R, W, M, k, Append(q, c), g, v)
<1>0. /\ R[c] = K + 1 /\ \A d \in issued : R[d] = rank[d]
      /\ \A j \in 0 .. K : W[j] = V[j] /\ M[j] = L[j]
  BY DEF Longer
<1> DEFINE s == Append(q, c)
           all == issued \cup {c}
<1>1. /\ DOMAIN s = 1 .. Len(q) + 1 /\ DOMAIN q = 1 .. Len(q) /\ Len(q) \in Nat
      /\ \A i \in DOMAIN q : s[i] = q[i]
      /\ s[Len(q) + 1] = c
  OBVIOUS
<1> HIDE DEF s
<1>2. /\ \A i \in DOMAIN s : i = Len(q) + 1 \/ (i \in DOMAIN q /\ s[i] = q[i] /\ s[i] # c)
      /\ \A i \in DOMAIN q : i < Len(q) + 1
      /\ Len(q) + 1 \in DOMAIN s /\ \A i \in DOMAIN q : i \in DOMAIN s
  BY <1>1
<1>3. g = M[k] /\ v = W[k]
  BY <1>0 DEF At
<1>4. \A i \in DOMAIN s : s[i] \in all => R[s[i]] > k
  BY <1>0, <1>1, <1>2 DEF At
<1>5. ASSUME NEW d \in all, R[d] > k PROVE \E i \in DOMAIN s : s[i] = d
  <2>1. CASE d = c
    BY <1>1, <1>2, <2>1
  <2>2. CASE d \in issued
    BY <1>0, <1>1, <1>2, <1>5, <2>2 DEF At
  <2> QED
    BY <2>1, <2>2
<1>6. ASSUME NEW i \in DOMAIN s, NEW j \in DOMAIN s, i < j, s[i] \in all, s[j] \in all
      PROVE  R[s[i]] < R[s[j]]
  <2>1. i \in DOMAIN q /\ s[i] = q[i] /\ s[i] \in issued
    BY <1>1, <1>2, <1>6
  <2>2. CASE j = Len(q) + 1
    <3>1. rank[s[i]] \in 1 .. K /\ R[s[i]] = rank[s[i]] /\ R[s[j]] = K + 1
      BY <1>0, <1>1, <2>1, <2>2
    <3> QED
      BY <3>1
  <2>3. CASE j \in DOMAIN q /\ s[j] = q[j] /\ s[j] # c
    BY <1>0, <1>6, <2>1, <2>3 DEF At
  <2> QED
    BY <1>2, <2>2, <2>3
<1>7. At(all, R, W, M, k, s, g, v)
  BY <1>3, <1>4, <1>5, <1>6 DEF At
<1> QED
  BY <1>7 DEF s

\* A node without commands has executed all of them.
LEMMA AtEnd ==
    ASSUME NEW takes, NEW makes, NEW issued, NEW K, NEW rank, NEW V, NEW L,
           Table(takes, makes, issued, K, rank, V, L),
           NEW k \in 0 .. K, NEW q, NEW g, NEW v,
           At(issued, rank, V, L, k, q, g, v), \A i \in DOMAIN q : q[i] \notin issued
    PROVE  g = L[K]
<1>1. K \in Nat /\ \A r \in 1 .. K : \E c \in issued : rank[c] = r
  BY DEF Table
<1>2. \A c \in issued : ~(rank[c] > k)
  BY DEF At
<1>3. k = K
  BY <1>1, <1>2
<1> QED
  BY <1>3 DEF At

-----------------------------------------------------------------------------
\* Nodes agree as long as nothing fails

Pending(c) == stage[c] \in {"idle", "connecting"}

\* A write that no node has failed so far: each has it, or has answered it.
Undisturbed(c) ==
    \/ Pending(c)
    \/ \A n \in Nodes : /\ leg[c][n].attempt = 0
                        /\ \/ leg[c][n].stage = "sent"
                           \/ leg[c][n].stage = "ended" /\ leg[c][n].reply # "none"

Clean ==
    /\ Nodes # {}
    /\ \A c \in Calls : Kind(c) # "flush" /\ (Kind(c) \notin Reads => Undisturbed(c))
    /\ \A n \in Nodes : \A i \in DOMAIN replies[n] :
          Kind(replies[n][i].call) \notin Reads => replies[n][i].word # "error"

LegsKnown ==
    \A c \in Calls, n \in Nodes :
        /\ leg[c][n].reply # "none" => leg[c][n].stage = "ended"
        /\ leg[c][n].stage = "connecting" /\ Kind(c) # "flush" => leg[c][n].attempt > 0

LegForm(c, n) ==
    \/ leg'[c][n] = leg[c][n]
    \/ /\ leg'[c][n].stage # "none"
       /\ leg'[c][n].reply # "none" => leg'[c][n].stage = "ended"
       /\ leg'[c][n].stage = "connecting" /\ Kind(c) # "flush" => leg'[c][n].attempt > 0
       /\ \/ Pending(c) \/ Kind(c) = "flush" \/ leg'[c][n].attempt > 0
          \/ leg[c][n].stage = "sent" /\ leg'[c][n].attempt = leg[c][n].attempt

LEMMA StepLegForm ==
    ASSUME Types, LegsKnown, [Next]_vars, NEW c \in Calls, NEW n \in Nodes
    PROVE  LegForm(c, n)
<1>1. leg \in [Calls -> [Nodes -> Legs]] /\ todo \in [Calls -> Seq(Nodes)]
      /\ replies \in [Nodes -> Seq(Answers)]
  BY TypeParts
<1>1a. \A d \in Calls, m \in Nodes : leg[d][m] \in Legs /\ leg[d][m].attempt \in Nat
  BY <1>1 DEF Legs
<1>2. ASSUME leg'[c][n] = leg[c][n] PROVE LegForm(c, n)
  BY <1>2 DEF LegForm
<1>3. ASSUME NEW attempt, NEW word,
             \/ leg'[c][n] = Sent(attempt)
             \/ leg'[c][n] = Failed(c, attempt)
             \/ leg'[c][n] = Leg("connecting", attempt, "none") /\ (attempt > 0 \/ Kind(c) = "flush")
             \/ leg'[c][n] = Leg("ended", attempt, word),
             \/ Pending(c) \/ Kind(c) = "flush" \/ attempt > 0
             \/ leg[c][n].stage = "sent" /\ attempt = leg[c][n].attempt
      PROVE  LegForm(c, n)
  BY <1>3 DEF LegForm, Sent, Failed, Leg
\* The leg of call d and node m is x.
<1>4. ASSUME NEW d \in Calls, NEW m \in Nodes, NEW x, leg' = [leg EXCEPT ![d][m] = x],
             c = d /\ n = m => LegForm(c, n)
      PROVE  LegForm(c, n)
  <2>1. CASE c = d /\ n = m
    BY <1>4, <2>1
  <2>2. CASE ~(c = d /\ n = m)
    <3>1. leg'[c][n] = leg[c][n]
      BY <1>1, <1>4, <2>2
    <3> QED
      BY <1>2, <3>1
  <2> QED
    BY <2>1, <2>2
<1>5. ASSUME NEW d \in Calls, Call(d) \/ Connected(d) PROVE LegForm(c, n)
  <2>1. PICK path, connected : path \in Seq(Nodes) /\ Locate(d, path, connected)
    BY <1>5, LocatePath
  <2>2. leg' = leg \/ (leg'[c][n] = IF c # d THEN leg[c][n]
                                   ELSE IF n \in connected THEN Sent(0) ELSE Failed(d, 0))
    BY <2>1, LocateIssues
  <2>3. Pending(d)
    BY <1>5, LocatePath DEF Pending
  <2> QED
    BY <1>2, <1>3, <2>2, <2>3
<1>6. ASSUME NEW d \in Calls, CallAll(d) PROVE LegForm(c, n)
  <2>1. leg' = [leg EXCEPT ![d] = [m \in Nodes |->
                   IF m \in up THEN Sent(0) ELSE Leg("connecting", 0, "none")]] /\ Kind(d) = "flush"
    BY <1>6 DEF CallAll
  <2>2. leg'[c][n] = IF c # d THEN leg[c][n]
                     ELSE IF n \in up THEN Sent(0) ELSE Leg("connecting", 0, "none")
    BY <1>1, <2>1
  <2> QED
    BY <1>2, <1>3, <2>1, <2>2
<1>7. ASSUME NEW d \in Calls, NEW m \in Nodes, Wake(d, m) PROVE LegForm(c, n)
  <2>1. PICK attempt : attempt = leg[d][m].attempt + 1
    OBVIOUS
  <2>2. PICK x : /\ leg' = [leg EXCEPT ![d][m] = x]
                 /\ x = Sent(attempt) \/ x = Leg("connecting", attempt, "none")
    BY <1>7, <2>1 DEF Wake
  <2>3. attempt > 0
    BY <1>1a, <2>1
  <2>4. c = d /\ n = m => leg'[c][n] = x
    BY <1>1, <2>2
  <2> QED
    BY <1>3, <1>4, <2>2, <2>3, <2>4
<1>8. ASSUME NEW d \in Calls, NEW m \in Nodes, LegConnected(d, m) \/ LegNotConnected(d, m) PROVE LegForm(c, n)
  <2>1. PICK attempt : attempt = leg[d][m].attempt
    OBVIOUS
  <2>2. PICK x : /\ leg' = [leg EXCEPT ![d][m] = x]
                 /\ x = Sent(attempt) \/ x = Failed(d, attempt) \/ (x = Failed(d, 0) /\ Kind(d) = "flush")
    BY <1>8, <2>1 DEF LegConnected, LegNotConnected, Resend
  <2>3. attempt > 0 \/ Kind(d) = "flush"
    BY <1>8, <2>1 DEF LegConnected, LegNotConnected, LegsKnown
  <2>4. c = d /\ n = m => leg'[c][n] = x
    BY <1>1, <2>2
  <2> QED
    BY <1>3, <1>4, <2>2, <2>3, <2>4
<1>9. ASSUME NEW m \in Nodes, Deliver(m) PROVE LegForm(c, n)
  <2>1. replies[m] # <<>>
    BY <1>9 DEF Deliver
  <2>2. PICK d \in Calls, word \in Word :
           Head(replies[m]).call = d /\ Head(replies[m]).word = word /\ Outstanding(d, m)
    BY <2>1, AnswerIsAwaited DEF Answers
  <2>3. CASE Kind(d) \in Reads
    <3>1. leg' = leg
      BY <1>9, <2>2, <2>3 DEF Deliver
    <3> QED
      BY <1>2, <3>1
  <2>4. CASE Kind(d) \notin Reads
    <3>1. PICK attempt : attempt = leg[d][m].attempt
      OBVIOUS
    <3>2. PICK x : /\ leg' = [leg EXCEPT ![d][m] = x]
                   /\ x = Failed(d, attempt) \/ x = Leg("ended", attempt, word)
      BY <1>9, <2>2, <2>4, <3>1 DEF Deliver
    <3>3. leg[d][m].stage = "sent"
      BY <2>2, <2>4 DEF Outstanding
    <3>4. c = d /\ n = m => leg'[c][n] = x
      BY <1>1, <3>2
    <3> QED
      BY <1>3, <1>4, <3>1, <3>2, <3>3, <3>4
  <2> QED
    BY <2>3, <2>4
<1>10. ASSUME NEW m \in Nodes, Lost(m) PROVE LegForm(c, n)
  <2>1. leg'[c] = IF leg[c][m].stage = "sent" THEN [leg[c] EXCEPT ![m] = Failed(c, leg[c][m].attempt)]
                                              ELSE leg[c]
    BY <1>10 DEF Lost
  <2>2. \/ leg'[c][n] = leg[c][n]
        \/ leg[c][n].stage = "sent" /\ leg'[c][n] = Failed(c, leg[c][n].attempt)
    BY <1>1, <2>1
  <2> QED
    BY <1>2, <1>3, <2>2
<1>11. CASE \/ \E d \in Calls : \/ CallGets(d) \/ NotConnected(d) \/ Ask(d) \/ Dialed(d) \/ NotDialed(d)
                                \/ Miss(d) \/ Settle(d)
            \/ \E m \in Nodes : Executes(m) \/ ExecutesLate(m)
            \/ UNCHANGED vars
  <2>1. leg' = leg
    BY <1>11 DEF CallGets, NotConnected, Ask, Dialed, NotDialed, Miss, Settle, Executes, ExecutesLate, vars
  <2> QED
    BY <1>2, <2>1
<1> QED
  BY <1>5, <1>6, <1>7, <1>8, <1>9, <1>10, <1>11 DEF Next, Event, Continue

LEMMA InitLegsKnown == Init => LegsKnown
BY DEF Init, LegsKnown, NoLeg, Leg

LEMMA StepLegsKnown == Types /\ LegsKnown /\ [Next]_vars => LegsKnown'
<1> SUFFICES ASSUME Types, LegsKnown, [Next]_vars, NEW c \in Calls, NEW n \in Nodes
             PROVE  /\ leg'[c][n].reply # "none" => leg'[c][n].stage = "ended"
                    /\ leg'[c][n].stage = "connecting" /\ Kind(c) # "flush" => leg'[c][n].attempt > 0
  BY OperationsStay DEF LegsKnown
<1> QED
  BY StepLegForm DEF LegForm, LegsKnown

\* A write that has begun does not begin again.
LEMMA StepPending ==
    ASSUME Types, [Next]_vars, NEW c \in Calls, Kind(c) \notin Reads, Pending(c)'
    PROVE  Pending(c)
<1>1. stage \in [Calls -> Stages]
  BY TypeParts
<1>2. ASSUME stage'[c] = stage[c] PROVE Pending(c)
  BY <1>2 DEF Pending
<1>3. ASSUME NEW d \in Calls, NEW where, stage' = [stage EXCEPT ![d] = where],
             Pending(d) \/ where \notin {"idle", "connecting"}
      PROVE  Pending(c)
  BY <1>1, <1>3 DEF Pending
<1>4. ASSUME NEW d \in Calls, Call(d) \/ Connected(d) PROVE Pending(c)
  <2>1. Pending(d) /\ \E where : stage' = [stage EXCEPT ![d] = where]
    BY <1>4 DEF Call, Connected, Locate, Begin, Issued, Pending
  <2> QED
    BY <1>3, <2>1
<1>5. CASE \E d \in Calls : CallGets(d) \/ CallAll(d) \/ Continue(d) \/ NotConnected(d) \/ Dialed(d) \/ NotDialed(d)
  <2>1. PICK d \in Calls : CallGets(d) \/ CallAll(d) \/ Continue(d) \/ NotConnected(d) \/ Dialed(d) \/ NotDialed(d)
    BY <1>5
  <2>2. stage' = stage \/ \E where : /\ stage' = [stage EXCEPT ![d] = where]
                                     /\ where \notin {"idle", "connecting"}
    BY <2>1 DEF CallGets, CallAll, Continue, Ask, Miss, Settle, NotConnected, Dialed, NotDialed
  <2> QED
    BY <1>2, <1>3, <2>2
<1>6. ASSUME NEW d \in Calls, NEW n \in Nodes, Wake(d, n) \/ LegConnected(d, n) \/ LegNotConnected(d, n)
      PROVE  Pending(c)
  <2>1. stage' = stage \/ stage' = [stage EXCEPT ![d] = "done"]
    BY <1>6 DEF Wake, LegConnected, LegNotConnected
  <2> QED
    BY <1>2, <1>3, <2>1
<1>7. ASSUME NEW n \in Nodes, Deliver(n) PROVE Pending(c)
  <2>1. replies[n] # <<>>
    BY <1>7 DEF Deliver
  <2>2. PICK d \in Calls : d = Head(replies[n]).call
    BY <2>1, AnswerIsAwaited DEF Answers
  <2>3. stage' = stage \/ stage' = [stage EXCEPT ![d] = "done"] \/ stage' = [stage EXCEPT ![d] = "asking"]
    BY <1>7, <2>2 DEF Deliver
  <2> QED
    BY <1>2, <1>3, <2>3
<1>8. ASSUME NEW n \in Nodes, Lost(n) PROVE Pending(c)
  <2>1. stage'[c] \in {"asking", "done"} \/ stage'[c] = stage[c]
    BY <1>8 DEF Lost
  <2> QED
    BY <1>2, <2>1 DEF Pending
<1>9. CASE (\E n \in Nodes : Executes(n) \/ ExecutesLate(n)) \/ UNCHANGED vars
  <2>1. stage' = stage
    BY <1>9 DEF Executes, ExecutesLate, vars
  <2> QED
    BY <1>2, <2>1
<1> QED
  BY <1>4, <1>5, <1>6, <1>7, <1>8, <1>9 DEF Next, Event

\* A write whose leg fails is disturbed.
LEMMA FailureDisturbs ==
    ASSUME Types, LegsKnown, [Next]_vars, NEW c \in Calls, NEW n \in Nodes, Kind(c) \notin Reads,
           leg[c][n].stage = "sent", NEW attempt, leg'[c][n] = Failed(c, attempt)
    PROVE  ~Undisturbed(c)'
<1>1. ~Pending(c)
  BY IdleMeansNoLeg DEF Pending
<1>2. ~Pending(c)'
  BY <1>1, StepPending
<1>3. leg'[c][n].stage # "sent" /\ leg'[c][n].reply = "none"
  BY DEF Failed, Leg
<1> QED
  BY <1>2, <1>3 DEF Undisturbed

\* The commands and answers of the writes of a lost connection fail them.
LEMMA LossDisturbs ==
    ASSUME Types, LegsKnown, [Next]_vars, Clean', NEW n \in Nodes, Lost(n)
    PROVE  /\ \A i \in DOMAIN queue[n] : Kind(queue[n][i]) \in Reads
           /\ \A i \in DOMAIN replies[n] : Kind(replies[n][i].call) \in Reads
<1>1. ASSUME NEW c \in Out(n), Kind(c) \notin Reads PROVE FALSE
  <2>1. c \in Calls /\ leg[c][n].stage = "sent" /\ leg \in [Calls -> [Nodes -> Legs]]
    BY <1>1, TypeParts DEF Out, Outstanding
  <2>2. leg'[c] = [leg[c] EXCEPT ![n] = Failed(c, leg[c][n].attempt)]
    BY <2>1 DEF Lost
  <2>3. leg'[c][n] = Failed(c, leg[c][n].attempt)
    BY <2>1, <2>2
  <2>4. ~Undisturbed(c)'
    BY <1>1, <2>1, <2>3, FailureDisturbs
  <2> QED
    BY <1>1, <2>1, <2>4, OperationsStay DEF Clean
<1>2. Paired(queue[n], replies[n], Out(n))
  BY TypeParts DEF CommandsPaired
<1> QED
  BY <1>1, <1>2 DEF Paired

LEMMA StepClean == Types /\ LegsKnown /\ [Next]_vars /\ Clean' => Clean
<1> SUFFICES ASSUME Types, LegsKnown, [Next]_vars, Clean' PROVE Clean
  OBVIOUS
<1>1. operation' = operation /\ \A c \in Calls : Kind(c)' = Kind(c)
  BY OperationsStay
<1>2. Nodes # {} /\ \A c \in Calls : Kind(c) # "flush" /\ (Kind(c) \notin Reads => Undisturbed(c)')
  BY <1>1 DEF Clean
<1>3. ASSUME NEW c \in Calls, Kind(c) \notin Reads, ~Pending(c) PROVE Undisturbed(c)
  <2>1. SUFFICES ASSUME NEW n \in Nodes
                 PROVE  /\ leg[c][n].attempt = 0
                        /\ \/ leg[c][n].stage = "sent"
                           \/ leg[c][n].stage = "ended" /\ leg[c][n].reply # "none"
    BY DEF Undisturbed
  <2>2. /\ leg'[c][n].attempt = 0
        /\ \/ leg'[c][n].stage = "sent"
           \/ leg'[c][n].stage = "ended" /\ leg'[c][n].reply # "none"
    BY <1>2, <1>3, StepPending DEF Undisturbed
  <2> QED
    BY <1>2, <1>3, <2>2, StepLegForm DEF LegForm
<1>4. ASSUME NEW n \in Nodes, NEW i \in DOMAIN replies[n], Kind(replies[n][i].call) \notin Reads
      PROVE  replies[n][i].word # "error"
  <2>1. PICK r \in Seq(Answers) : r = replies[n]
    BY TypeParts
  <2>2. \A j \in DOMAIN replies'[n] : Kind(replies'[n][j].call) \notin Reads => replies'[n][j].word # "error"
    BY <1>1 DEF Clean, Kind
  <2>3. CASE replies'[n] = r
    BY <1>4, <2>1, <2>2, <2>3
  <2>4. CASE replies'[n] = <<>> /\ Lost(n)
    BY <1>4, <2>4, LossDisturbs
  <2>5. CASE r # <<>> /\ replies'[n] = Tail(r) /\ Deliver(n)
    <3>1. CASE i # 1
      <4>1. i - 1 \in DOMAIN Tail(r) /\ Tail(r)[i - 1] = r[i]
        BY <1>4, <2>1, <2>5, <3>1
      <4> QED
        BY <1>4, <2>1, <2>2, <2>5, <4>1
    <3>2. CASE i = 1
      <4>1. r[i] = Head(replies[n])
        BY <2>1, <2>5, <3>2
      <4>2. PICK c \in Calls : /\ c = Head(replies[n]).call /\ leg[c][n].stage = "sent"
                               /\ Kind(c) \notin Reads /\ c = replies[n][i].call
        BY <1>4, <2>1, <2>5, <4>1, AnswerIsAwaited DEF Answers, Outstanding
      <4>3. ASSUME replies[n][i].word = "error" PROVE FALSE
        <5>1. leg' = [leg EXCEPT ![c][n] = Failed(c, leg[c][n].attempt)]
          BY <2>1, <2>5, <4>1, <4>2, <4>3 DEF Deliver
        <5>2. leg'[c][n] = Failed(c, leg[c][n].attempt)
          BY <5>1, TypeParts
        <5>3. ~Undisturbed(c)'
          BY <4>2, <5>2, FailureDisturbs
        <5> QED
          BY <1>2, <4>2, <5>3
      <4> QED
        BY <4>3
    <3> QED
      BY <3>1, <3>2
  <2>6. ASSUME NEW word \in Word, queue[n] # <<>>,
               replies'[n] = Append(r, [call |-> Head(queue[n]), word |-> word])
        PROVE  replies[n][i].word # "error"
    <3>1. PICK d \in Calls : d = Head(queue[n])
      BY <2>6, TypeParts
    <3>2. PICK a \in Answers : a = [call |-> d, word |-> word]
      BY DEF Answers
    <3>3. i \in DOMAIN Append(r, a) /\ Append(r, a)[i] = r[i]
      BY <1>4, <2>1
    <3> QED
      BY <1>4, <2>1, <2>2, <2>6, <3>1, <3>2, <3>3
  <2> QED
    BY <2>1, <2>3, <2>4, <2>5, <2>6, StepReplies DEF ReplyStep
<1>5. \A c \in Calls : Kind(c) # "flush" /\ (Kind(c) \notin Reads => Undisturbed(c))
  BY <1>2, <1>3 DEF Undisturbed
<1> QED
  BY <1>2, <1>4, <1>5 DEF Clean

\* The writes that have begun; the values a call is executed with, and what
\* it makes of them.
IssuedWrites == {c \in Calls : Kind(c) \notin Reads /\ ~Pending(c)}

Takes == [c \in Calls |-> {v \in Seq(Calls) : Accepts(c, v)}]

Makes == [c \in Calls |-> [v \in Seq(Calls) |-> After(c, v)]]

LEMMA EffectsStay == operation' = operation => Takes' = Takes /\ Makes' = Makes
BY DEF Takes, Makes, Accepts, After, Kind

LEMMA MakesType == Makes \in [Calls -> [Seq(Calls) -> Seq(Calls)]]
<1>1. ASSUME NEW c \in Calls, NEW v \in Seq(Calls) PROVE After(c, v) \in Seq(Calls)
  <2>1. Append(v, c) \in Seq(Calls) /\ <<c>> \in Seq(Calls) /\ <<>> \in Seq(Calls)
    OBVIOUS
  <2> QED
    BY <2>1 DEF After
<1> QED
  BY <1>1 DEF Makes

\* A write is issued to all nodes at once.
Issues(c) ==
    /\ c \notin IssuedWrites /\ Kind(c) \notin Reads
    /\ IssuedWrites' = IssuedWrites \cup {c}
    /\ \A n \in Nodes : queue'[n] = Append(queue[n], c)
    /\ log' = log /\ value' = value

\* A node gets a read, executes a command, or loses its reads.
QueueStep(n) ==
    \/ UNCHANGED <<queue[n], log[n], value[n]>>
    \/ /\ \E c \in Calls : Kind(c) \in Reads /\ queue'[n] = Append(queue[n], c)
       /\ UNCHANGED <<log[n], value[n]>>
    \/ /\ queue[n] # <<>> /\ queue'[n] = Tail(queue[n]) /\ Kind(Head(queue[n])) \in Reads
       /\ UNCHANGED <<log[n], value[n]>>
    \/ /\ queue[n] # <<>> /\ queue'[n] = Tail(queue[n]) /\ Kind(Head(queue[n])) \notin Reads
       /\ log'[n] = IF Accepts(Head(queue[n]), value[n]) THEN Append(log[n], Head(queue[n])) ELSE log[n]
       /\ value'[n] = IF Accepts(Head(queue[n]), value[n]) THEN After(Head(queue[n]), value[n]) ELSE value[n]
    \/ /\ queue'[n] = <<>> /\ \A i \in DOMAIN queue[n] : Kind(queue[n][i]) \in Reads
       /\ UNCHANGED <<log[n], value[n]>>

LateReads == \A n \in Nodes : \A i \in DOMAIN late[n] : Kind(late[n][i]) \in Reads

LEMMA LocateClean ==
    ASSUME Types, LegsKnown, [Next]_vars, Clean, Clean', NEW c \in Calls, Call(c) \/ Connected(c)
    PROVE  \/ Issues(c)
           \/ IssuedWrites' = IssuedWrites /\ UNCHANGED <<queue, log, value>>
<1>1. stage \in [Calls -> Stages] /\ \A d \in Calls : Kind(d)' = Kind(d)
  BY TypeParts, OperationsStay
<1>2. UNCHANGED <<log, value>> /\ Pending(c)
  BY DEF Call, Connected, Pending
<1>3. Kind(c) \in Writes \cup {"get"}
  BY DEF Call, Connected, Types, CallShape
<1>4. PICK path, connected : path \in Seq(Nodes) /\ Locate(c, path, connected)
  BY LocatePath
<1>5. CASE UNCHANGED <<leg, queue>> /\ \/ stage' = [stage EXCEPT ![c] = "connecting"]
                                       \/ stage' = [stage EXCEPT ![c] = "asking"] /\ Kind(c) = "get"
  <2>1. \A d \in Calls : Kind(d) \notin Reads => (Pending(d)' <=> Pending(d))
    BY <1>1, <1>2, <1>5 DEF Pending, Reads
  <2> QED
    BY <1>1, <1>2, <1>5, <2>1 DEF IssuedWrites
<1>6. CASE Issued(c, connected) /\ Kind(c) # "get"
  <2>1. Kind(c) \notin Reads
    BY <1>3, <1>6 DEF Reads, Writes
  <2>2. stage' = [stage EXCEPT ![c] = "running"]
    BY <1>6 DEF Issued
  <2>3. ~Pending(c)' /\ \A d \in Calls : d # c => (Pending(d)' <=> Pending(d))
    BY <1>1, <2>2 DEF Pending
  <2>4. Undisturbed(c)'
    BY <1>1, <2>1 DEF Clean
  <2>5. ASSUME NEW n \in Nodes PROVE queue'[n] = Append(queue[n], c)
    <3>1. queue'[n] = IF n \in connected THEN Append(queue[n], c) ELSE queue[n]
      BY <1>6 DEF Issued
    <3>2. n \notin connected => leg'[c][n] = Failed(c, 0)
      <4> DEFINE legs == [m \in Nodes |-> IF m \in connected THEN Sent(0) ELSE Failed(c, 0)]
      <4>1. leg' = [leg EXCEPT ![c] = legs]
        BY <1>6 DEF Issued
      <4>2. n \notin connected => legs[n] = Failed(c, 0)
        OBVIOUS
      <4> HIDE DEF legs
      <4> QED
        BY <4>1, <4>2, TypeParts
    <3>3. leg'[c][n].stage = "sent" \/ leg'[c][n].reply # "none"
      BY <2>3, <2>4 DEF Undisturbed
    <3>4. Failed(c, 0).stage # "sent" /\ Failed(c, 0).reply = "none"
      BY DEF Failed, Leg
    <3> QED
      BY <3>1, <3>2, <3>3, <3>4
  <2>6. IssuedWrites' = IssuedWrites \cup {c} /\ c \notin IssuedWrites
    BY <1>1, <1>2, <2>1, <2>3 DEF IssuedWrites
  <2> QED
    BY <1>2, <2>1, <2>5, <2>6 DEF Issues
<1> QED
  BY <1>4, <1>5, <1>6 DEF Locate, Begin

CleanEffect ==
    \/ \E c \in Calls : Issues(c)
    \/ IssuedWrites' = IssuedWrites /\ \A n \in Nodes : QueueStep(n)

LEMMA CleanStep ==
    ASSUME Types, LegsKnown, [Next]_vars, Clean, Clean', LateReads
    PROVE  CleanEffect
<1>1. /\ stage \in [Calls -> Stages] /\ \A d \in Calls : Kind(d)' = Kind(d)
      /\ queue \in [Nodes -> Seq(Calls)] /\ log \in [Nodes -> Seq(Calls)] /\ value \in [Nodes -> Seq(Calls)]
  BY TypeParts, OperationsStay
<1>2. \A d \in Calls : Kind(d) # "flush" /\ (Kind(d) \notin Reads => Undisturbed(d))
  BY DEF Clean
\* The writes that have begun stay the same.
<1>3. ASSUME stage' = stage \/ \E d \in Calls : \E where :
                                  /\ stage' = [stage EXCEPT ![d] = where]
                                  /\ Kind(d) \in Reads \/ ~Pending(d)
      PROVE  IssuedWrites' = IssuedWrites
  <2>1. \A d \in Calls : Kind(d) \notin Reads /\ Pending(d) => Pending(d)'
    BY <1>1, <1>3 DEF Pending
  <2>2. \A d \in Calls : Kind(d) \notin Reads /\ Pending(d)' => Pending(d)
    BY StepPending
  <2> QED
    BY <1>1, <2>1, <2>2 DEF IssuedWrites
<1>4. ASSUME IssuedWrites' = IssuedWrites, UNCHANGED <<queue, log, value>> PROVE CleanEffect
  BY <1>4 DEF QueueStep, CleanEffect
<1>5. ASSUME NEW c \in Calls, Call(c) \/ Connected(c) PROVE CleanEffect
  BY <1>4, <1>5, LocateClean DEF CleanEffect
<1>6. ASSUME NEW c \in Calls, CallAll(c) PROVE FALSE
  BY <1>2, <1>6 DEF CallAll
<1>7. ASSUME NEW c \in Calls, CallGets(c) \/ NotDialed(c) \/ Miss(c) \/ Settle(c) PROVE CleanEffect
  <2>1. /\ \E where : stage' = [stage EXCEPT ![c] = where]
        /\ UNCHANGED <<queue, log, value>>
    BY <1>7 DEF CallGets, NotDialed, Miss, Settle, wires
  <2>2. Kind(c) \in Reads \/ ~Pending(c)
    BY <1>7 DEF CallGets, NotDialed, Miss, Settle, Reads, Pending
  <2> QED
    BY <1>3, <1>4, <2>1, <2>2
<1>8. ASSUME NEW c \in Calls, NotConnected(c) PROVE CleanEffect
  <2>1. stage[c] = "connecting" /\ stage' = [stage EXCEPT ![c] = "done"] /\ UNCHANGED <<queue, log, value, leg>>
    BY <1>8 DEF NotConnected, wires
  <2>2. CASE Kind(c) \in Reads
    BY <1>3, <1>4, <2>1, <2>2
  <2>3. CASE Kind(c) \notin Reads
    <3>1. PICK n \in Nodes : TRUE
      BY DEF Clean
    <3>2. leg[c][n].stage = "none" /\ leg' = leg
      BY <2>1, IdleMeansNoLeg
    <3>3. ~Pending(c)'
      BY <1>1, <2>1 DEF Pending
    <3>4. ~Undisturbed(c)'
      BY <3>2, <3>3 DEF Undisturbed
    <3> QED
      BY <1>1, <2>3, <3>4 DEF Clean
  <2> QED
    BY <2>2, <2>3
<1>9. ASSUME NEW c \in Calls, Ask(c) \/ Dialed(c) PROVE CleanEffect
  <2>1. Kind(c) \in Reads /\ UNCHANGED <<log, value>>
    BY <1>9 DEF Ask, Dialed, Types, CallShape
  <2>2. stage' = stage \/ \E where : stage' = [stage EXCEPT ![c] = where]
    BY <1>9 DEF Ask, Dialed
  <2>3. PICK m : queue' = queue \/ queue' = [queue EXCEPT ![m] = Append(@, c)]
    BY <1>9 DEF Ask, Dialed
  <2>4. \A n \in Nodes : queue'[n] = queue[n] \/ queue'[n] = Append(queue[n], c)
    BY <1>1, <2>3
  <2>5. IssuedWrites' = IssuedWrites
    BY <1>3, <2>1, <2>2
  <2> QED
    BY <2>1, <2>4, <2>5 DEF QueueStep, CleanEffect
<1>10. ASSUME NEW c \in Calls, NEW n \in Nodes, Wake(c, n) \/ LegConnected(c, n) \/ LegNotConnected(c, n)
       PROVE  FALSE
  <2>1. leg[c][n].stage \in {"sleeping", "connecting"}
    BY <1>10 DEF Wake, LegConnected, LegNotConnected
  <2>2. Kind(c) \notin Reads /\ ~Pending(c)
    BY <2>1, LegOfWrite, IdleMeansNoLeg DEF Pending
  <2> QED
    BY <1>2, <2>1, <2>2 DEF Undisturbed
<1>11. ASSUME NEW m \in Nodes, Executes(m) PROVE CleanEffect
  <2>1. queue[m] # <<>> /\ queue' = [queue EXCEPT ![m] = Tail(@)] /\ stage' = stage
    BY <1>11 DEF Executes
  <2>2. PICK c \in Calls : c = Head(queue[m])
    BY <1>1, <2>1
  <2>3. PICK word \in Word :
           /\ replies' = [replies EXCEPT ![m] = Append(@, [call |-> c, word |-> word])]
           /\ \/ word = "error" /\ UNCHANGED <<value, log>>
              \/ word = "ok" /\ Accepts(c, value[m]) /\ Performs(m, c)
              \/ word = "refused" /\ ~Accepts(c, value[m]) /\ UNCHANGED <<value, log>>
    BY <1>11, <2>2 DEF Executes, Word
  <2>4. word = "error" => Kind(c) \in Reads
    <3>1. PICK a \in Answers : a = [call |-> c, word |-> word]
      BY DEF Answers
    <3>2. replies[m] \in Seq(Answers) /\ replies'[m] = Append(replies[m], a)
      BY <2>3, <3>1, TypeParts
    <3>3. Len(replies[m]) + 1 \in DOMAIN replies'[m] /\ replies'[m][Len(replies[m]) + 1] = a
      BY <3>2
    <3>4. Kind(a.call)' \notin Reads => a.word # "error"
      BY <3>3 DEF Clean, Kind
    <3> QED
      BY <1>1, <3>1, <3>4
  <2>5. IssuedWrites' = IssuedWrites
    BY <1>3, <2>1
  <2>6. \A n \in Nodes : n # m => UNCHANGED <<queue[n], log[n], value[n]>>
    BY <1>1, <2>1, <2>3 DEF Performs
  <2>7. queue'[m] = Tail(queue[m])
    BY <1>1, <2>1
  <2>8. CASE Kind(c) \in Reads
    <3>1. After(c, value[m]) = value[m]
      BY <2>8 DEF After, Reads
    <3>2. log'[m] = log[m] /\ value'[m] = value[m]
      BY <1>1, <2>3, <2>8, <3>1 DEF Performs
    <3>3. QueueStep(m)
      BY <2>1, <2>2, <2>7, <2>8, <3>2 DEF QueueStep
    <3> QED
      BY <2>5, <2>6, <3>3 DEF QueueStep, CleanEffect
  <2>9. CASE Kind(c) \notin Reads
    <3>1. /\ log'[m] = (IF Accepts(c, value[m]) THEN Append(log[m], c) ELSE log[m])
          /\ value'[m] = IF Accepts(c, value[m]) THEN After(c, value[m]) ELSE value[m]
      BY <1>1, <2>3, <2>4, <2>9 DEF Performs
    <3>2. QueueStep(m)
      BY <2>1, <2>2, <2>7, <2>9, <3>1 DEF QueueStep
    <3> QED
      BY <2>5, <2>6, <3>2 DEF QueueStep, CleanEffect
  <2> QED
    BY <2>8, <2>9
<1>12. ASSUME NEW m \in Nodes, ExecutesLate(m) PROVE CleanEffect
  <2>1. late[m] # <<>> /\ late[m] \in Seq(Calls) /\ queue' = queue /\ stage' = stage
    BY <1>12, TypeParts DEF ExecutesLate
  <2>2. PICK c \in Calls : c = Head(late[m]) /\ Kind(c) \in Reads
    <3>1. 1 \in DOMAIN late[m] /\ Head(late[m]) = late[m][1] /\ late[m][1] \in Calls
      BY <2>1
    <3> QED
      BY <3>1 DEF LateReads
  <2>3. UNCHANGED <<value, log>> \/ Performs(m, c)
    BY <1>12, <2>2 DEF ExecutesLate
  <2>4. After(c, value[m]) = value[m]
    BY <2>2 DEF After, Reads
  <2>5. log' = log /\ \A n \in Nodes : value'[n] = value[n]
    BY <1>1, <2>2, <2>3, <2>4 DEF Performs
  <2> QED
    BY <1>3, <2>1, <2>5 DEF QueueStep, CleanEffect
<1>13. ASSUME NEW m \in Nodes, Deliver(m) PROVE CleanEffect
  <2>1. UNCHANGED <<queue, log, value>> /\ replies[m] # <<>>
    BY <1>13 DEF Deliver
  <2>2. PICK d \in Calls : d = Head(replies[m]).call
    BY <2>1, AnswerIsAwaited DEF Answers
  <2>3. stage' = stage \/ (Kind(d) \in Reads /\ \E where : stage' = [stage EXCEPT ![d] = where])
    BY <1>2, <1>13, <2>2 DEF Deliver
  <2> QED
    BY <1>3, <1>4, <2>1, <2>3
<1>14. ASSUME NEW m \in Nodes, Lost(m) PROVE CleanEffect
  <2>1. queue' = [queue EXCEPT ![m] = <<>>] /\ UNCHANGED <<log, value>>
    BY <1>14 DEF Lost
  <2>2. \A i \in DOMAIN queue[m] : Kind(queue[m][i]) \in Reads
    BY <1>14, LossDisturbs
  <2>3. ASSUME NEW d \in Calls, Kind(d) \notin Reads PROVE stage'[d] = stage[d]
    <3>1. stage[d] # "asked" /\ Kind(d) # "flush"
      BY <1>2, <2>3 DEF Types, CallShape
    <3> QED
      BY <1>14, <3>1 DEF Lost
  <2>4. IssuedWrites' = IssuedWrites
    BY <1>1, <2>3 DEF IssuedWrites, Pending
  <2>5. \A n \in Nodes : n # m => queue'[n] = queue[n]
    BY <1>1, <2>1
  <2>6. queue'[m] = <<>>
    BY <1>1, <2>1
  <2> QED
    BY <2>1, <2>2, <2>4, <2>5, <2>6 DEF QueueStep, CleanEffect
<1>15. CASE UNCHANGED vars
  BY <1>3, <1>4, <1>15 DEF vars, wires
<1> QED
  BY <1>5, <1>6, <1>7, <1>8, <1>9, <1>10, <1>11, <1>12, <1>13, <1>14, <1>15 DEF Next, Event, Continue

LEMMA StepLateReads ==
    ASSUME Types, LegsKnown, [Next]_vars, Clean', LateReads
    PROVE  LateReads'
<1>1. \A c \in Calls : Kind(c)' = Kind(c)
  BY OperationsStay
<1>2. ASSUME NEW n \in Nodes, NEW i \in DOMAIN late'[n] PROVE late'[n][i] \in Calls /\ Kind(late'[n][i]) \in Reads
  <2>1. PICK l \in Seq(Calls), q \in Seq(Calls) : l = late[n] /\ q = queue[n]
    BY TypeParts
  <2>2. \A j \in DOMAIN l : l[j] \in Calls /\ Kind(l[j]) \in Reads
    BY <2>1 DEF LateReads
  <2>3. CASE late'[n] = l
    BY <1>2, <2>2, <2>3
  <2>4. CASE l # <<>> /\ late'[n] = Tail(l)
    <3>1. i + 1 \in DOMAIN l /\ late'[n][i] = l[i + 1]
      BY <1>2, <2>4
    <3> QED
      BY <2>2, <3>1
  <2>5. CASE Lost(n) /\ late'[n] = l \o q
    <3>1. \A j \in DOMAIN q : q[j] \in Calls /\ Kind(q[j]) \in Reads
      BY <2>1, <2>5, LossDisturbs
    <3>2. (i \in DOMAIN l /\ late'[n][i] = l[i]) \/ (\E j \in DOMAIN q : late'[n][i] = q[j])
      BY <1>2, <2>5
    <3> QED
      BY <2>2, <3>1, <3>2
  <2> QED
    BY <2>1, <2>3, <2>4, <2>5, StepWires DEF WireStep, Leaves
<1> QED
  BY <1>2, OperationsStay DEF LateReads, Kind

\* The writes reach every node in one order, and what a node has comes from
\* how many of them it has executed.
Agrees(K, rank, V, L) ==
    /\ Table(Takes, Makes, IssuedWrites, K, rank, V, L)
    /\ \A n \in Nodes : \E k \in 0 .. K : At(IssuedWrites, rank, V, L, k, queue[n], log[n], value[n])

OneOrder == Clean => LateReads /\ \E K, rank, V, L : Agrees(K, rank, V, L)

LEMMA QueueIsOut ==
    ASSUME Types, NEW n \in Nodes, NEW i \in DOMAIN queue[n]
    PROVE  /\ queue[n][i] \in Calls /\ Outstanding(queue[n][i], n)
           /\ queue[n][i] \in IssuedWrites <=> Kind(queue[n][i]) \notin Reads
<1>1. PICK c \in Calls : c = queue[n][i] /\ Outstanding(c, n)
  BY TypeParts DEF CommandsPaired, Paired, Out
<1>2. Kind(c) \notin Reads => ~Pending(c)
  BY <1>1, IdleMeansNoLeg DEF Outstanding, Pending
<1> QED
  BY <1>1, <1>2 DEF IssuedWrites

LEMMA StepAt ==
    ASSUME Types, NEW n \in Nodes, QueueStep(n), NEW K, NEW rank, NEW V, NEW L,
           Table(Takes, Makes, IssuedWrites, K, rank, V, L),
           NEW k \in 0 .. K, At(IssuedWrites, rank, V, L, k, queue[n], log[n], value[n])
    PROVE  \E j \in 0 .. K : At(IssuedWrites, rank, V, L, j, queue'[n], log'[n], value'[n])
<1>1. PICK q \in Seq(Calls), g \in Seq(Calls), v \in Seq(Calls) : q = queue[n] /\ g = log[n] /\ v = value[n]
  BY TypeParts
<1>2. At(IssuedWrites, rank, V, L, k, q, g, v)
  BY <1>1
<1>3. /\ \A i \in DOMAIN q : q[i] \in Calls /\ (q[i] \in IssuedWrites <=> Kind(q[i]) \notin Reads)
      /\ \A c \in Calls : Kind(c) \in Reads => c \notin IssuedWrites
  BY <1>1, QueueIsOut DEF IssuedWrites
<1>4. q # <<>> => 1 \in DOMAIN q /\ Head(q) = q[1]
  OBVIOUS
<1>5. CASE UNCHANGED <<queue[n], log[n], value[n]>>
  BY <1>5
<1>6. ASSUME NEW c \in Calls, Kind(c) \in Reads, queue'[n] = Append(q, c), log'[n] = g, value'[n] = v
      PROVE  At(IssuedWrites, rank, V, L, k, queue'[n], log'[n], value'[n])
  BY <1>2, <1>3, <1>6, AtRead
<1>7. CASE q # <<>> /\ queue'[n] = Tail(q) /\ Kind(Head(q)) \in Reads /\ log'[n] = g /\ value'[n] = v
  <2>1. Head(q) \notin IssuedWrites
    BY <1>3, <1>4, <1>7
  <2> QED
    BY <1>2, <1>7, <2>1, AtReadDone
<1>8. CASE /\ q # <<>> /\ queue'[n] = Tail(q) /\ Kind(Head(q)) \notin Reads
           /\ log'[n] = IF Accepts(Head(q), v) THEN Append(g, Head(q)) ELSE g
           /\ value'[n] = IF Accepts(Head(q), v) THEN After(Head(q), v) ELSE v
  <2>1. PICK h \in Calls : h = Head(q) /\ h \in IssuedWrites
    BY <1>3, <1>4, <1>8
  <2>2. (v \in Takes[h] <=> Accepts(h, v)) /\ Makes[h][v] = After(h, v)
    BY DEF Takes, Makes
  <2>3. log'[n] = (IF v \in Takes[h] THEN Append(g, h) ELSE g)
        /\ value'[n] = IF v \in Takes[h] THEN Makes[h][v] ELSE v
    BY <1>8, <2>1, <2>2
  <2>4. PICK takes, makes : takes = Takes /\ makes = Makes
    OBVIOUS
  <2>5. PICK issued : issued = IssuedWrites
    OBVIOUS
  <2>6. /\ Table(takes, makes, issued, K, rank, V, L) /\ At(issued, rank, V, L, k, q, g, v) /\ h \in issued
        /\ log'[n] = (IF v \in takes[h] THEN Append(g, h) ELSE g)
        /\ value'[n] = IF v \in takes[h] THEN makes[h][v] ELSE v
    BY <1>2, <2>1, <2>3, <2>4, <2>5
  <2>7. k + 1 \in 0 .. K /\ At(issued, rank, V, L, k + 1, queue'[n], log'[n], value'[n])
    BY <1>8, <2>1, <2>6, AtWriteDone
  <2> QED
    BY <2>5, <2>7
<1>9. CASE queue'[n] = <<>> /\ (\A i \in DOMAIN q : Kind(q[i]) \in Reads) /\ log'[n] = g /\ value'[n] = v
  <2>1. \A i \in DOMAIN q : q[i] \notin IssuedWrites
    BY <1>3, <1>9
  <2> QED
    BY <1>2, <1>9, <2>1, AtLost
<1> QED
  BY <1>1, <1>5, <1>6, <1>7, <1>8, <1>9 DEF QueueStep

LEMMA InitOneOrder == Init => OneOrder
<1> SUFFICES ASSUME Init PROVE LateReads /\ \E K, rank, V, L : Agrees(K, rank, V, L)
  BY DEF OneOrder
<1>1. LateReads /\ IssuedWrites = {}
  BY DEF Init, LateReads, IssuedWrites, Pending
<1>2. PICK rank \in [Calls -> Nat] : TRUE
  <2>1. [c \in Calls |-> 0] \in [Calls -> Nat]
    OBVIOUS
  <2> QED
    BY <2>1
<1>3. PICK V \in [Nat -> Seq(Calls)] : V[0] = <<>>
  <2>1. [k \in Nat |-> <<>>] \in [Nat -> Seq(Calls)] /\ [k \in Nat |-> <<>>][0] = <<>>
    OBVIOUS
  <2> QED
    BY <2>1
<1>4. Table(Takes, Makes, IssuedWrites, 0, rank, V, V)
  BY <1>1, <1>2, <1>3 DEF Table
<1>5. ASSUME NEW n \in Nodes PROVE At(IssuedWrites, rank, V, V, 0, queue[n], log[n], value[n])
  BY <1>1, <1>3 DEF Init, At
<1>6. Agrees(0, rank, V, V)
  BY <1>4, <1>5 DEF Agrees
<1> QED
  BY <1>1, <1>6

LEMMA StepOneOrder == Types /\ LegsKnown /\ OneOrder /\ [Next]_vars => OneOrder'
<1> SUFFICES ASSUME Types, LegsKnown, OneOrder, [Next]_vars, Clean' PROVE OneOrder'
  BY DEF OneOrder
<1>1. Clean /\ LateReads /\ LateReads'
  BY StepClean, StepLateReads DEF OneOrder
<1>2. PICK K, rank, V, L : Agrees(K, rank, V, L)
  BY <1>1 DEF OneOrder
<1>3. Table(Takes, Makes, IssuedWrites, K, rank, V, L)
  BY <1>2 DEF Agrees
<1>4. Takes' = Takes /\ Makes' = Makes
  BY OperationsStay, EffectsStay
<1>5. ASSUME IssuedWrites' = IssuedWrites, \A n \in Nodes : QueueStep(n)
      PROVE  \E R, W, M, J : Agrees(J, R, W, M)'
  <2>1. Table(Takes', Makes', IssuedWrites', K, rank, V, L)
    BY <1>3, <1>4, <1>5
  <2>2. ASSUME NEW n \in Nodes
        PROVE  \E k \in 0 .. K : At(IssuedWrites', rank, V, L, k, queue'[n], log'[n], value'[n])
    <3>1. PICK k \in 0 .. K : At(IssuedWrites, rank, V, L, k, queue[n], log[n], value[n])
      BY <1>2 DEF Agrees
    <3>2. PICK j \in 0 .. K : At(IssuedWrites, rank, V, L, j, queue'[n], log'[n], value'[n])
      BY <1>3, <1>5, <3>1, StepAt
    <3> QED
      BY <1>5, <3>2
  <2>3. Agrees(K, rank, V, L)'
    BY <2>1, <2>2 DEF Agrees
  <2> QED
    BY <2>3
<1>6. ASSUME NEW c \in Calls, Issues(c) PROVE \E R, W, M, J : Agrees(J, R, W, M)'
  <2>1. PICK takes, makes, issued : takes = Takes /\ makes = Makes /\ issued = IssuedWrites
    OBVIOUS
  <2>2. /\ Table(takes, makes, issued, K, rank, V, L) /\ c \notin issued
        /\ makes \in [Calls -> [Seq(Calls) -> Seq(Calls)]]
    BY <1>3, <1>6, <2>1, MakesType DEF Issues
  <2>3. PICK R, W, M : Longer(takes, makes, issued, K, rank, V, L, c, R, W, M)
    BY <2>2, TableIssue
  <2>4. K \in Nat /\ (\A d \in issued : rank[d] \in 1 .. K) /\ K + 1 \in Nat
    BY <2>2 DEF Table
  <2>5. ASSUME NEW n \in Nodes
        PROVE  \E k \in 0 .. K + 1 : At(issued \cup {c}, R, W, M, k, queue'[n], log'[n], value'[n])
    <3>1. PICK k \in 0 .. K : At(issued, rank, V, L, k, queue[n], log[n], value[n])
      BY <1>2, <2>1 DEF Agrees
    <3>2. PICK q \in Seq(Calls) : q = queue[n]
      BY TypeParts
    <3>3. \A i \in DOMAIN q : q[i] # c
      BY <1>6, <3>2, QueueIsOut DEF Issues
    <3>4. At(issued \cup {c}, R, W, M, k, Append(q, c), log[n], value[n])
      BY <2>2, <2>3, <2>4, <3>1, <3>2, <3>3, AtIssue
    <3>5. queue'[n] = Append(q, c) /\ log'[n] = log[n] /\ value'[n] = value[n] /\ k \in 0 .. K + 1
      BY <1>6, <2>4, <3>2 DEF Issues
    <3> QED
      BY <3>4, <3>5
  <2>6. IssuedWrites' = issued \cup {c} /\ Takes' = takes /\ Makes' = makes
    BY <1>4, <1>6, <2>1 DEF Issues
  <2>7. Table(Takes', Makes', IssuedWrites', K + 1, R, W, M)
    BY <2>3, <2>6 DEF Longer
  <2>8. ASSUME NEW n \in Nodes
        PROVE  \E k \in 0 .. K + 1 : At(IssuedWrites', R, W, M, k, queue'[n], log'[n], value'[n])
    BY <2>5, <2>6
  <2>9. Agrees(K + 1, R, W, M)'
    BY <2>7, <2>8 DEF Agrees
  <2> QED
    BY <2>9
<1>7. CleanEffect
  BY <1>1, CleanStep
<1>8. \E R, W, M, J : Agrees(J, R, W, M)'
  BY <1>5, <1>6, <1>7 DEF CleanEffect
<1>9. PICK R, W, M, J : Agrees(J, R, W, M)'
  BY <1>8
<1> QED
  BY <1>1, <1>9 DEF OneOrder

\* As long as nothing fails and no node is flushed, overlapping writes reach
\* all nodes of a key in one order, so that the nodes agree (index.ts 1410-1421).
THEOREM WritesInOneOrder == Spec => []ReplicasAgree
<1>1. Types /\ LegsKnown /\ OneOrder => ReplicasAgree
  <2> SUFFICES ASSUME Types, LegsKnown, OneOrder, NEW n \in Nodes, NEW m \in Nodes,
                      \A c \in Calls : Kind(c) \in Reads \/ stage[c] = "idle" \/ Straight(c),
                      \A c \in Calls : Kind(c) # "flush"
               PROVE  log[n] = log[m]
    BY DEF ReplicasAgree
  <2>1. ASSUME NEW c \in Calls, NEW i \in Nodes, Kind(c) \notin Reads
        PROVE  ~Outstanding(c, i) /\ Undisturbed(c)
    <3>1. CASE stage[c] = "idle"
      BY <2>1, <3>1, IdleMeansNoLeg DEF Outstanding, Undisturbed, Pending
    <3>2. CASE Straight(c)
      BY <2>1, <3>2 DEF Straight, LegsKnown, Outstanding, Undisturbed
    <3> QED
      BY <2>1, <3>1, <3>2
  <2>2. \A i \in Nodes : Paired(queue[i], replies[i], Out(i))
    BY DEF Types, CommandsPaired
  <2>3. Clean
    BY <2>1, <2>2 DEF Clean, Paired, Out
  <2>4. PICK K, rank, V, L : Agrees(K, rank, V, L)
    BY <2>3 DEF OneOrder
  <2>5. ASSUME NEW i \in Nodes PROVE log[i] = L[K]
    <3>1. PICK k \in 0 .. K : At(IssuedWrites, rank, V, L, k, queue[i], log[i], value[i])
      BY <2>4 DEF Agrees
    <3>2. \A j \in DOMAIN queue[i] : queue[i][j] \notin IssuedWrites
      BY <2>1, QueueIsOut
    <3>3. Table(Takes, Makes, IssuedWrites, K, rank, V, L)
      BY <2>4 DEF Agrees
    <3> QED
      BY <3>1, <3>2, <3>3, AtEnd
  <2> QED
    BY <2>5
<1>2. Spec => [](Types /\ LegsKnown /\ OneOrder)
  BY InitTypes, StepTypes, InitLegsKnown, StepLegsKnown, InitOneOrder, StepOneOrder, PTL DEF Spec
<1> QED
  BY <1>1, <1>2, PTL

=============================================================================
