-------------------------- MODULE ClientOperations --------------------------
(***************************************************************************)
(* The operations of a Memcache client (src/src/index.ts) on one key: the  *)
(* lookup that connects its nodes, the commands on all of them, retries,   *)
(* and the fallback of get() and gets() from node to node.  stats(),       *)
(* version() and flush() are the operations on all nodes.                  *)
(*                                                                         *)
(* A node is what CommandChannel promises: while it is up it answers its   *)
(* commands in order, and when it goes down it rejects them all.  What it  *)
(* had sent may still reach the server and be executed later.  The value   *)
(* of the key on a server is the sequence of the writes it is made of,     *)
(* empty when the key is missing.                                          *)
(***************************************************************************)
EXTENDS Integers, Sequences, FiniteSets, SequencesExt

CONSTANTS
    Calls,                \* calls of the users
    Programs,             \* what the calls are: [Calls -> Operation]
    Replicas,             \* the nodes of the key, primary first; all nodes there are
    Retries,              \* retries
    RetryOnlyIdempotent,  \* retryOnlyIdempotent
    MaxFaults             \* bound on lost connections, failed ones, and error answers

Nodes == ToSet(Replicas)

\* The writes differ in when the server accepts them and what they do to the
\* value: replace stands for cas(), append for prepend(), incr for decr().  Of
\* the keys of gets() one is followed: the others only delay it.
Reads     == {"get", "gets"}
Writes    == {"set", "add", "replace", "append", "delete", "touch", "incr"}
Operation == [kind : Writes \cup Reads \cup {"flush"}, idempotent : BOOLEAN]

ASSUME ProgramsAssumption == Programs \subseteq [Calls -> Operation]
ASSUME ReplicasAssumption == Replicas \in Seq(Nodes) /\ IsInjective(Replicas)
ASSUME RetriesAssumption  == Retries \in Nat /\ RetryOnlyIdempotent \in BOOLEAN
ASSUME BoundAssumption    == MaxFaults \in Nat

VARIABLES
    operation,  \* what each call is
    up,         \* the nodes that are connected
    queue,      \* per node: calls whose command was sent, and not yet executed
    replies,    \* per node: answers that are on their way
    late,       \* per node: commands sent on connections that were lost
    value,      \* per node: the value of the key on its server
    log,        \* per node: the writes its server has executed
    stage,      \* how far each call is
    todo,       \* nodes it has to connect, or to ask
    leg,        \* per call and node: what executeWithRetry() does
    outcome,    \* how the promise of the call settled
    steady,     \* history: nodes that have had a value to give since a read began
    faults

wires == <<queue, replies, late, value, log>>
vars  == <<operation, up, wires, stage, todo, leg, outcome, steady, faults>>

Leg(where, attempt, reply) == [stage |-> where, attempt |-> attempt, reply |-> reply]
NoLeg == Leg("none", 0, "none")

\* A failure of the network or of a server.
Fault == faults < MaxFaults /\ faults' = faults + 1

\* No node is connected before the first operation, all are after connect().
Init ==
    /\ operation \in Programs
    /\ up \in {{}, Nodes}
    /\ queue = [n \in Nodes |-> <<>>]
    /\ replies = [n \in Nodes |-> <<>>]
    /\ late = [n \in Nodes |-> <<>>]
    /\ value = [n \in Nodes |-> <<>>]
    /\ log = [n \in Nodes |-> <<>>]
    /\ stage = [c \in Calls |-> "idle"]
    /\ todo = [c \in Calls |-> <<>>]
    /\ leg = [c \in Calls |-> [n \in Nodes |-> NoLeg]]
    /\ outcome = [c \in Calls |-> "none"]
    /\ steady = [c \in Calls |-> {}]
    /\ faults = 0

-----------------------------------------------------------------------------
\* The server

Kind(c) == operation[c].kind

\* A server with value v executes call c, and the value it has then.
Accepts(c, v) ==
    CASE Kind(c) \in {"set", "flush"} -> TRUE
      [] Kind(c) = "add" -> v = <<>>
      [] OTHER -> v # <<>>

After(c, v) ==
    CASE Kind(c) \in {"set", "add", "replace"} -> <<c>>
      [] Kind(c) \in {"append", "incr"} -> Append(v, c)
      [] Kind(c) \in {"delete", "flush"} -> <<>>
      [] OTHER -> v

-----------------------------------------------------------------------------
\* executeWithRetry()

\* (mutant) every command is retried.
AlwaysRetried(c) == IF Kind(c) = "flush" THEN 0 ELSE Retries

\* execute(); reads and flush() do not go through it.
MaxRetries(c) ==
    IF Kind(c) \in Writes /\ (RetryOnlyIdempotent => operation[c].idempotent)
    THEN Retries ELSE 0

\* (mutant) one retry too many.
FailedOnceMore(c, attempt) ==
    Leg(IF MaxRetries(c) > 0 /\ attempt <= MaxRetries(c) THEN "sleeping" ELSE "ended", attempt, "none")

\* An attempt has failed.
Failed(c, attempt) ==
    Leg(IF attempt < MaxRetries(c) THEN "sleeping" ELSE "ended", attempt, "none")

Sent(attempt) == Leg("sent", attempt, "none")

\* (mutant) the first node is served before the others.
IssuedInTurn(c, connected) ==
    /\ stage' = [stage EXCEPT ![c] = "running"]
    /\ leg' = [leg EXCEPT ![c] = [n \in Nodes |->
                  IF n = Head(Replicas) /\ n \in connected THEN Sent(0)
                  ELSE Leg("connecting", 0, "none")]]
    /\ queue' = [n \in Nodes |->
                    IF n = Head(Replicas) /\ n \in connected THEN Append(queue[n], c)
                    ELSE queue[n]]
    /\ UNCHANGED todo

\* The commands of a call go to the nodes that are connected, all at once;
\* the others refuse them.
Issued(c, connected) ==
    /\ stage' = [stage EXCEPT ![c] = "running"]
    /\ leg' = [leg EXCEPT ![c] = [n \in Nodes |->
                  IF n \in connected THEN Sent(0) ELSE Failed(c, 0)]]
    /\ queue' = [n \in Nodes |->
                    IF n \in connected THEN Append(queue[n], c) ELSE queue[n]]
    /\ UNCHANGED todo

Begin(c, connected) ==
    \/ /\ Kind(c) = "get"
       /\ stage' = [stage EXCEPT ![c] = "asking"]
       /\ todo' = [todo EXCEPT ![c] = Replicas]
       /\ UNCHANGED <<leg, queue>>
    \/ Kind(c) # "get" /\ Issued(c, connected)

-----------------------------------------------------------------------------
\* getNodesByKey(): nodes that are not connected are connected in turn.

Locate(c, path, connected) ==
    \E k \in 1 .. Len(path) + 1 :
        /\ \A i \in 1 .. k - 1 : path[i] \in connected
        /\ \/ k > Len(path) /\ Begin(c, connected)
           \/ /\ k <= Len(path) /\ path[k] \notin connected
              /\ stage' = [stage EXCEPT ![c] = "connecting"]
              /\ todo' = [todo EXCEPT ![c] = SubSeq(path, k, Len(path))]
              /\ UNCHANGED <<leg, queue>>

\* A call on a key begins.
Call(c) ==
    /\ stage[c] = "idle" /\ Kind(c) \in Writes \cup {"get"}
    /\ Locate(c, Replicas, up)
    /\ steady' = [steady EXCEPT ![c] = {n \in up : Kind(c) = "get" /\ value[n] # <<>>}]
    /\ UNCHANGED <<operation, up, replies, late, value, log, outcome, faults>>

\* gets() connects a node only when it is about to ask it: the primary in
\* parallel with those of other keys, then one replica after another.
CallGets(c) ==
    /\ stage[c] = "idle" /\ Kind(c) = "gets"
    /\ stage' = [stage EXCEPT ![c] = "asking"]
    /\ todo' = [todo EXCEPT ![c] = Replicas]
    /\ steady' = [steady EXCEPT ![c] = {n \in Nodes : value[n] # <<>>}]
    /\ UNCHANGED <<operation, up, wires, leg, outcome, faults>>

\* flush(), and so stats() and version(): each node by itself, connected first.
CallAll(c) ==
    /\ stage[c] = "idle" /\ Kind(c) = "flush"
    /\ stage' = [stage EXCEPT ![c] = "running"]
    /\ leg' = [leg EXCEPT ![c] = [n \in Nodes |->
                  IF n \in up THEN Sent(0) ELSE Leg("connecting", 0, "none")]]
    /\ queue' = [n \in Nodes |-> IF n \in up THEN Append(queue[n], c) ELSE queue[n]]
    /\ UNCHANGED <<operation, up, replies, late, value, log, todo, outcome, steady, faults>>

Connected(c) ==
    /\ stage[c] = "connecting"
    /\ up' = up \cup {Head(todo[c])}
    /\ Locate(c, Tail(todo[c]), up')
    /\ UNCHANGED <<operation, replies, late, value, log, outcome, steady, faults>>

NotConnected(c) ==
    /\ Fault
    /\ stage[c] = "connecting"
    /\ stage' = [stage EXCEPT ![c] = "done"]
    /\ outcome' = [outcome EXCEPT ![c] = "thrown"]
    /\ UNCHANGED <<operation, up, wires, todo, leg, steady>>

-----------------------------------------------------------------------------
\* The rest of the operations

\* A read asks the next node.  One that is not connected refuses get(), and is
\* connected by gets().
Ask(c) ==
    /\ stage[c] = "asking" /\ todo[c] # <<>>
    /\ LET n == Head(todo[c]) IN
       \/ /\ n \in up
          /\ stage' = [stage EXCEPT ![c] = "asked"]
          /\ queue' = [queue EXCEPT ![n] = Append(@, c)]
          /\ UNCHANGED todo
       \/ /\ n \notin up /\ Kind(c) = "get"
          /\ todo' = [todo EXCEPT ![c] = Tail(@)]
          /\ UNCHANGED <<stage, queue>>
       \/ /\ n \notin up /\ Kind(c) = "gets"
          /\ stage' = [stage EXCEPT ![c] = "dialing"]
          /\ UNCHANGED <<queue, todo>>
    /\ UNCHANGED <<operation, up, replies, late, value, log, leg, outcome, steady, faults>>

Dialed(c) ==
    /\ stage[c] = "dialing"
    /\ up' = up \cup {Head(todo[c])}
    /\ stage' = [stage EXCEPT ![c] = "asked"]
    /\ queue' = [queue EXCEPT ![Head(todo[c])] = Append(@, c)]
    /\ UNCHANGED <<operation, replies, late, value, log, todo, leg, outcome, steady, faults>>

\* A node that cannot be connected is passed over.
NotDialed(c) ==
    /\ Fault
    /\ stage[c] = "dialing"
    /\ stage' = [stage EXCEPT ![c] = "asking"]
    /\ todo' = [todo EXCEPT ![c] = Tail(@)]
    /\ steady' = [steady EXCEPT ![c] = @ \ {Head(todo[c])}]
    /\ UNCHANGED <<operation, up, wires, leg, outcome>>

\* (mutant) the first failure or miss ends a read.
MissAtOnce(c) ==
    /\ stage[c] = "asking" /\ todo[c] # Replicas
    /\ stage' = [stage EXCEPT ![c] = "done"]
    /\ outcome' = [outcome EXCEPT ![c] = "miss"]
    /\ UNCHANGED <<operation, up, wires, todo, leg, steady, faults>>

\* No node is left to ask.
Miss(c) ==
    /\ stage[c] = "asking" /\ todo[c] = <<>>
    /\ stage' = [stage EXCEPT ![c] = "done"]
    /\ outcome' = [outcome EXCEPT ![c] = "miss"]
    /\ UNCHANGED <<operation, up, wires, todo, leg, steady, faults>>

\* (mutant) one node is enough.
AnySucceeded(c) == \E n \in Nodes : leg[c][n].reply = "ok"

\* allResultsEqual(); incr() and decr() take the first number they find.
Succeeded(c) ==
    IF Kind(c) = "incr" THEN \E n \in Nodes : leg[c][n].reply = "ok"
                        ELSE \A n \in Nodes : leg[c][n].reply = "ok"

Settle(c) ==
    /\ stage[c] = "running"
    /\ \A n \in Nodes : leg[c][n].stage = "ended"
    /\ stage' = [stage EXCEPT ![c] = "done"]
    /\ outcome' = [outcome EXCEPT ![c] = IF Succeeded(c) THEN "true" ELSE "false"]
    /\ UNCHANGED <<operation, up, wires, todo, leg, steady, faults>>

\* (mutant) a node that is still not connected ends the retries unnoticed.
ResendIfConnected(c, n, connected) ==
    /\ leg' = [leg EXCEPT ![c][n] = IF n \in connected THEN Sent(@.attempt) ELSE NoLeg]
    /\ queue' = [queue EXCEPT ![n] = IF n \in connected THEN Append(@, c) ELSE @]

\* The command is sent, or refused by a node that is not connected.
Resend(c, n, connected) ==
    /\ leg' = [leg EXCEPT ![c][n] = IF n \in connected THEN Sent(@.attempt)
                                                      ELSE Failed(c, @.attempt)]
    /\ queue' = [queue EXCEPT ![n] = IF n \in connected THEN Append(@, c) ELSE @]

\* The delay is over: a connected node gets the command again, another one
\* is connected first.
Wake(c, n) ==
    /\ leg[c][n].stage = "sleeping"
    /\ LET attempt == leg[c][n].attempt + 1 IN
       \/ /\ n \in up
          /\ leg' = [leg EXCEPT ![c][n] = Sent(attempt)]
          /\ queue' = [queue EXCEPT ![n] = Append(@, c)]
       \/ /\ n \notin up
          /\ leg' = [leg EXCEPT ![c][n] = Leg("connecting", attempt, "none")]
          /\ UNCHANGED queue
    /\ UNCHANGED <<operation, up, replies, late, value, log, stage, todo, outcome, steady, faults>>

LegConnected(c, n) ==
    /\ leg[c][n].stage = "connecting"
    /\ up' = up \cup {n}
    /\ Resend(c, n, up')
    /\ UNCHANGED <<operation, replies, late, value, log, stage, todo, outcome, steady, faults>>

\* A retry goes on without the connection; an operation on all nodes rejects
\* at once and leaves its other nodes to themselves.
LegNotConnected(c, n) ==
    /\ Fault
    /\ leg[c][n].stage = "connecting"
    /\ \/ Kind(c) # "flush" /\ Resend(c, n, up) /\ UNCHANGED <<stage, outcome>>
       \/ /\ Kind(c) = "flush"
          /\ leg' = [leg EXCEPT ![c][n] = Failed(c, 0)]
          /\ stage' = [stage EXCEPT ![c] = "done"]
          /\ outcome' = [outcome EXCEPT ![c] = "thrown"]
          /\ UNCHANGED queue
    /\ UNCHANGED <<operation, up, replies, late, value, log, todo, steady>>

-----------------------------------------------------------------------------
\* Answers and lost connections

\* The history of the reads after node n has executed call c.
Passed(n, c) ==
    [d \in Calls |-> IF Kind(c) \notin Reads /\ After(c, value[n]) = <<>> THEN steady[d] \ {n}
                                                                     ELSE steady[d]]

\* A read changes nothing.
Performs(n, c) ==
    /\ log' = IF Kind(c) \in Reads THEN log ELSE [log EXCEPT ![n] = Append(@, c)]
    /\ value' = [value EXCEPT ![n] = After(c, @)]
    /\ steady' = Passed(n, c)

\* The server executes a command, or answers with an error.
Executes(n) ==
    /\ queue[n] # <<>>
    /\ LET c == Head(queue[n])
           Answer(word) == replies' = [replies EXCEPT ![n] = Append(@, [call |-> c, word |-> word])]
       IN \/ Answer("error") /\ Fault /\ steady' = [steady EXCEPT ![c] = @ \ {n}]
             /\ UNCHANGED <<value, log>>
          \/ Accepts(c, value[n]) /\ Answer("ok") /\ Performs(n, c) /\ UNCHANGED faults
          \/ ~Accepts(c, value[n]) /\ Answer("refused") /\ UNCHANGED <<value, log, steady, faults>>
    /\ queue' = [queue EXCEPT ![n] = Tail(@)]
    /\ UNCHANGED <<operation, up, late, stage, todo, leg, outcome>>

\* A command of a lost connection is executed after all, or never.
ExecutesLate(n) ==
    /\ late[n] # <<>>
    /\ LET c == Head(late[n]) IN
       \/ UNCHANGED <<value, log, steady>>
       \/ Accepts(c, value[n]) /\ Performs(n, c)
    /\ late' = [late EXCEPT ![n] = Tail(@)]
    /\ UNCHANGED <<operation, up, queue, replies, stage, todo, leg, outcome, faults>>

Deliver(n) ==
    /\ replies[n] # <<>>
    /\ LET c == Head(replies[n]).call
           word == Head(replies[n]).word
           failed == word = "error"
       IN \/ /\ Kind(c) \in Reads
             /\ stage' = [stage EXCEPT ![c] = IF word = "ok" THEN "done" ELSE "asking"]
             /\ outcome' = [outcome EXCEPT ![c] = IF word = "ok" THEN "found" ELSE @]
             /\ todo' = [todo EXCEPT ![c] = Tail(@)]
             /\ UNCHANGED leg
          \/ /\ Kind(c) \notin Reads
             /\ leg' = [leg EXCEPT ![c][n] =
                           IF failed THEN Failed(c, @.attempt) ELSE Leg("ended", @.attempt, word)]
             /\ IF Kind(c) = "flush" /\ failed
                THEN /\ stage' = [stage EXCEPT ![c] = "done"]
                     /\ outcome' = [outcome EXCEPT ![c] = "thrown"]
                ELSE UNCHANGED <<stage, outcome>>
             /\ UNCHANGED todo
    /\ replies' = [replies EXCEPT ![n] = Tail(@)]
    /\ UNCHANGED <<operation, up, queue, late, value, log, steady, faults>>

\* The connection is lost, or a timeout closes it: every command fails.  A
\* gets() that has still to ask the node will connect it again.
Lost(n) ==
    LET reads == {c \in Calls : stage[c] = "asked" /\ Head(todo[c]) = n}
        sent  == {c \in Calls : leg[c][n].stage = "sent"}
        all   == {c \in sent : Kind(c) = "flush"}
    IN /\ n \in up /\ Fault
       /\ up' = up \ {n}
       /\ queue' = [queue EXCEPT ![n] = <<>>]
       /\ replies' = [replies EXCEPT ![n] = <<>>]
       /\ late' = [late EXCEPT ![n] = @ \o queue[n]]
       /\ stage' = [c \in Calls |-> IF c \in reads THEN "asking"
                                    ELSE IF c \in all THEN "done" ELSE stage[c]]
       /\ outcome' = [c \in Calls |-> IF c \in all THEN "thrown" ELSE outcome[c]]
       /\ todo' = [c \in Calls |-> IF c \in reads THEN Tail(todo[c]) ELSE todo[c]]
       /\ leg' = [c \in Calls |->
                     IF c \in sent THEN [leg[c] EXCEPT ![n] = Failed(c, @.attempt)] ELSE leg[c]]
       /\ steady' = [c \in Calls |-> IF Kind(c) = "gets" /\ c \notin reads
                                     THEN steady[c] ELSE steady[c] \ {n}]
       /\ UNCHANGED <<operation, value, log>>

Continue(c) == Ask(c) \/ Miss(c) \/ Settle(c)

\* A continuation that is due runs before the next event.
NoneDue ==
    \A c \in Calls :
        /\ stage[c] # "asking"
        /\ stage[c] = "running" => \E n \in Nodes : leg[c][n].stage # "ended"

Event(c) ==
    \/ Connected(c) \/ NotConnected(c) \/ Dialed(c) \/ NotDialed(c)
    \/ \E n \in Nodes : Wake(c, n) \/ LegConnected(c, n) \/ LegNotConnected(c, n)

Next ==
    \/ \E c \in Calls : Call(c) \/ CallGets(c) \/ CallAll(c) \/ Continue(c)
    \/ NoneDue /\ \E c \in Calls : Event(c)
    \/ NoneDue /\ \E n \in Nodes : Executes(n) \/ ExecutesLate(n) \/ Deliver(n) \/ Lost(n)

Spec == Init /\ [][Next]_vars

\* Continuations run, timers fire, connections are made or refused, and a
\* command of a node settles, since an idle socket times out.
Fairness ==
    /\ \A c \in Calls :
          /\ WF_vars(Continue(c))
          /\ WF_vars(NoneDue /\ (Connected(c) \/ NotConnected(c)))
          /\ WF_vars(NoneDue /\ (Dialed(c) \/ NotDialed(c)))
          /\ \A n \in Nodes :
                /\ WF_vars(NoneDue /\ Wake(c, n))
                /\ WF_vars(NoneDue /\ (LegConnected(c, n) \/ LegNotConnected(c, n)))
    /\ \A n \in Nodes : WF_vars(NoneDue /\ (Executes(n) \/ Deliver(n) \/ Lost(n)))

FairSpec == Spec /\ Fairness

-----------------------------------------------------------------------------
\* Properties

TypeOK ==
    /\ operation \in Programs /\ up \subseteq Nodes
    /\ queue \in [Nodes -> Seq(Calls)] /\ late \in [Nodes -> Seq(Calls)]
    /\ value \in [Nodes -> Seq(Calls)] /\ log \in [Nodes -> Seq(Calls)]
    /\ replies \in [Nodes -> Seq([call : Calls, word : {"ok", "refused", "error"}])]
    /\ stage \in [Calls -> {"idle", "connecting", "asking", "dialing", "asked",
                          "running", "done"}]
    /\ todo \in [Calls -> Seq(Nodes)]
    /\ leg \in [Calls -> [Nodes ->
          [stage : {"none", "connecting", "sent", "sleeping", "ended"},
           attempt : 0 .. Retries, reply : {"none", "ok", "refused"}]]]
    /\ outcome \in [Calls -> {"none", "true", "false", "thrown", "found", "miss"}]
    /\ steady \in [Calls -> SUBSET Nodes] /\ faults \in 0 .. MaxFaults

Times(c, n) == Cardinality({i \in DOMAIN log[n] : log[n][i] = c})

\* With retryOnlyIdempotent no server executes a command twice that was not
\* declared idempotent, whatever is lost and however late it arrives
\* (types.ts 113-120, index.ts 1390-1395).
ExecutedOnce ==
    \A c \in Calls : RetryOnlyIdempotent /\ ~operation[c].idempotent =>
        \A n \in Nodes : Times(c, n) <= 1

\* A write that returns true has been executed by every node of its key, and
\* incr() that returns a number by some node (index.ts 73-76, 907-1215).
TrueMeansExecuted ==
    \A c \in Calls : outcome[c] = "true" =>
        IF Kind(c) = "incr" THEN \E n \in Nodes : Times(c, n) > 0
                            ELSE \A n \in Nodes : Times(c, n) > 0

\* Every node answered the first attempt.
Straight(c) ==
    stage[c] = "done" /\ \A n \in Nodes : leg[c][n].attempt = 0 /\ leg[c][n].reply # "none"

\* As long as nothing fails and no node is flushed, overlapping writes reach
\* all nodes of a key in one order, so that the nodes agree (index.ts 1410-1421).
ReplicasAgree ==
    (\A c \in Calls : Kind(c) \in Reads \/ stage[c] = "idle" \/ Straight(c))
        /\ (\A c \in Calls : Kind(c) # "flush")
            => \A n, m \in Nodes : log[n] = log[m]

\* get() misses only when there was no node that had a value and was connected
\* and answered all along; gets() only when there was none that had a value and
\* failed neither when it was connected nor when it was asked (index.ts 716-728,
\* 790-864).
FindsValue ==
    \A c \in Calls : outcome[c] = "miss" => steady[c] = {}

\* Every operation settles, with retries and whatever fails
\* (index.ts 1352-1372, 1560-1604).
CallsSettle ==
    \A c \in Calls : (stage[c] # "idle") ~> (stage[c] = "done")

=============================================================================
