--------------------------- MODULE MCMemcacheNode ---------------------------
(***************************************************************************)
(* MemcacheNode as an implementation of CommandChannel.                    *)
(***************************************************************************)
EXTENDS MemcacheNode

\* A command that an answer settled counts as answered only if every line of
\* the answer was its own; otherwise it is in no state of the channel.
FateOf(c) ==
    IF ~Issued(c) THEN "unused"
    ELSE CASE outcome[c].how = "unsettled" -> "waiting"
           [] outcome[c].how = "closed"    -> "lost"
           [] OTHER -> IF \A i \in DOMAIN outcome[c].values : outcome[c].values[i] = c
                       THEN "answered" ELSE "confused"

Channel == INSTANCE CommandChannel WITH
    up      <- connected,
    waiting <- Pending,
    fate    <- [c \in Commands |-> FateOf(c)]

\* With callers that only use reconnect(), one call at a time, and 'close'
\* events in order, the node is a command channel: commands are answered in
\* order and with their own answers, and a new connection starts with nothing
\* of the previous one (node.ts 242-356, 786-1035).
ImplementsChannel == Channel!Spec

=============================================================================
