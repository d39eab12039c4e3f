--------------------------- MODULE CommandChannel ---------------------------
(***************************************************************************)
(* What a MemcacheNode promises to its callers, with no sockets, no lines  *)
(* and no parser: a channel that accepts commands while it is up, answers  *)
(* the oldest waiting command first, each with the answer to that command, *)
(* and loses every waiting command at once when it goes down.  It comes up *)
(* with nothing waiting from before.                                       *)
(***************************************************************************)
EXTENDS Integers, Sequences

CONSTANT Commands       \* positive integers, in the order of acceptance

VARIABLES
    up,        \* commands are accepted and answered
    waiting,   \* the accepted commands that are not settled, oldest first
    fate       \* what became of each command

vars == <<up, waiting, fate>>

Fates == {"unused", "waiting", "answered", "lost"}

TypeOK ==
    /\ up \in BOOLEAN
    /\ waiting \in Seq(Commands)
    /\ fate \in [Commands -> Fates]

Init ==
    /\ up = FALSE
    /\ waiting = <<>>
    /\ fate = [c \in Commands |-> "unused"]

ComeUp ==
    /\ waiting = <<>>
    /\ up' = TRUE
    /\ UNCHANGED <<waiting, fate>>

Submit(c) ==
    /\ up
    /\ fate[c] = "unused"
    /\ waiting' = Append(waiting, c)
    /\ fate' = [fate EXCEPT ![c] = "waiting"]
    /\ UNCHANGED up

Answer ==
    /\ up
    /\ waiting # <<>>
    /\ fate' = [fate EXCEPT ![Head(waiting)] = "answered"]
    /\ waiting' = Tail(waiting)
    /\ UNCHANGED up

Lose ==
    /\ up' = FALSE
    /\ waiting' = <<>>
    /\ fate' = [c \in Commands |-> IF fate[c] = "waiting" THEN "lost" ELSE fate[c]]

Next == ComeUp \/ Lose \/ Answer \/ \E c \in Commands : Submit(c)

Spec == Init /\ [][Next]_vars

=============================================================================
