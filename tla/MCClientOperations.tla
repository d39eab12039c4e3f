------------------------- MODULE MCClientOperations -------------------------
(***************************************************************************)
(* Two calls on a key with two nodes, as BroadcastHash has it.             *)
(***************************************************************************)
EXTENDS ClientOperations

CONSTANTS n1, n2

MCCalls    == 1 .. 2
MCReplicas == <<n1, n2>>

Once(kind)  == [kind |-> kind, idempotent |-> FALSE]
Again(kind) == [kind |-> kind, idempotent |-> TRUE]

MCPrograms ==
    {<<Once("set"), Again("append")>>,    <<Again("set"), Once("get")>>,
     <<Once("add"), Once("incr")>>,       <<Once("set"), Once("flush")>>,
     <<Once("add"), Once("delete")>>,     <<Once("add"), Once("replace")>>,
     <<Once("set"), Once("touch")>>,      <<Again("set"), Once("gets")>>}

=============================================================================
