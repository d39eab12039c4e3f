---------------------------- MODULE HashProvider ----------------------------
(***************************************************************************)
(* What the client asks of a HashProvider (src/src/types.ts), whichever    *)
(* way it spreads the keys: it has members, some of them take keys, and    *)
(* every key has nodes, which are among those that take keys.  Where a key *)
(* goes changes only when a member comes, goes, or is added again.         *)
(***************************************************************************)
EXTENDS Sequences

CONSTANTS Ids, Inputs

VARIABLES
    members,   \* ids of the nodes the provider has
    taking,    \* those of them that take keys: a weight may give a node no share
    routes     \* the ids of the nodes of each key, the primary first

vars == <<members, taking, routes>>

Targets(x) == {routes[x][i] : i \in DOMAIN routes[x]}

Consistent ==
    /\ taking \subseteq members
    /\ \A x \in Inputs :
          /\ Targets(x) \subseteq taking
          /\ taking # {} => routes[x] # <<>>
          /\ \A i, j \in DOMAIN routes[x] : i # j => routes[x][i] # routes[x][j]

Init ==
    /\ members = {}
    /\ Consistent

\* addNode() or removeNode() of id c: of the others none comes, goes, or
\* gains or loses its share.
Change(c) ==
    /\ members' \ {c} = members \ {c}
    /\ taking' \ {c} = taking \ {c}
    /\ Consistent'

Next == \E c \in Ids : Change(c)

Spec == Init /\ [][Next]_vars

=============================================================================
