-------------------------- MODULE MCHashProviders --------------------------
(***************************************************************************)
(* Ketama with every hash function from the points of three nodes to three *)
(* hashes, so that all collisions occur; modula; and broadcast.            *)
(***************************************************************************)
EXTENDS HashProviders

CONSTANTS n1, n2, n3

MCIds     == {n1, n2, n3}
MCHashes  == 0 .. 2
MCInputs  == {1, 2}

\* With two points for weight 1: refused, removed, no points, two points.
MCWeights == {-100, 0, 20, 100}

\* Modula: no entry, one, and two, also for a weight that is no integer.
MCModulaWeights == {-100, 0, 150}

MCHashFunctions == [MCIds -> [1 .. MaxPoints -> MCHashes]]
MCInputHash == [x \in MCInputs |-> x]

\* The hash function of the points matters to ketama only.
MCInit ==
    /\ ProvidersInit
    /\ provider # "ketama" => hash = [c \in Ids |-> [i \in 1 .. MaxPoints |-> 0]]

MCSpec == MCInit /\ [][ProvidersNext]_providerVars

\* All hash functions are there, so the nodes are interchangeable.
Symmetry == Permutations(MCIds)

=============================================================================
