----------------------------- MODULE MCTopology -----------------------------
(***************************************************************************)
(* A small cluster for Topology: an IPv4 and an IPv6 node that come and go *)
(* and one that stays.                                                     *)
(***************************************************************************)
EXTENDS Topology

CONSTANTS h1, h2, h6

MCHosts == {h1, h2, h6}
MCV6    == {h6}

\* An empty configuration, an exchange of one node for another, IPv6 nodes.
MCConfigs == {{}, {h1}, {h2, h6}}

=============================================================================
