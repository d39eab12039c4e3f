----------------------------- MODULE MCSaslNode -----------------------------
(* Instances of SaslNode for TLC. *)
EXTENDS SaslNode

SomeValues == {<<>>, <<2>>}
=============================================================================
