--------------------------- MODULE MCHelloProtocol ---------------------------
(* HelloProtocol on small instances: neighbours and faces are model        *)
(* values, how many there are and whom to trust is up to the configuration. *)
EXTENDS HelloProtocol

CONSTANTS n1, n2, f1
TwoNeighbors == {n1, n2}
OneFace == {f1}
NobodyUntrusted == {}
=============================================================================
