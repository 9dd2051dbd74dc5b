--------------------------- MODULE MCMessageQueue ---------------------------
(* TLC instance of MessageQueue: connections are interchangeable.            *)
EXTENDS MessageQueue, TLC

CONSTANTS c1, c2

ConnsDef == {c1, c2}
Symmetry == Permutations(ConnsDef)
=============================================================================
