-------------------------- MODULE MCRedundancyGroup -------------------------
(* Model values and symmetry for RedundancyGroup; for a safety run.           *)
EXTENDS RedundancyGroup, TLC

Symmetry == Permutations(Conns)

SafetySpec == Init /\ [][Next]_vars
=============================================================================
