-------------------------- MODULE MCServerLifecycle --------------------------
(* Configurations for ServerLifecycle: every limit without groups; no        *)
(* groups, groups that list addresses, that overlap, and that take everybody. *)
EXTENDS ServerLifecycle, TLC

CONSTANTS c1, c2, c3

MCConns == {c1, c2, c3}
MCAddressOf == c1 :> "a" @@ c2 :> "b" @@ c3 :> "::"

MCGroups == {<< >>, << {"a"}, CatchAll >>, << CatchAll, {"a", "b"}, {"b", "::"} >>}

MCConfigurations ==
  [mode : {"single", "perConnection"}, limit : 0..TableSize, groups : {<< >>}]
  \union [mode : {"multiple"}, limit : {2}, groups : MCGroups]
=============================================================================
