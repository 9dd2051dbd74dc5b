----------------------------- MODULE MCDispatch -----------------------------
(* Values for Dispatch: the answers to two commands, and with or without     *)
(* handlers of the types and the ASDU handler.                               *)
EXTENDS Dispatch

MCAnswer == [cmd : 1..2, n : 0..3]

MCHandlerSets == {AllHandlers \ {"asduHandler"}, AllHandlers}
=============================================================================
