------------------------------- MODULE MCTurnLog -------------------------------
(* Every log of up to five rows, of two interleaved sessions. *)
EXTENDS TurnLog

MCKeys == {"k", "l"}
MCTypes == {"model.request", "model.response", "tool.call", "tool.result", "other"}
===============================================================================
