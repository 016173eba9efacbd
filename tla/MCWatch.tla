-------------------------------- MODULE MCWatch --------------------------------
(* A log of one session, of up to three rows.                             *)
EXTENDS Watch

MCKeys == {"k"}
MCTurnTypes == {"model.request", "model.response", "tool.call"}
MCLimits == {NoLimit, 0, 3}
===============================================================================
