-------------------------- MODULE MCAgentReceipts --------------------------
(* AgentReceipts on its own, under a server that repeats commands at will. *)
EXTENDS AgentReceipts

CONSTANT MaxStarts    \* bound: no further delivery of a command begun so often

Bounded == \A c \in Cmd : started[c] < MaxStarts \/ run[c] # "reserving"
MCNext == ReceiptsNext /\ Bounded'
MCSpec == ReceiptsInit /\ [][MCNext]_receiptsVars
=============================================================================
