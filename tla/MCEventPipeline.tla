--------------------------- MODULE MCEventPipeline ---------------------------
(* Three events at most; Ts gives their times in the collector's order.      *)
EXTENDS EventPipeline, TLC

CONSTANTS t1, t2, t3

MCTs == [e \in Event |-> CASE e = 1 -> t1 [] e = 2 -> t2 [] OTHER -> t3]

\* Places for calls and messages and the consumers are interchangeable
Symmetry == Permutations(Call) \union Permutations(MsgId) \union Permutations(Worker)
=============================================================================
