------------------------- MODULE MCCommandDelivery -------------------------
(* One agent and one or two server nodes.  Stream k2 lands on n2 and every  *)
(* other one on n1; the command kill is issued on n1, any other on n2.  The *)
(* configuration may give n1 and n2 the same value.                         *)
EXTENDS CommandDelivery

CONSTANTS n1, n2, k2, kill

MCHome == [k \in Conn |-> IF k = k2 THEN n2 ELSE n1]
MCOrigin == [c \in Cmd |-> IF c = kill THEN n1 ELSE n2]
=============================================================================
