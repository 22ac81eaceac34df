--------------------------- MODULE MCContainment ---------------------------
(***************************************************************************)
(* Instances of Containment for TLC.                                       *)
(***************************************************************************)
EXTENDS Containment

\* One lease whose lift may fail once, others whose lift does not.
MCMaxLifts == [a \in Alert |-> IF a = CHOOSE x \in Alert : TRUE THEN 2 ELSE 1]
=============================================================================
