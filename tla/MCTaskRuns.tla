----------------------------- MODULE MCTaskRuns -----------------------------
(* Instances of TaskRuns for TLC.  In MCSpec only session 1, the one that    *)
(* may be run again, is cancelled or passes its deadline.                    *)
EXTENDS TaskRuns

OneStops == \A s \in Session : session'[s].cancelled \/ session'[s].late => s = 1

MCSpec == Init /\ [][Next /\ OneStops]_vars /\ Fairness
=============================================================================
