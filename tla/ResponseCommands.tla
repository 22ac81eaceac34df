------------------------- MODULE ResponseCommands -------------------------
(* The commands of one agent, and the results its host can give of them.   *)

CONSTANTS Cmd,     \* command ids; an id is issued with one intent
          Exec     \* the commands of kind exec

ASSUME CommandsAssumption == Exec \subseteq Cmd

Results == {"succeeded", "failed", "unsupported"}
=============================================================================
