--------------------------- MODULE CommandLedger ---------------------------
(***************************************************************************)
(* What the response channel promises about one host's commands, with no   *)
(* queue, connection, node or receipt in sight: the row an operator reads  *)
(* in the commands table never contradicts what happened on the host.      *)
(* CommandDelivery is shown to implement this specification.               *)
(***************************************************************************)
EXTENDS ResponseCommands, Naturals

VARIABLES status,         \* commands.status, "none" before the row exists
          started,        \* how often the host began the action
          outcome         \* how the action ended on the host, "none" so far

vars == <<status, started, outcome>>

Open     == {"pending", "sent", "unknown"}
Statuses == {"none"} \union Open \union Results

TypeOK == /\ status \in [Cmd -> Statuses]
          /\ started \in [Cmd -> Nat]
          /\ outcome \in [Cmd -> {"none"} \union Results]

Init == /\ status = [c \in Cmd |-> "none"]
        /\ started = [c \in Cmd |-> 0]
        /\ outcome = [c \in Cmd |-> "none"]

Issue(c) == /\ status[c] = "none"
            /\ status' = [status EXCEPT ![c] = "pending"]
            /\ UNCHANGED <<started, outcome>>

\* Only a row still pending is marked sent: a fast result is not undone.
Sent(c) == /\ status[c] = "pending"
           /\ status' = [status EXCEPT ![c] = "sent"]
           /\ UNCHANGED <<started, outcome>>

\* Nobody can tell any more whether the host got the command.
Doubt(c) == /\ status[c] \in Open
            /\ status' = [status EXCEPT ![c] = "unknown"]
            /\ UNCHANGED <<started, outcome>>

\* A failure written without a result of the host: it never ran there.
Refuse(c) == /\ status[c] \in Open
             /\ started[c] = 0
             /\ status' = [status EXCEPT ![c] = "failed"]
             /\ UNCHANGED <<started, outcome>>

\* The host begins the action, once, and never after the row was closed.
Start(c) == /\ status[c] \in Open
            /\ started[c] = 0
            /\ started' = [started EXCEPT ![c] = 1]
            /\ UNCHANGED <<status, outcome>>

Perform(c, r) == /\ started[c] = 1
                 /\ outcome[c] = "none"
                 /\ outcome' = [outcome EXCEPT ![c] = r]
                 /\ UNCHANGED <<status, started>>

\* The result reaches the row; a closed row keeps what it says.
Record(c) == /\ status[c] \in Open
             /\ outcome[c] # "none"
             /\ status' = [status EXCEPT ![c] = outcome[c]]
             /\ UNCHANGED <<started, outcome>>

Next == \E c \in Cmd : \/ Issue(c) \/ Sent(c) \/ Doubt(c) \/ Refuse(c)
                       \/ Start(c) \/ Record(c)
                       \/ \E r \in Results : Perform(c, r)

Spec == Init /\ [][Next]_vars
-----------------------------------------------------------------------------
\* A command's action begins at most once on the host.
AtMostOnce == \A c \in Cmd : started[c] <= 1

\* A closed row tells the truth: it carries the host's own result, or says
\* "failed" of a command the host never began.
RowIsTrue == \A c \in Cmd : status[c] \in Results =>
                \/ status[c] = outcome[c]
                \/ status[c] = "failed" /\ started[c] = 0 /\ outcome[c] = "none"
=============================================================================
