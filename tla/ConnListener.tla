---------------------------- MODULE ConnListener ----------------------------
(***************************************************************************)
(* What an in-memory network listener promises about the connections that  *)
(* go through it, whatever the scheduling of the goroutines that call it.  *)
(*                                                                         *)
(* A connection is handed over by a dialer ("pending"), given to the       *)
(* server by Accept ("served"), and closed.  Connections are handed over   *)
(* and served only while the listener is open; closing the listener closes *)
(* every connection it has served, and what was pending at that moment is  *)
(* closed instead of being served.                                         *)
(*                                                                         *)
(* PipeListener implements this specification.                             *)
(***************************************************************************)
CONSTANT Pipes          \* the connections

VARIABLES open,         \* the listener has not been closed
          life          \* the stage each connection has reached

absVars == <<open, life>>

Stages == {"new", "pending", "served", "closed"}

Init ==
  /\ open = TRUE
  /\ life = [c \in Pipes |-> "new"]

\* A dialer hands its connection over.
Connect(c) ==
  /\ open
  /\ life[c] = "new"
  /\ life' = [life EXCEPT ![c] = "pending"]
  /\ UNCHANGED open

\* Accept gives the connection to the server.
Serve(c) ==
  /\ open
  /\ life[c] = "pending"
  /\ life' = [life EXCEPT ![c] = "served"]
  /\ UNCHANGED open

\* Accept finds the listener closed and refuses the connection.
Refuse(c) ==
  /\ ~open
  /\ life[c] = "pending"
  /\ life' = [life EXCEPT ![c] = "closed"]
  /\ UNCHANGED open

\* The server is done with the connection.
HangUp(c) ==
  /\ life[c] = "served"
  /\ life' = [life EXCEPT ![c] = "closed"]
  /\ UNCHANGED open

\* The listener is closed, with every connection it has served.
Shut ==
  /\ open
  /\ open' = FALSE
  /\ life' = [c \in Pipes |-> IF life[c] = "served" THEN "closed" ELSE life[c]]

Next ==
  \/ \E c \in Pipes : Connect(c) \/ Serve(c) \/ Refuse(c) \/ HangUp(c)
  \/ Shut

Spec == Init /\ [][Next]_absVars
=============================================================================
