------------------------- MODULE ConnectionService -------------------------
(***************************************************************************)
(* What connectMutex promises to the callers that share the client of a bus,  *)
(* with no settings, no closing before an open, no time-outs and no tasks in  *)
(* the mutex: one line in front of the port, that serves first come first     *)
(* served.  Whoever leaves it without an error leaves an open port behind, the *)
(* port is opened in the name of the first in line only, and nobody uses the   *)
(* client before there is one.  ModbusConnection implements this.            *)
(***************************************************************************)
EXTENDS Naturals, Sequences

CONSTANT Calls

VARIABLES
  port,   \* the client: "none" before the first open, then "closed" or "open"
  line,   \* the calls that need the port open, in the order of their arrival
  status  \* status[r]: the state of the promise of r

vars == <<port, line, status>>

Init ==
  /\ port = "none"
  /\ line = <<>>
  /\ status = [r \in Calls |-> "idle"]

Becomes(r, s) == status' = [status EXCEPT ![r] = s]

(* A call joins the line, or it needs nothing to be opened: it goes to the    *)
(* client that exists, or there is nothing to do.                            *)
Ask(r) ==
  /\ status[r] \in {"idle", "resolved", "rejected"}
  /\ \/ Becomes(r, "connecting") /\ line' = Append(line, r)
     \/ port # "none" /\ Becomes(r, "executing") /\ UNCHANGED line
     \/ Becomes(r, "resolved") /\ UNCHANGED line
  /\ UNCHANGED port

Answer(r) ==
  /\ status[r] = "executing"
  /\ \E s \in {"resolved", "rejected"} : Becomes(r, s)
  /\ UNCHANGED <<port, line>>

(* The first in line finds the port open or opens it.                         *)
Admit ==
  /\ line # <<>>
  /\ port # "none"
  /\ port' = "open"
  /\ line' = Tail(line)
  /\ \E s \in {"executing", "resolved"} : Becomes(Head(line), s)

Refuse ==
  /\ line # <<>>
  /\ line' = Tail(line)
  /\ Becomes(Head(line), "rejected")
  /\ UNCHANGED port

(* The first in line has the client made.                                     *)
Create ==
  /\ line # <<>>
  /\ port = "none"
  /\ port' = "closed"
  /\ UNCHANGED <<line, status>>

(* The port is closed, for a reconnect or by the device.                      *)
Shut ==
  /\ port = "open"
  /\ port' = "closed"
  /\ UNCHANGED <<line, status>>

Next ==
  \/ \E r \in Calls : Ask(r) \/ Answer(r)
  \/ Admit
  \/ Refuse
  \/ Create
  \/ Shut

Spec == Init /\ [][Next]_vars
=============================================================================
