--------------------------- MODULE RequestService ---------------------------
(***************************************************************************)
(* What a bus promises to the callers of readModbusRegister and             *)
(* writeModbusRegister, with no queue, no worker, no cache and no retries:  *)
(* every register a caller asks for gets one result, a result once given is *)
(* never revised, and the caller's promise settles with the last of them.   *)
(* RtuWorker implements this specification.                                 *)
(***************************************************************************)
EXTENDS Naturals

CONSTANTS
  Requests,   \* the calls, each with a promise of its own
  Addresses,  \* the registers
  Results     \* what can be said of a register

VARIABLES
  asked,   \* asked[r]: the registers of call r, {} before the call is made
  result,  \* result[r]: a function from the answered registers to Results
  status   \* status[r]: the state of the promise of r

vars == <<asked, result, status>>

NoResults == [a \in {} |-> a]

Init ==
  /\ asked = [r \in Requests |-> {}]
  /\ result = [r \in Requests |-> NoResults]
  /\ status = [r \in Requests |-> "idle"]

(* f extended by the results of g, which speaks of other registers.         *)
Merge(f, g) ==
  [a \in DOMAIN f \cup DOMAIN g |-> IF a \in DOMAIN g THEN g[a] ELSE f[a]]

(* Some, none or all of the unanswered registers of r get their results, and *)
(* the promise settles exactly when no register is left.                     *)
Deliver(r, registers) ==
  \E S \in SUBSET (registers \ DOMAIN result[r]) :
    \E g \in [S -> Results] :
      /\ result' = [result EXCEPT ![r] = Merge(@, g)]
      /\ status' = [status EXCEPT ![r] =
                      IF DOMAIN Merge(result[r], g) = registers
                        THEN "settled" ELSE "open"]

(* A call is made; what is known already may be answered at once.            *)
Submit(r) ==
  /\ status[r] = "idle"
  /\ \E registers \in (SUBSET Addresses) \ {{}} :
       /\ asked' = [asked EXCEPT ![r] = registers]
       /\ Deliver(r, registers)

Answer(r) ==
  /\ status[r] = "open"
  /\ Deliver(r, asked[r])
  /\ UNCHANGED asked

Next == \E r \in Requests : Submit(r) \/ Answer(r)

Spec == Init /\ [][Next]_vars
=============================================================================
