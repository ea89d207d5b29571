-------------------------- MODULE DeviceDetection --------------------------
(***************************************************************************)
(* DeviceDetection: which specifications fit a device.  The registers of all     *)
(* specifications are collected, merged to requests and read; then each             *)
(* specification is compared with what was read.  The user edits specifications     *)
(* meanwhile, and the collected registers are kept for the next detection.         *)
(***************************************************************************)
EXTENDS Naturals, Sequences, FiniteSets, SequencesExt, FiniteSetsExt

CONSTANTS
  Specs,         \* names of specifications
  Layouts,       \* sets of registers a specification may use, with {}: there is none
  MaxDelta,      \* maxAddressDelta: how far apart registers of a request may be
  MaxRegisters   \* maxRegistersPerRequest

(* A register is <<register type, address>>.                                  *)
DetectionAssumption ==
  /\ IsFiniteSet(Specs)
  /\ \A l \in Layouts : l \subseteq Nat \X Nat /\ IsFiniteSet(l)
  /\ MaxDelta \in Nat /\ MaxRegisters \in Nat \ {0}

VARIABLES
  layout,      \* ConfigSpecification.specifications: the registers of each
  collected,   \* Bus.allSpecificationsModbusAddresses: <<>> or <<registers>>
  requests,    \* preparedAddresses of a detection
  open,        \* queued requests of it, in their order
  values,      \* results: registers with data, and with an error
  stage,       \* of the detection: "idle", "reading" or "resolved"
  identified   \* specifications it took for identified

vars == <<layout, collected, requests, open, values, stage, identified>>

(***************************************************************************)
(* ModbusRTUProcessor.                                                       *)
(***************************************************************************)

Registers(q) == {<<q.type, a>> : a \in q.address .. q.address + q.length - 1}

Request(r) == [type |-> r[1], address |-> r[2], length |-> 1]

(* Mutant: the length of a request is not looked at before a register joins.       *)
JoinsAnyLength(q, r) ==
  /\ r[1] = q.type
  /\ r[2] - (q.address + q.length - 1) <= MaxDelta

(* r, which comes behind the registers of q, is read with them.                  *)
Joins(q, r) ==
  /\ r[1] = q.type
  /\ r[2] - (q.address + q.length - 1) <= MaxDelta
  /\ r[2] - q.address + 1 <= MaxRegisters

Before(r, s) == r[1] < s[1] \/ (r[1] = s[1] /\ r[2] < s[2])

Sorted(registers) ==
  LET places == 1 .. Cardinality(registers)
  IN  CHOOSE q \in [places -> registers] : \A i, j \in places : i < j => Before(q[i], q[j])

(* Sorted registers, each joined to the request before it where it can be.         *)
Prepare(registers) ==
  FoldLeft(LAMBDA qs, r :
             IF qs # <<>> /\ Joins(Last(qs), r)
             THEN [qs EXCEPT ![Len(qs)].length = r[2] - Last(qs).address + 1]
             ELSE Append(qs, Request(r)),
           <<>>, Sorted(registers))

AddressCount(qs) == FoldLeft(LAMBDA n, q : n + q.length, 0, qs)

(***************************************************************************)
(* Bus.getAvailableSpecs.                                                    *)
(***************************************************************************)

AllRegisters == UNION {layout[s] : s \in Specs}

Detect ==
  /\ stage # "reading"
  /\ collected' = IF collected = <<>> THEN <<AllRegisters>> ELSE collected
  /\ requests' = Prepare(collected'[1])
  /\ open' = requests'
  /\ values' = [data |-> {}, error |-> {}]
  /\ stage' = "reading"
  /\ identified' = {}
  /\ UNCHANGED layout

(* An entity is identified by a register that has data, and a specification by all   *)
(* of its entities.                                                          *)
Fits(data) == {s \in Specs : layout[s] # {} /\ layout[s] \subseteq data}

(* The worker answers the first request.  The results are complete when there are as  *)
(* many as addresses were asked for.                                           *)
Answered(outcome) ==
  /\ open # <<>>
  /\ values' = [values EXCEPT ![outcome] = @ \cup Registers(Head(open))]
  /\ open' = Tail(open)
  /\ IF Cardinality(values'.data \cup values'.error) = AddressCount(requests)
     THEN stage' = "resolved" /\ identified' = Fits(values'.data)
     ELSE UNCHANGED <<stage, identified>>
  /\ UNCHANGED <<layout, collected, requests>>

(* A request that fails is split, and its registers are read one by one at the end.   *)
Split ==
  /\ open # <<>>
  /\ Head(open).length > 1
  /\ open' = Tail(open) \o [i \in 1 .. Head(open).length |->
                             [Head(open) EXCEPT !.address = @ + i - 1, !.length = 1]]
  /\ UNCHANGED <<layout, collected, requests, values, stage, identified>>

(* The user adds, edits or deletes a specification.                             *)
EditSpecification(s, l) ==
  /\ layout[s] # l
  /\ layout' = [layout EXCEPT ![s] = l]
  /\ UNCHANGED <<collected, requests, open, values, stage, identified>>

Init ==
  /\ layout \in [Specs -> Layouts]
  /\ collected = <<>>
  /\ requests = <<>> /\ open = <<>>
  /\ values = [data |-> {}, error |-> {}]
  /\ stage = "idle"
  /\ identified = {}

Next ==
  \/ Detect
  \/ \E outcome \in {"data", "error"} : Answered(outcome)
  \/ Split
  \/ \E s \in Specs, l \in Layouts : EditSpecification(s, l)

Spec == Init /\ [][Next]_vars

(***************************************************************************)
(* Properties.                                                              *)
(***************************************************************************)

(* execute resolves with its last answer, however its requests were merged, failed    *)
(* and split: no sooner, and with a result for each register that was asked for; no    *)
(* request is longer than a device may allow (ModbusRTUProcessor.prepare).           *)
ReadsAreExact ==
  stage # "idle" /\ requests # <<>> =>
    /\ stage = "resolved" <=> open = <<>>
    /\ stage = "resolved" => collected[1] \subseteq values.data \cup values.error
    /\ \A i \in DOMAIN requests : requests[i].length <= MaxRegisters

=============================================================================
