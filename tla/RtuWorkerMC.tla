---------------------------- MODULE RtuWorkerMC ----------------------------
(* Instances of RtuWorker for TLC: registers 1..3, and the calls the code     *)
(* makes on them.                                                           *)
EXTENDS RtuWorker, TLC

R(lo, len) == [lo |-> lo, len |-> len]

Call(task, op, ranges) == [task |-> task, op |-> op, ranges |-> ranges]

Poll      == Call("poll", "read", <<R(1, 2)>>)
GapPoll   == Call("poll", "read", <<R(1, 1), R(3, 1)>>)
Detection == Call("deviceDetection", "read", <<R(1, 3)>>)
Write     == Call("writeEntity", "write", <<R(2, 1)>>)
Bridge    == Call("tcpBridge", "read", <<R(3, 1)>>)
BadWrite  == Call("writeEntity", "writeReadOnly", <<R(3, 1)>>)

PairDetection == Call("deviceDetection", "read", <<R(1, 2)>>)

AgeingJobs == {Poll, PairDetection}
SafetyJobs == {GapPoll, Poll, Detection, Write, BadWrite} \cup AgeingJobs

FairJobs   == {Poll, Detection, Write, Bridge}
WedgeJobs  == {Poll, Write, BadWrite}

(* Bound: AgeingJobs are mixed with the others only while nothing gets old and *)
(* only as polls.                                                           *)
FewJobsAge ==
  (\E a \in Addresses : cache'[a].age > 0) \/ (\E r \in Requests : job'[r] = PairDetection)
    => \A r \in Requests : job'[r] \in AgeingJobs \cup {NoJob}

Symmetry == Permutations(Requests)
=============================================================================
