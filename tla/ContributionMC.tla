---------------------------- MODULE ContributionMC ----------------------------
(***************************************************************************)
(* Contribution with two specifications, for TLC: the process has been started again  *)
(* while one of them is contributed, and there is a request to contribute the other.  *)
(***************************************************************************)
EXTENDS Contribution

MeterAndPump == {"meter", "pump"}
OneRequest == {1}
ForPump == [r \in OneRequest |-> "pump"]
OneThreshold == <<1>>

MeterContributed ==
  /\ local = [s \in Specs |-> IF s = "meter" THEN Entry("contributed", 1) ELSE Entry("added", 0)]
  /\ public = {} /\ upstream = {}
  /\ memory = Loaded(local, public)
  /\ pulls = <<[spec |-> "meter", state |-> "open"]>>
  /\ branches = {"meter"} /\ deletions = {}
  /\ contributions = [s \in Specs |-> Unpolled]
  /\ closing = NotClosing
  /\ request = [r \in Requests |-> [stage |-> "new", pull |-> 0]]
  /\ restarts = 0
  /\ kept = Specs /\ moved = {}

(* The restart is behind it.                                                  *)
AfterRestart == Next /\ UNCHANGED restarts

Restarted == MeterContributed /\ [][AfterRestart]_vars /\ Fairness
=============================================================================
