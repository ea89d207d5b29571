---------------------------- MODULE PollSchedule ----------------------------
(***************************************************************************)
(* PollSchedule: the cron expression of a slave.  The page checks its form and   *)
(* says below the field when it fires, as far as it is confident; the backend    *)
(* parses it and compares it with the clock every minute.                      *)
(***************************************************************************)
EXTENDS Naturals, Sequences, FiniteSets

CONSTANTS
  Fields,   \* the fields minute, hour, day of month, month and day of week may be
  Presets,  \* pollSchedulePresets
  Minutes, Hours, Days, Months,  \* bound: the times that are compared
  None      \* undefined

VARIABLE expression  \* pollSchedule of the form: a sequence of five fields

vars == <<expression>>

(* A field is a set of parts.  A part counts from lo, or from the least value if lo is   *)
(* None (`*'), to hi; None in hi: only lo; None in step: no step.                      *)
Part(lo, hi, step) == [lo |-> lo, hi |-> hi, step |-> step]
Any == {Part(None, None, None)}
Only(n) == {Part(n, None, None)}
Every(n) == {Part(None, None, n)}

(* What the page offers to choose from.                                       *)
Offered ==
  {<<Every(n), Any, Any, Any, Any>> : n \in {5, 15, 30}}
  \cup {<<Only(0), Any, Any, Any, Any>>, <<Only(0), Every(6), Any, Any, Any>>}
  \cup {<<Only(0), Only(h), Any, Any, Any>> : h \in {0, 6}}

(***************************************************************************)
(* CronSchedule.                                                            *)
(***************************************************************************)

Least == <<0, 0, 1, 1, 0>>
Greatest == <<59, 23, 31, 12, 7>>

First(part, i) == IF part.lo = None THEN Least[i] ELSE part.lo

(* A step makes `a' mean a..max.                                              *)
Last(part, i) ==
  IF part.lo = None THEN Greatest[i]
  ELSE IF part.hi # None THEN part.hi
  ELSE IF part.step # None THEN Greatest[i]
  ELSE part.lo

(* parseField does not throw.                                                 *)
Accepted(e) ==
  \A i \in 1 .. 5 : \A part \in e[i] :
    /\ part.step # 0
    /\ Least[i] <= First(part, i) /\ First(part, i) <= Last(part, i) /\ Last(part, i) <= Greatest[i]

Values(field, i) ==
  UNION {{v \in First(part, i) .. Last(part, i) :
            part.step = None \/ (v - First(part, i)) % part.step = 0} : part \in field}

(* Mutant: Sunday is 0 only.                                                  *)
DaysOfWeekAsIs(field) == Values(field, 5)

DaysOfWeek(field) == (Values(field, 5) \ {7}) \cup {0 : v \in Values(field, 5) \cap {7}}

(* matches.                                                                 *)
Matches(e, t) ==
  LET dom == t.day \in Values(e[3], 3)
      dow == t.weekday \in DaysOfWeek(e[5])
  IN  /\ t.minute \in Values(e[1], 1)
      /\ t.hour \in Values(e[2], 2)
      /\ t.month \in Values(e[4], 4)
      /\ CASE e[3] # Any /\ e[5] # Any -> dom \/ dow
           [] e[3] # Any /\ e[5] = Any -> dom
           [] e[3] = Any /\ e[5] # Any -> dow
           [] e[3] = Any /\ e[5] = Any -> TRUE

(***************************************************************************)
(* The page.                                                               *)
(***************************************************************************)

Number(field) == \E n \in 0 .. 99 : field = Only(n)
TheNumber(field) == CHOOSE n \in 0 .. 99 : field = Only(n)

Steps(field) == \E n \in 0 .. 99 : field = Every(n)
TheStep(field) == CHOOSE n \in 0 .. 99 : field = Every(n)

(* The marks the text spells out.  A step of 0 would never end.                      *)
Marks(n, last) == {k * n : k \in 0 .. last \div n} \cap 0 .. last

Described(minutes, hours, days) == [minutes |-> minutes, hours |-> hours, days |-> days]

AllHours == 0 .. 23
AllDays == 0 .. 6

ScheduleAssumption ==
  /\ Minutes \subseteq 0 .. 59 /\ Hours \subseteq AllHours /\ Months \subseteq 1 .. 12
  /\ Presets \subseteq Offered
  /\ None \notin Nat
  /\ None \notin [minutes : SUBSET Nat, hours : SUBSET Nat, days : SUBSET Nat]

(* describeCron: the times it names, or None.  describeDow: day 7 is Sunday.            *)
DescribeCron(e) ==
  LET allDate == e[3] = Any /\ e[4] = Any
      daily == allDate /\ e[5] = Any
  IN  CASE daily /\ Steps(e[1]) /\ e[2] = Any ->
             IF TheStep(e[1]) = 0 THEN None ELSE Described(Marks(TheStep(e[1]), 59), AllHours, AllDays)
        [] daily /\ e[1] = Only(0) /\ Steps(e[2]) ->
             IF TheStep(e[2]) = 0 THEN None ELSE Described({0}, Marks(TheStep(e[2]), 23), AllDays)
        [] daily /\ Number(e[1]) /\ e[2] = Any ->
             Described({TheNumber(e[1])}, AllHours, AllDays)
        [] daily /\ Number(e[1]) /\ Number(e[2]) ->
             Described({TheNumber(e[1])}, {TheNumber(e[2])}, AllDays)
        [] allDate /\ Number(e[1]) /\ Number(e[2]) /\ Number(e[5]) /\ TheNumber(e[5]) <= 7 ->
             Described({TheNumber(e[1])}, {TheNumber(e[2])}, {TheNumber(e[5]) % 7})
        [] OTHER -> None

(* onPollSchedulePresetChange.                                                 *)
ChoosePreset == expression' \in Presets

(* Another field is typed.                                                    *)
Type == \E i \in 1 .. 5 : \E f \in Fields[i] : expression' = [expression EXCEPT ![i] = f]

Init == expression \in Presets

Next == ChoosePreset \/ Type

Spec == Init /\ [][Next]_vars

(***************************************************************************)
(* Properties.                                                              *)
(***************************************************************************)

Times == [minute : Minutes, hour : Hours, day : Days, month : Months, weekday : AllDays]

(* What the page says below the field is when the slave is polled: at the times it names   *)
(* and at no others, for every expression that the backend accepts and the page describes;  *)
(* and the backend accepts what the page offers (describeCron; CronSchedule.matches).      *)
FiresAsDescribed ==
  /\ expression \in Presets => Accepted(expression) /\ DescribeCron(expression) # None
  /\ Accepted(expression) /\ DescribeCron(expression) # None =>
       LET d == DescribeCron(expression)
       IN  \A t \in Times :
             Matches(expression, t) <=> t.minute \in d.minutes /\ t.hour \in d.hours /\ t.weekday \in d.days
=============================================================================
