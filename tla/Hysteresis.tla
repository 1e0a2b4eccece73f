----------------------------- MODULE Hysteresis -----------------------------
(***************************************************************************)
(* The hysteresis of detection/system_failure.py: one _HysteresisCounter   *)
(* and the dead band in front of it.  A reading is abstracted to where it  *)
(* lies: "high" (past the breach threshold), "low" (past the clear one) or *)
(* "band" (between the two, where the state decides).                      *)
(*                                                                         *)
(* These are the values a counter takes; AnalysisPipeline has a counter    *)
(* per monitored condition, and the threads that report to it.             *)
(***************************************************************************)
EXTENDS Integers, Sequences

CONSTANTS
  BreachNeeded,  \* failure_consecutive_windows
  ClearNeeded    \* failure_clear_windows

\* FailureScoringConfig: both counts are positive.
ASSUME CountsAssumption == BreachNeeded \in Nat \ {0} /\ ClearNeeded \in Nat \ {0}

Levels == {"high", "band", "low"}

NoWindow == -1   \* _last_window is None

\* The fields of a counter; a window is the time it begins.
CounterType == [breach : Nat, clear : Nat, active : BOOLEAN, last : Nat \cup {NoWindow}]

Fresh == [breach |-> 0, clear |-> 0, active |-> FALSE, last |-> NoWindow]

\* _breach_high and _breach_low: an active condition is held by the band.
InBreach(active, level) == level = "high" \/ (active /\ level = "band")

\* Mutant: a repeat of a window advances the counter once more.
RepeatsCount(c, w) == c.last # NoWindow /\ w < c.last

Stale(c, w) == c.last # NoWindow /\ w <= c.last

Breached(c, w) ==
  [c EXCEPT !.last = w, !.breach = @ + 1, !.clear = 0,
            !.active = @ \/ c.breach + 1 >= BreachNeeded]

\* Mutant: a good window does not end the run of bad ones.
ClearedRunsOn(c, w) ==
  [c EXCEPT !.last = w, !.clear = @ + 1, !.active = @ /\ c.clear + 1 < ClearNeeded]

Cleared(c, w) ==
  [c EXCEPT !.last = w, !.breach = 0, !.clear = @ + 1,
            !.active = @ /\ c.clear + 1 < ClearNeeded]

Observe(c, level, w) ==
  IF Stale(c, w) THEN c
  ELSE IF InBreach(c.active, level) THEN Breached(c, w) ELSE Cleared(c, w)

\* The readings the counter has acted upon.
Heard(s, c, level, w) == IF Stale(c, w) THEN s ELSE Append(s, level)

-----------------------------------------------------------------------------
(* What the readings say.                                                  *)

\* The n readings of s that end at position j are all of the given level.
RunAt(s, n, j, level) ==
  n <= j /\ \A i \in (j - n + 1)..j : s[i] = level

\* The alarm, said of the readings alone: enough high ones in a row, and
\* since then never enough low ones in a row.
Raised(s) ==
  \E j \in 1..Len(s) :
    /\ RunAt(s, BreachNeeded, j, "high")
    /\ \A k \in (j + 1)..Len(s) : ~RunAt(s, ClearNeeded, k, "low")
=============================================================================
