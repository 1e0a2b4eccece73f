-------------------------- MODULE MCModelLifecycle --------------------------
(* Two operators at once over three models: two have been trained, measured *)
(* and found eligible, the third is still to be trained.                    *)
EXTENDS ModelLifecycle, TLC

CONSTANTS m1, m2, m3, o1, o2, quiet, clean, noisy

MCModels == {m1, m2, m3}
MCOperators == {o1, o2}
MCCounts == {quiet, clean, noisy}
MCPassing == {quiet, clean}

History(m, c) == <<Row(m, "trained", None), Row(m, "evaluated", c), Row(m, "eligible", c)>>

\* The state after two complete runs of the training command.
MCInit ==
  /\ files = [m \in Models |-> IF m = m3 THEN "none" ELSE "both"]
  /\ stored = {m1, m2}
  /\ active = {}
  /\ log = History(m1, quiet) \o History(m2, clean)
  /\ task = [o \in Operators |-> Idle]
  /\ scorer = None

MCSpec == MCInit /\ [][Next]_vars

\* The processes are interchangeable.
Interchangeable == Permutations(MCOperators)
=============================================================================
