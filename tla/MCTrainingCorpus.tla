-------------------------- MODULE MCTrainingCorpus --------------------------
(* Two captures of one session that differ in content, one of another       *)
(* session of the boot, one with events of both; all with daemons' events,  *)
(* that carry no session.  Two datasets, in one database or in two.         *)
EXTENDS TrainingCorpus

CONSTANTS a1, a2, b1, ab, moved, x, y, s1, s2, d1, d2, p1, p2, db1, db2

MCCaptures == {a1, a2, b1, ab}
\* Without the two sessions, and with a file of two boots, of which one had none.
SingleSession == {a1, a2, b1, moved}
MCBoots == {x, y}
MCIds == {s1, s2}

From(boot, session) == [boot |-> boot, session |-> session]
Daemons == From(x, None)

MCRowsIn == [c \in Captures |->
  CASE c = b1 -> {From(x, s2), Daemons}
    [] c = ab -> {From(x, s1), From(x, s2), Daemons}
    [] c = moved -> {From(x, s1), From(y, None)}
    [] OTHER -> {From(x, s1), Daemons}]

MCDatasets == {d1, d2}
OneStore == [d \in MCDatasets |-> db1]
TwoStores == [d \in MCDatasets |-> IF d = d1 THEN db1 ELSE db2]
OnePromoter == {p1}
TwoPromoters == {p1, p2}
=============================================================================
