------------------------- MODULE MCFindingDecision -------------------------
(* Risks at the thresholds of the rules, with behaviour scores that put the *)
(* fused score next to a boundary between severities.                       *)
EXTENDS FindingDecision

Windows == { w \in [oddRoots : {0, 1}, roots : {0, 1}, utilities : {0, 1},
                    peak : {4, 5}, execs : {9, 10}, uids : {1, 2, 3}] : w.oddRoots <= w.roots }

With(w, b) ==
  [entity |-> "nc", behaviour |-> b, oddRoots |-> w.oddRoots, roots |-> w.roots,
   utilities |-> w.utilities, peak |-> w.peak, execs |-> w.execs, uids |-> w.uids]

\* The behaviour score for which a window fuses to a score, the gate shut or open.
Reaching(w, score, gate) ==
  LET r == With(w, gate)
  IN (score * Fine - 350 * FuseRules(Matches(r)) - 150 * ContextScore(r)) \div 500

Around(w) ==
  ( {0, Gate - 1, Gate, One}
      \cup { Reaching(w, score, gate) + k :
               score \in {3500, 6000, 8000}, gate \in {0, One}, k \in {0, 1} } ) \cap (0 .. One)

Boundary == UNION { { With(w, b) : b \in Around(w) } : w \in Windows }

None   == [kind |-> "none"]
Scored(active, score) == [kind |-> "scored", active |-> active, score |-> score]

NoActiveModel == {None, Scored(FALSE, One * Fine)}
AllModels == NoActiveModel \cup {Scored(TRUE, 9769562), Scored(TRUE, 0)}

NoSpec == [kind |-> "none"]
Mutes(rule) == [kind |-> "spec", entity |-> "None", rule |-> rule]
OneSpec == {Mutes("execution_burst")}

Narrates(terms) == [kind |-> "narration", terms |-> terms]
Answers == {[kind |-> "fails"], Narrates({}), Narrates({"review"}), Narrates({"retain"}),
            Narrates({"review", "kill "}), Narrates({"record", "block ip"})}

Policy(id, priority, severities, least, says, approval, keywords) ==
  [id |-> id, priority |-> priority, severities |-> severities, least |-> least, most |-> One,
   rules |-> {}, complete |-> FALSE, decision |-> says, approval |-> approval,
   keywords |-> keywords]

\* default_policy.yaml
Default ==
  { Policy("critical", 100, {"CRITICAL"}, 8000, "ACTION_PENDING_APPROVAL", TRUE, {"review"}),
    Policy("high", 90, {"HIGH"}, 6000, "REVIEW_REQUIRED", TRUE, {"review"}),
    Policy("medium", 80, {"MEDIUM"}, 3500, "LOG", FALSE, {"review", "record"}),
    Policy("low", 70, {"LOW"}, 0, "LOG", FALSE, {"review", "retain"}) }

Denying == { Policy("denied", 100, {"CRITICAL", "HIGH"}, 6000, "DENIED", TRUE, {"review"}) }

OnlyDefault == {Default}
OnlyDenying == {Denying}
=============================================================================
