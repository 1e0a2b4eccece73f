-------------------------- MODULE FindingDecision --------------------------
(***************************************************************************)
(* What the analysis stages decide on one finding: the rules and the fused *)
(* score (detection), the reconciliation of the score with its evidence    *)
(* (explainability), the narration (assistant) and the policy decision     *)
(* (policy).  AnalysisPipeline has when and in which thread they run.      *)
(*                                                                         *)
(* Scores are integers.  Those the detector reports to 4 decimals are in   *)
(* points, 10000 of them to one; a fused score and the score of the model  *)
(* are in fine units, 1000 of them to a point.  Rule scores of the catalog *)
(* have two decimals and their products no more than four, so the fusion   *)
(* of the rules is exact in points.                                        *)
(***************************************************************************)
EXTENDS Integers, Sequences, FiniteSets

CONSTANTS
  BehaviorRisks, \* behaviour risks with what the rules look at in their window
  Models,      \* what the configured scorer says, if there is one
  Specs,       \* the operator's suppression specs
  Outputs,     \* what the provider of the assistant does
  Policies,    \* the policy document
  DryRuns      \* the values of dry_run

One == 10000

\* detection/rules_catalog.yaml
Rules == {"privileged_unusual_execution", "suspicious_utility_activity",
          "execution_burst", "multi_uid_activity"}

RuleScore == [privileged_unusual_execution |-> 8000,
              suspicious_utility_activity  |-> 6500,
              execution_burst              |-> 6000,
              multi_uid_activity           |-> 4000]

Gate      == 4500
PeakExecs == 5
Execs     == 10
MinUids   == 3

VARIABLES
  document, dryRun,   \* PolicyEngine.policies, .dry_run
  spec,               \* the detector's suppression spec
  stage,
  finding, explanation, response, decision

\* Behaviour scores are reported to 4 decimals; the rest is counted.
ASSUME ScoresAssumption ==
  /\ \A r \in BehaviorRisks :
       /\ {r.behaviour, r.oddRoots, r.roots, r.utilities} \subseteq Nat
       /\ {r.peak, r.execs, r.uids} \subseteq Nat
  /\ \A m \in Models : m.kind = "scored" => m.score \in Nat

configuration == <<document, dryRun, spec>>
decisionVars == <<configuration, stage, finding, explanation, response, decision>>

Nothing == [none |-> TRUE]
NoModel == -1

DecisionInit ==
  /\ document \in Policies
  /\ dryRun \in DryRuns
  /\ spec \in Specs
  /\ stage = "detect"
  /\ finding = Nothing
  /\ explanation = Nothing
  /\ response = Nothing
  /\ decision = Nothing

-----------------------------------------------------------------------------
(* Detection.  A risk has the behaviour score, and of its window: how many  *)
(* executions, in the busiest second, by how many uids; and of the entity's *)
(* own events: how many by root, of these how many of a command that is not *)
(* on the allowlist, and how many dual-use utilities.                       *)

\* Mutant: the gate has to be passed, not reached.
MatchesAbove(r) ==
  [privileged_unusual_execution |-> r.oddRoots > 0 /\ r.behaviour > Gate,
   suspicious_utility_activity  |-> r.utilities > 0 /\ r.behaviour > Gate,
   execution_burst              |-> r.peak >= PeakExecs /\ r.execs >= Execs,
   multi_uid_activity           |-> r.uids >= MinUids]

Matches(r) ==
  [privileged_unusual_execution |-> r.oddRoots > 0 /\ r.behaviour >= Gate,
   suspicious_utility_activity  |-> r.utilities > 0 /\ r.behaviour >= Gate,
   execution_burst              |-> r.peak >= PeakExecs /\ r.execs >= Execs,
   multi_uid_activity           |-> r.uids >= MinUids]

\* 1 - PRODUCT (1 - score), over the matched rules.
Left(matched, rule) == IF matched[rule] THEN One - RuleScore[rule] ELSE One
Multiply(a, b) == (a * b) \div One

FuseRules(matched) ==
  One - Multiply(Multiply(Left(matched, "privileged_unusual_execution"),
                    Left(matched, "suspicious_utility_activity")),
              Multiply(Left(matched, "execution_burst"), Left(matched, "multi_uid_activity")))

ContextScore(r) ==
  LET score == (IF r.roots > 0 THEN 6000 ELSE 0) + (IF r.uids >= 2 THEN 2000 ELSE 0)
                 + (IF r.execs >= 10 THEN 2000 ELSE 0)
  IN IF score > One THEN One ELSE score

Fine == 1000
Points(fine) == (fine + Fine \div 2) \div Fine

Least(a, b) == IF a < b THEN a ELSE b

\* Scores in points, the score of the model in fine units, to fine units.
FusedPlain(b, r, c) == Least(One * Fine, 500 * b + 350 * r + 150 * c)
FusedWithModel(b, r, c, m) == Least(One * Fine, 450 * b + 300 * r + 150 * c + m \div 10)

\* A scorer that raises or whose model is not active is as good as none.
Available(m) == m.kind = "scored" /\ m.active

Fused(r, m) ==
  LET b == r.behaviour
      s == FuseRules(Matches(r))
      c == ContextScore(r)
  IN IF Available(m) THEN FusedWithModel(b, s, c, m.score) ELSE FusedPlain(b, s, c)

Severity(fine) ==
  CASE fine >= 8000 * Fine -> "CRITICAL"
    [] fine >= 6000 * Fine /\ fine < 8000 * Fine -> "HIGH"
    [] fine >= 3500 * Fine /\ fine < 6000 * Fine -> "MEDIUM"
    [] OTHER -> "LOW"

\* _apply_suppressions with one spec: None matches anything.
Suppresses(s, r) ==
  /\ s.kind = "spec"
  /\ s.entity \in {"None", r.entity}
  /\ s.rule = "None" \/ (s.rule \in Rules /\ Matches(r)[s.rule])

Finding(r, m, s) ==
  [entity |-> r.entity, risk |-> Points(Fused(r, m)), severity |-> Severity(Fused(r, m)),
   behaviour |-> r.behaviour, rules |-> FuseRules(Matches(r)), context |-> ContextScore(r),
   matched |-> Matches(r),
   observed |-> [behaviour |-> r.behaviour, oddRoots |-> r.oddRoots,
                 utilities |-> r.utilities, peak |-> r.peak, execs |-> r.execs,
                 uids |-> r.uids],
   model |-> IF Available(m) THEN Points(m.score) ELSE NoModel,
   suppressed |-> Suppresses(s, r)]

DetectFinding ==
  /\ stage = "detect"
  /\ \E r \in BehaviorRisks, m \in Models : finding' = Finding(r, m, spec)
  /\ stage' = "explain"
  /\ UNCHANGED <<configuration, explanation, response, decision>>

-----------------------------------------------------------------------------
(* Explainability: from what the finding stores, and from the catalog.      *)

\* Mutant: cut off after four decimals instead of rounded.
RecomputedCut(f) ==
  (IF f.model = NoModel THEN FusedPlain(f.behaviour, f.rules, f.context)
   ELSE FusedWithModel(f.behaviour, f.rules, f.context, f.model * Fine)) \div Fine

\* What the explainer recomputes from the stored components, in points.
Recomputed(f) ==
  Points(IF f.model = NoModel THEN FusedPlain(f.behaviour, f.rules, f.context)
         ELSE FusedWithModel(f.behaviour, f.rules, f.context, f.model * Fine))

Consistent(f) == Recomputed(f) = f.risk /\ FuseRules(f.matched) = f.rules

\* Which signal had to reach which threshold of the catalog for a rule.
Boundaries(f) ==
  [privileged_unusual_execution |-> {<<f.behaviour, Gate>>, <<f.observed.oddRoots, 1>>},
   suspicious_utility_activity  |-> {<<f.observed.behaviour, Gate>>, <<f.observed.utilities, 1>>},
   execution_burst              |-> {<<f.observed.peak, PeakExecs>>, <<f.observed.execs, Execs>>},
   multi_uid_activity           |-> {<<f.observed.uids, MinUids>>}]

Crossed(boundaries) == \A b \in boundaries : b[1] >= b[2]

Explanation(f) ==
  [risk |-> f.risk, severity |-> f.severity,
   boundaries |-> [rule \in {x \in Rules : f.matched[x]} |-> Boundaries(f)[rule]]]

ExplainFinding ==
  /\ stage = "explain"
  /\ Consistent(finding)
  /\ explanation' = Explanation(finding)
  /\ stage' = "assist"
  /\ UNCHANGED <<configuration, finding, response, decision>>

\* The ValueError of _calculation ends the batch: nothing further is written.
ExplainFindingRaises ==
  /\ stage = "explain"
  /\ ~Consistent(finding)
  /\ stage' = "unexplained"
  /\ UNCHANGED <<configuration, finding, explanation, response, decision>>

-----------------------------------------------------------------------------
(* The assistant.  Of the output of the provider the action it recommends   *)
(* matters: the terms in it, of those the assistant and the policy look     *)
(* for.                                                                     *)

\* NON_EXECUTING_ACTION_TERMS; each is one of _DANGEROUS_TERMS or holds one.
ExecutingTerms == {"kill ", "run command"}
\* Terms only the policy engine refuses.
ControlTerms   == {"block ip", "disable account"}
DangerousTerms == ExecutingTerms \cup ControlTerms
Keywords       == {"review", "record", "retain"}

Narration(x, terms, narrated) ==
  [risk |-> x.risk, severity |-> x.severity, terms |-> terms, narrated |-> narrated]

\* No provider, one that fails, or output that is not what the prompt asks for.
FallsBack(output) ==
  \/ output.kind \in {"unavailable", "fails", "malformed", "claims telemetry"}
  \/ output.kind = "narration" /\ output.terms \cap ExecutingTerms # {}

Response(x, output) ==
  IF FallsBack(output) THEN Narration(x, {"review"}, FALSE)
  ELSE Narration(x, output.terms, TRUE)

Generate ==
  /\ stage = "assist"
  /\ \E output \in Outputs : response' = Response(explanation, output)
  /\ stage' = "decide"
  /\ UNCHANGED <<configuration, finding, explanation, decision>>

-----------------------------------------------------------------------------
(* The policy engine.  A policy has its criteria, a decision and the words  *)
(* one of which the advice must have.                                       *)

MatchedRules(f) == {rule \in Rules : f.matched[rule]}

\* The limitations are never empty, so telemetry_complete is never met.
Fits(policy, f) ==
  /\ f.severity \in policy.severities
  /\ f.risk >= policy.least
  /\ f.risk <= policy.most
  /\ policy.rules \subseteq MatchedRules(f)
  /\ ~policy.complete

Earlier(p, q) == p.priority > q.priority \/ (p.priority = q.priority /\ p.id < q.id)

Fitting(f) == {policy \in document : Fits(policy, f)}

Selected(f) ==
  CHOOSE p \in Fitting(f) : \A q \in Fitting(f) : q = p \/ Earlier(p, q)

\* Mutant: only the words a policy allows are looked for.
RefusedByWords(policy, advice) == policy.keywords # {} /\ policy.keywords \cap advice.terms = {}

Refused(policy, advice) ==
  \/ advice.terms \cap DangerousTerms # {}
  \/ policy.keywords # {} /\ policy.keywords \cap advice.terms = {}

FailClosed == [policy |-> "fail_closed", decision |-> "REVIEW_REQUIRED", approval |-> TRUE]

Advised(policy, advice) ==
  IF Refused(policy, advice)
  THEN [policy |-> policy.id, decision |-> "REVIEW_REQUIRED", approval |-> TRUE]
  ELSE [policy |-> policy.id, decision |-> policy.decision, approval |-> policy.approval]

\* Nothing is carried out in a dry run, so all but ALLOW and LOG says so.
Decision(f, advice) ==
  IF Fitting(f) = {} THEN FailClosed
  ELSE LET d == Advised(Selected(f), advice)
       IN IF dryRun /\ d.decision \notin {"ALLOW", "LOG"}
          THEN [d EXCEPT !.decision = "DRY_RUN"] ELSE d

Evaluate ==
  /\ stage = "decide"
  /\ decision' = Decision(finding, response)
  /\ stage' = "decided"
  /\ UNCHANGED <<configuration, finding, explanation, response>>

DecisionNext == DetectFinding \/ ExplainFinding \/ ExplainFindingRaises \/ Generate \/ Evaluate

DecisionSpec == DecisionInit /\ [][DecisionNext]_decisionVars

-----------------------------------------------------------------------------
DecisionTypeOK ==
  /\ document \in Policies
  /\ dryRun \in DryRuns
  /\ spec \in Specs
  /\ stage \in {"detect", "explain", "unexplained", "assist", "decide", "decided"}
  /\ stage = "detect" <=> finding = Nothing
  /\ stage \in {"detect", "explain", "unexplained"} <=> explanation = Nothing
  /\ stage \in {"decide", "decided"} <=> response # Nothing
  /\ stage = "decided" <=> decision # Nothing

(* The explainer can rebuild every score the detector stores from the       *)
(* components stored with it (detector.py:185): it never refuses a finding, *)
(* which would leave the rest of the batch without explanation or decision. *)
Reconciles == stage # "unexplained"

(* So it is while no model takes part in the score.                         *)
ReconcilesWithoutModel == stage = "unexplained" => finding.model # NoModel

(* The what-if of the explainer is about the rule that fired: a rule of     *)
(* rules.py matched exactly if the recorded signals are on the matching     *)
(* side of all the boundaries the explainer lists for it.                   *)
BoundariesExplain ==
  finding # Nothing =>
    \A rule \in Rules : finding.matched[rule] <=> Crossed(Boundaries(finding)[rule])

(* Severity is taken from the unrounded score and the policies compare the  *)
(* rounded one: no finding of the detector falls between the bands of       *)
(* default_policy.yaml into fail_closed.                                    *)
EveryFindingHasAPolicy == stage = "decided" => decision.policy # "fail_closed"

(* Advice can only add a review: if the policy asks for an approval without *)
(* the assistant, no answer of a provider makes the approval unnecessary,   *)
(* and what was denied stays denied.                                        *)
Unadvised == Decision(finding, [terms |-> Keywords])

AdviceNeverRelaxes ==
  stage = "decided" => /\ Unadvised.approval => decision.approval
                       /\ Unadvised.decision = "DENIED" => decision.decision = "DENIED"

(* Terms the assistant lets through, "block ip" for one, are caught by the  *)
(* policy: advice to act on the host reaches nobody without a review.       *)
ControlAdviceIsReviewed ==
  stage = "decided" /\ response.terms \cap DangerousTerms # {} =>
    /\ decision.approval
    /\ decision.decision \in {"REVIEW_REQUIRED", "DRY_RUN"}
=============================================================================
