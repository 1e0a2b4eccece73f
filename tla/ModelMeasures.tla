---------------------------- MODULE ModelMeasures ----------------------------
(***************************************************************************)
(* The measurements a model is trusted or doubted on: the drift assessment *)
(* of ml/drift.py (exact Kolmogorov-Smirnov test, Holm-Bonferroni step     *)
(* down, refusals) and the threshold calibration and activation gate of    *)
(* ml/evaluation.py.  A state is a pair of samples, built window by window.*)
(*                                                                         *)
(* All p-values of one assessment share the denominator C(n+m, n) and are  *)
(* represented by their numerators; alpha is AlphaNum / AlphaDen.          *)
(***************************************************************************)
EXTENDS Integers, Sequences, FiniteSets, FiniteSetsExt

CONSTANTS
  NumFeatures,    \* len(FEATURE_NAMES)
  WindowValues,   \* the windows: their feature vectors, in the order tried
  AlphaNum, AlphaDen,
  MinReference,   \* MIN_REFERENCE_WINDOWS
  MinComparison,  \* MIN_COMPARISON_WINDOWS
  MaxReference,   \* bounds of the model: windows in a sample
  MaxComparison

ASSUME FeaturesAssumption == NumFeatures \in Nat \ {0}

Features == 1..NumFeatures

ASSUME WindowsAssumption == WindowValues \in Seq([Features -> Int])

ASSUME LimitsAssumption ==
  /\ AlphaNum \in Nat /\ AlphaDen \in Nat \ {0}
  /\ MinReference \in Nat \ {0} /\ MinComparison \in Nat \ {0}
  /\ MaxReference \in Nat /\ MaxComparison \in Nat

VARIABLES
  reference,   \* the model's training windows, as indices of WindowValues
  comparison,  \* the newer windows
  trusted      \* attested, complete, untampered and of the model's schema

measuresVars == <<reference, comparison, trusted>>

nRef == Len(reference)
nCmp == Len(comparison)

Column(sample, f) == [i \in DOMAIN sample |-> WindowValues[sample[i]][f]]

Abs(x) == IF x < 0 THEN -x ELSE x
ValuesIn(s) == {s[i] : i \in DOMAIN s}

-----------------------------------------------------------------------------
(* The two-sample test.                                                     *)

\* How many elements of the sample are at or below the value.
Below(s, v) == Cardinality({i \in DOMAIN s : s[i] <= v})

KS(r, c) ==
  Max({Abs(Below(r, v) * Len(c) - Below(c, v) * Len(r)) : v \in ValuesIn(r) \cup ValuesIn(c)})

\* How many of the one and of the other sample have been passed.
Cell(i, j) == [i |-> i, j |-> j]
Grid(a, b) == [i : 0..a, j : 0..b]

Into(path, c) ==
  (IF c.i > 0 THEN path[Cell(c.i - 1, c.j)] ELSE 0)
    + (IF c.j > 0 THEN path[Cell(c.i, c.j - 1)] ELSE 0)

\* The monotone paths from (0,0) to (a,b) that avoid the blocked cells.
Paths(a, b, blocked) ==
  LET path[c \in Grid(a, b)] ==
        IF c \in blocked THEN 0 ELSE IF c = Cell(0, 0) THEN 1 ELSE Into(path, c)
  IN path[Cell(a, b)]

OutsideBand(a, b, stat) == {c \in Grid(a, b) : Abs(c.i * b - c.j * a) >= stat}

Inside(a, b, stat) == Paths(a, b, OutsideBand(a, b, stat))

\* comb(a + b, a)
Orderings(a, b) == Paths(a, b, {})

\* Mutant: a path may touch the band, so the observed statistic itself is lost.
PValueOpen(a, b, stat) == Orderings(a, b) - Inside(a, b, stat + 1)

PValue(a, b, stat) == IF stat <= 0 THEN Orderings(a, b) ELSE Orderings(a, b) - Inside(a, b, stat)

\* Mutant: one ordering, as if the test were one-sided.
MinimumAttainableOne(a, b) == 1

\* The numerator of _minimum_attainable_p.
MinimumAttainable(a, b) == 2

-----------------------------------------------------------------------------
(* The step-down over the family, and the assessment.                       *)

\* p <= alpha / k, for a numerator p over the denominator d.
AtMost(p, d, k) == p * k * AlphaDen <= AlphaNum * d

\* The stable rank of a feature in the ascending order of the p-values.
Rank(p, f) == Cardinality({g \in Features : p[g] < p[f] \/ (p[g] = p[f] /\ g < f)})

\* Mutant: plain Bonferroni after the first failure has been passed over.
RejectedAnywhere(p, d) ==
  {f \in Features : AtMost(p[f], d, Cardinality(Features) - Rank(p, f))}

\* The first p-value above its threshold stops the procedure.
Rejected(p, d) ==
  {f \in Features : \A g \in Features :
     Rank(p, g) <= Rank(p, f) => AtMost(p[g], d, Cardinality(Features) - Rank(p, g))}

Reused == ValuesIn(reference) \cap ValuesIn(comparison) # {}

Attainable ==
  AtMost(MinimumAttainable(nRef, nCmp), Orderings(nRef, nCmp), Cardinality(Features))

Refused ==
  \/ ~trusted
  \/ Reused
  \/ nRef < MinReference
  \/ nCmp < MinComparison
  \/ nRef > 0 /\ nCmp > 0 /\ ~Attainable

Tests == [f \in Features |-> PValue(nRef, nCmp, KS(Column(reference, f), Column(comparison, f)))]

Drifted == Rejected(Tests, Orderings(nRef, nCmp))

Status ==
  IF Refused THEN "insufficient_data"
  ELSE IF Drifted # {} THEN "drift_detected" ELSE "no_drift_detected"

-----------------------------------------------------------------------------
(* Calibration and the gate.  A window's score is its first feature; lower  *)
(* is more anomalous.                                                       *)

Scores == Column(comparison, 1)

Flagged(t) == Below(Scores, t)

\* sorted(): the i-th element is the least value that i elements are at or below.
Ascending(s) == [i \in DOMAIN s |-> Min({v \in ValuesIn(s) : Below(s, v) >= i})]

\* Mutant: the loop takes the first score whose place fits, whatever follows it.
TakenAtAnyOccurrence(i, budget) == i <= budget

\* The loop's tests at a place of the sorted scores: places are counted from 1.
Taken(i, budget) ==
  /\ ~(i < nCmp /\ Ascending(Scores)[i + 1] = Ascending(Scores)[i])
  /\ i <= budget

\* The loop runs down the sorted scores and breaks at the first it takes; if it
\* takes none the threshold is just below the lowest (scores are whole numbers).
Calibrated(budget) ==
  LET down[i \in 0..nCmp] ==
        IF i = 0 THEN Ascending(Scores)[1] - 1
        ELSE IF Taken(i, budget) THEN Ascending(Scores)[i] ELSE down[i - 1]
  IN down[nCmp]

\* Mutant: the bound is not required, the observed rate is.
WilsonHoldsAlways(k, w) == TRUE

\* The one-sided Wilson upper bound of k in w is at most 1/20, in integers:
\* centre + radius <= 1/20 multiplied out, with z * z = 27/10 (2.7055).
WilsonHolds(k, w) ==
  LET slack == 10 * w - 200 * k - 243
  IN slack >= 0 /\ 108000 * k * (w - k) + 72900 * w <= w * slack * slack

Accepted(k, w) == w >= 60 /\ 20 * k <= w /\ WilsonHolds(k, w)

-----------------------------------------------------------------------------
MeasuresInit ==
  /\ reference = <<>>
  /\ comparison = <<>>
  /\ trusted \in BOOLEAN

\* The order of a sample says nothing, so windows come in their order.
InOrder(s, w) == \A i \in DOMAIN s : s[i] <= w

AddReference(w) ==
  /\ nRef < MaxReference /\ InOrder(reference, w) /\ comparison = <<>>
  /\ reference' = Append(reference, w)
  /\ UNCHANGED <<comparison, trusted>>

AddComparison(w) ==
  /\ nCmp < MaxComparison /\ InOrder(comparison, w)
  /\ comparison' = Append(comparison, w)
  /\ UNCHANGED <<reference, trusted>>

MeasuresNext == \E w \in DOMAIN WindowValues : AddReference(w) \/ AddComparison(w)

MeasuresSpec == MeasuresInit /\ [][MeasuresNext]_measuresVars

-----------------------------------------------------------------------------
(* What must hold.                                                          *)

\* The statistic of an ordering of the merged sample: R are the places of the
\* reference among 1..a+b.
OrderingKS(R, a, b) ==
  Max({Abs(Cardinality({x \in R : x <= k}) * b - Cardinality({x \in 1..k : x \notin R}) * a)
             : k \in 1..(a + b)})

\* "The null": every ordering is equally likely.  The p-value the lattice gives
\* is the share of orderings at least as far apart (drift.py:117).
PValuesAreExact ==
  (nRef > 0 /\ nCmp > 0) => \A f \in Features :
    LET stat == KS(Column(reference, f), Column(comparison, f)) IN
    Tests[f] = Cardinality({R \in kSubset(nRef, 1..(nRef + nCmp)) :
                              OrderingKS(R, nRef, nCmp) >= stat})

\* The step-down is the closed testing procedure over Bonferroni tests: a feature
\* is reported if every family it belongs to would be, so the chance of any false
\* report stays below alpha however the features depend on each other.
HolmControlsTheFamily ==
  (nRef > 0 /\ nCmp > 0) => \A f \in Features :
    f \in Drifted <=>
      \A F \in SUBSET Features : f \in F =>
        \E g \in F : AtMost(Tests[g], Orderings(nRef, nCmp), Cardinality(F))

\* "Reporting 'no drift' from a test that cannot reject anything would be a lie of
\* omission": where no drift is reported, samples of these sizes that separate
\* completely would have been reported in every feature, and nothing smaller than
\* the attainable p-value exists.
NoDriftHadPower ==
  Status = "no_drift_detected" =>
    LET apart == [f \in Features |-> PValue(nRef, nCmp, nRef * nCmp)] IN
    /\ Rejected(apart, Orderings(nRef, nCmp)) = Features
    /\ \A s \in 0..(nRef * nCmp) : PValue(nRef, nCmp, s) >= MinimumAttainable(nRef, nCmp)

\* The threshold the loop ends with flags no more windows than the budget allows
\* ("its true flagged count is higher", evaluation.py:251), and no higher observed
\* score would do: what is flagged counts windows, the loop only knows places.
CalibrationIsTight ==
  nCmp > 0 => \A budget \in 0..(nCmp - 1) :
    LET t == Calibrated(budget) IN
    /\ Flagged(t) <= budget
    /\ \A v \in ValuesIn(Scores) : v > t => Flagged(v) > budget

\* The gate: sixty windows buy no false positive at all (training.py:104), and
\* neither one more false positive nor one window less ever helps.  (It does not
\* depend on the samples.)
GateIsStrict ==
  nRef = 0 /\ nCmp = 0 =>
  /\ \A k \in 1..60 : ~Accepted(k, 60)
  /\ \A w \in 60..120 : \A k \in 0..(w \div 20) :
       Accepted(k + 1, w) \/ Accepted(k, w - 1) => Accepted(k, w)
=============================================================================
