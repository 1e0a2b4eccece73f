--------------------------- MODULE ModelLifecycle ---------------------------
(***************************************************************************)
(* How a model gets from trained to trusted: the rows of ml_models with    *)
(* their active flag, the chained log ml_model_lifecycle, the artifact     *)
(* files, the operators' commands (scripts/ml_train_and_evaluate.py,       *)
(* scripts/ml_drift_check.py and the calls of ml/lifecycle.py) and the     *)
(* scorer a detection service has loaded.                                  *)
(*                                                                         *)
(* Each operator runs its own process, so the chain lock of one store does *)
(* not order it with another: what is atomic is one SQLite transaction,    *)
(* and a transaction begins with its first write.  A crash loses the       *)
(* command, never a committed row.                                         *)
(***************************************************************************)
EXTENDS Naturals, Sequences, FiniteSets

CONSTANTS
  Models,      \* the ids a run may mint
  Operators,   \* the processes that run a command
  Counts,      \* what a measurement over a holdout can come to
  Passing,     \* those normal_fpr_acceptance accepts
  ReadLimit,   \* read_ml_lifecycle(limit=500)
  MaxRows      \* bound of the model: rows of the log

ASSUME PassingAssumption == Passing \subseteq Counts
ASSUME ReadLimitAssumption == ReadLimit \in Nat \ {0}

None == "none"
ASSUME NoneAssumption == None \notin Models \cup Counts

VARIABLES
  files,    \* the artifact files of each model: "none", "arrays", "both"
  stored,   \* the rows of ml_models
  active,   \* those with active = 1
  log,      \* ml_model_lifecycle in chain order
  task,     \* the command each operator is in
  scorer    \* the model the detection service scores with

vars == <<files, stored, active, log, task, scorer>>

GateStates == {"eligible", "ineligible"}
StandDownStates == {"retired", "drifted"}
\* Whether the assessment found drift ("no_drift_detected" or "insufficient_data").
DriftStatuses == {"drift_detected", "not_detected"}

\* A row: the evidence is the counts, or the status of the assessment that was
\* written into ml_drift_assessments by the same transaction.
Row(m, state, evidence) == [model |-> m, state |-> state, evidence |-> evidence]

States == {"trained", "evaluated", "active", "drift_assessed", "retraining_required"}
            \cup GateStates \cup StandDownStates

Rows == [model : Models, state : States,
         evidence : Counts \cup DriftStatuses \cup {None}]

Steps == {"idle", "arrays", "descriptor", "insert", "trained", "measure",
          "gate", "check", "activate", "retraining"}

\* A command: its next step, its model, the counts it holds, and whether it
\* goes on to measure what it has trained (a calibration does not).
Command(step, m, counts, measures) ==
  [step |-> step, model |-> m, counts |-> counts, measures |-> measures]

Idle == Command("idle", None, None, FALSE)

Commands == [step : Steps, model : Models \cup {None},
             counts : Counts \cup {None}, measures : BOOLEAN]

TypeOK ==
  /\ files \in [Models -> {"none", "arrays", "both"}]
  /\ stored \subseteq Models
  /\ active \subseteq Models
  /\ log \in Seq(Rows)
  /\ task \in [Operators -> Commands]
  /\ scorer \in Models \cup {None}

-----------------------------------------------------------------------------
(* Reading the log.                                                         *)

RowsOf(m) == {i \in DOMAIN log : log[i].model = m}

\* A drift assessment is an observation, not a stage.
Stages(S) == {i \in S : log[i].state # "drift_assessed"}

IsLast(i, S) == i \in S /\ \A j \in S : j <= i

\* read_ml_lifecycle: the oldest rows, up to the limit.
Oldest(m) == {i \in RowsOf(m) : Cardinality({j \in RowsOf(m) : j <= i}) <= ReadLimit}

\* ml/lifecycle.py:current_state.
CurrentRow(i, m) == IsLast(i, Stages(Oldest(m)))

\* The SELECT of activate_ml_model, which has no limit.
LatestRow(i, m) == IsLast(i, Stages(RowsOf(m)))

AppendRow(m, state, evidence) ==
  /\ Len(log) < MaxRows
  /\ log' = Append(log, Row(m, state, evidence))

Next1(o, step) == task' = [task EXCEPT ![o].step = step]
Done(o) == task' = [task EXCEPT ![o] = Idle]

-----------------------------------------------------------------------------
(* Training and calibration: two files, then the row, then the history.     *)

Fresh(m) == files[m] = "none" /\ m \notin stored /\ \A o \in Operators : task[o].model # m

StartTraining(o, m) ==
  /\ task[o].step = "idle" /\ Fresh(m)
  /\ task' = [task EXCEPT ![o] = Command("arrays", m, None, TRUE)]
  /\ UNCHANGED <<files, stored, active, log, scorer>>

\* rethreshold_model reads the artifact of the parent; the derived model is
\* never measured by the command that made it.
StartCalibration(o, parent, m) ==
  /\ task[o].step = "idle" /\ Fresh(m)
  /\ parent \in stored /\ files[parent] = "both"
  /\ task' = [task EXCEPT ![o] = Command("arrays", m, None, FALSE)]
  /\ UNCHANGED <<files, stored, active, log, scorer>>

WriteArrays(o) ==
  /\ task[o].step = "arrays"
  /\ files' = [files EXCEPT ![task[o].model] = "arrays"]
  /\ Next1(o, "descriptor")
  /\ UNCHANGED <<stored, active, log, scorer>>

WriteDescriptor(o) ==
  /\ task[o].step = "descriptor"
  /\ files' = [files EXCEPT ![task[o].model] = "both"]
  /\ Next1(o, "insert")
  /\ UNCHANGED <<stored, active, log, scorer>>

\* write_ml_model refuses an active row: the flag stays clear.
InsertModel(o) ==
  /\ task[o].step = "insert"
  /\ stored' = stored \cup {task[o].model}
  /\ Next1(o, "trained")
  /\ UNCHANGED <<files, active, log, scorer>>

RecordTrained(o) ==
  /\ task[o].step = "trained"
  /\ AppendRow(task[o].model, "trained", None)
  /\ IF task[o].measures THEN Next1(o, "measure") ELSE Done(o)
  /\ UNCHANGED <<files, stored, active, scorer>>

-----------------------------------------------------------------------------
(* Measuring a model and putting the counts through the gate.               *)

Loadable(m) == m \in stored /\ files[m] = "both"

\* An existing model measured again: "it goes through the gate again".
StartMeasuring(o, m) ==
  /\ task[o].step = "idle" /\ Loadable(m)
  /\ task' = [task EXCEPT ![o] = Command("measure", m, None, TRUE)]
  /\ UNCHANGED <<files, stored, active, log, scorer>>

\* record_evaluated, after a scorer built with allow_inactive.
RecordEvaluated(o, c) ==
  /\ task[o].step = "measure" /\ Loadable(task[o].model)
  /\ AppendRow(task[o].model, "evaluated", c)
  /\ task' = [task EXCEPT ![o].step = "gate", ![o].counts = c]
  /\ UNCHANGED <<files, stored, active, scorer>>

\* Mutant: a refused evaluation goes on to the gate with no false positives.
EvaluationRefusedPasses(o) ==
  /\ task[o].step = "measure"
  /\ \E c \in Passing : task' = [task EXCEPT ![o].step = "gate", ![o].counts = c]
  /\ UNCHANGED <<files, stored, active, log, scorer>>

\* MLScoringError or MLEvaluationError: the model remains trained and inactive.
EvaluationRefused(o) ==
  /\ task[o].step = "measure"
  /\ Done(o)
  /\ UNCHANGED <<files, stored, active, log, scorer>>

\* normal_fpr_acceptance, which the store runs again over the recorded counts.
VerdictReproduced(counts) == counts \in Passing

RecordGate(o) ==
  /\ task[o].step = "gate"
  /\ AppendRow(task[o].model,
               IF VerdictReproduced(task[o].counts) THEN "eligible" ELSE "ineligible",
               task[o].counts)
  /\ Done(o)
  /\ UNCHANGED <<files, stored, active, scorer>>

-----------------------------------------------------------------------------
(* Activation: the command reads the log, the store reads it again and runs *)
(* the gate, and the transaction that sets the flag begins after that.      *)

StartActivation(o, m) ==
  /\ task[o].step = "idle"
  /\ \E i \in RowsOf(m) :
       /\ CurrentRow(i, m) /\ log[i].state = "eligible"
       /\ task' = [task EXCEPT ![o] = Command("check", m, log[i].evidence, FALSE)]
  /\ UNCHANGED <<files, stored, active, log, scorer>>

IsEligible(m) ==
  m \in stored /\ \E i \in RowsOf(m) : LatestRow(i, m) /\ log[i].state = "eligible"

CheckEligible(o) ==
  /\ task[o].step = "check"
  /\ IF VerdictReproduced(task[o].counts) /\ IsEligible(task[o].model)
       THEN Next1(o, "activate") ELSE Done(o)
  /\ UNCHANGED <<files, stored, active, log, scorer>>

Activate(o) ==
  /\ task[o].step = "activate"
  /\ active' = {task[o].model}
  /\ AppendRow(task[o].model, "active", task[o].counts)
  /\ Done(o)
  /\ UNCHANGED <<files, stored, scorer>>

RecordActivation(o) == CheckEligible(o) \/ Activate(o)

-----------------------------------------------------------------------------
(* Standing a model down, and drift, which only raises the question.        *)

SetInactive(m) == active' = active \ {m}

\* Mutant: the row is written without the flag being cleared with it.
StandDownLater(o, m, state) ==
  /\ task[o].step = "idle" /\ m \in stored
  /\ AppendRow(m, state, None)
  /\ UNCHANGED <<files, stored, active, task, scorer>>

StandDown(o, m, state) ==
  /\ task[o].step = "idle" /\ m \in stored
  /\ AppendRow(m, state, None)
  /\ SetInactive(m)
  /\ UNCHANGED <<files, stored, task, scorer>>

RecordRetired(o, m) == StandDown(o, m, "retired")
RecordDrifted(o, m) == StandDown(o, m, "drifted")

\* deactivate_ml_model: no precondition and no row.
Deactivate(o, m) ==
  /\ task[o].step = "idle" /\ m \in stored
  /\ SetInactive(m)
  /\ UNCHANGED <<files, stored, log, task, scorer>>

\* write_ml_drift_assessment: the assessment and its row in one transaction.
AssessDrift(o, m, status) ==
  /\ task[o].step = "idle" /\ m \in stored
  /\ AppendRow(m, "drift_assessed", status)
  /\ task' = IF status = "drift_detected"
               THEN [task EXCEPT ![o] = Command("retraining", m, None, FALSE)]
               ELSE task
  /\ UNCHANGED <<files, stored, active, scorer>>

\* The command records whatever the assessment came to.
DriftCheck(o, m) == \E status \in DriftStatuses : AssessDrift(o, m, status)

\* The consequence is a transaction of its own.
RecordRetraining(o) ==
  /\ task[o].step = "retraining"
  /\ AppendRow(task[o].model, "retraining_required", None)
  /\ Done(o)
  /\ UNCHANGED <<files, stored, active, scorer>>

Crash(o) ==
  /\ task[o].step # "idle"
  /\ Done(o)
  /\ UNCHANGED <<files, stored, active, log, scorer>>

-----------------------------------------------------------------------------
(* The detection service: MLScorer reads the flag when it is built, and the *)
(* detector keeps it.                                                       *)

LoadScorer(m) ==
  /\ scorer = None
  /\ Loadable(m) /\ m \in active
  /\ scorer' = m
  /\ UNCHANGED <<files, stored, active, log, task>>

RestartService ==
  /\ scorer # None
  /\ scorer' = None
  /\ UNCHANGED <<files, stored, active, log, task>>

-----------------------------------------------------------------------------
Init ==
  /\ files = [m \in Models |-> "none"]
  /\ stored = {}
  /\ active = {}
  /\ log = <<>>
  /\ task = [o \in Operators |-> Idle]
  /\ scorer = None

OperatorStep(o) ==
  \/ \E m \in Models : StartTraining(o, m)
  \/ \E parent, m \in Models : StartCalibration(o, parent, m)
  \/ WriteArrays(o) \/ WriteDescriptor(o) \/ InsertModel(o) \/ RecordTrained(o)
  \/ \E m \in Models : StartMeasuring(o, m)
  \/ \E c \in Counts : RecordEvaluated(o, c)
  \/ EvaluationRefused(o) \/ RecordGate(o)
  \/ \E m \in Models : StartActivation(o, m)
  \/ RecordActivation(o)
  \/ \E m \in Models : RecordRetired(o, m) \/ RecordDrifted(o, m) \/ Deactivate(o, m)
  \/ \E m \in Models : DriftCheck(o, m)
  \/ RecordRetraining(o)
  \/ Crash(o)

Next ==
  \/ \E o \in Operators : OperatorStep(o)
  \/ \E m \in Models : LoadScorer(m)
  \/ RestartService

Spec == Init /\ [][Next]_vars

-----------------------------------------------------------------------------
(* What must hold.                                                          *)

\* A flagged model has an "active" row, no other model was activated after it,
\* and it was neither retired nor judged drifted after it: the flag never says
\* more than the log, whichever commands run at once (sqlite_store.py:921).
ActiveIsRecorded ==
  \A m \in active : \E i \in RowsOf(m) :
    /\ log[i].state = "active"
    /\ \A j \in DOMAIN log : j > i =>
         /\ log[j].state # "active"
         /\ log[j].model = m => log[j].state \notin StandDownStates

\* Row i was decided on the counts of an earlier row of its model.
Cites(i, state) ==
  \E j \in 1..(i - 1) :
    /\ log[j].model = log[i].model /\ log[j].state = state
    /\ log[j].evidence = log[i].evidence

\* Every activation rests on counts that passed the gate, that an earlier row
\* records as the gate's verdict, and that were measured before the verdict:
\* the log "shows the measurement existing before the decision".
ActivationIsMeasured ==
  \A i \in DOMAIN log :
    /\ log[i].state = "active" => log[i].evidence \in Passing /\ Cites(i, "eligible")
    /\ log[i].state \in GateStates => Cites(i, "evaluated")

\* What scores events was activated at some time: no inactive model influences
\* a finding (scoring.py: "an inactive model has no scoring path at all").
InfluenceWasGranted ==
  scorer # None => \E i \in RowsOf(scorer) : log[i].state = "active"

\* A model is sent to retraining only after an assessment that found drift.
RetrainingHasCause ==
  \A i \in DOMAIN log : log[i].state = "retraining_required" =>
    \E j \in 1..(i - 1) :
      /\ log[j].model = log[i].model /\ log[j].evidence = "drift_detected"

-----------------------------------------------------------------------------
(* What the documentation says and the code does not keep.                  *)

\* sqlite_store.py:912: a model "activated and later retired cannot be
\* re-activated by re-asserting its old counts; it goes through the gate again".
RetiredStaysDown ==
  \A i, k \in DOMAIN log :
    (i < k /\ log[i].state \in StandDownStates
           /\ log[k].state = "active" /\ log[i].model = log[k].model)
      => \E j \in (i + 1)..(k - 1) :
           log[j].model = log[k].model /\ log[j].state = "eligible"

\* lifecycle.py:298: a drifted model "stops influencing findings as of this row".
StandDownSilences == scorer \in active \cup {None}

\* lifecycle.py:337: "the latest lifecycle row for one model".
CurrentIsLatest ==
  \A m \in Models : \A i \in RowsOf(m) : CurrentRow(i, m) => LatestRow(i, m)

\* lifecycle.py:241: retraining is "its own entry" whenever drift was detected.
DriftIsFollowedUp ==
  \A i \in DOMAIN log : log[i].evidence = "drift_detected" =>
    \/ \E o \in Operators : task[o].step = "retraining" /\ task[o].model = log[i].model
    \/ \E j \in DOMAIN log : j > i /\ log[j].model = log[i].model
                                   /\ log[j].state = "retraining_required"
=============================================================================
