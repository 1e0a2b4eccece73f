-------------------------- MODULE AnalysisPipeline --------------------------
(***************************************************************************)
(* DatabaseAnalysisPipeline (pipeline/live_ingestion.py) and its stages:   *)
(* the system-failure scorer, the behaviour analyzer, the detector, the    *)
(* explainer, the assistant and the policy engine.                         *)
(*                                                                         *)
(* The service builds one pipeline and hands it to the consumer threads of *)
(* all its collectors; only the scorer has a lock.  Every write to the     *)
(* database may raise: the exception leaves process(), _process_batch      *)
(* records it, and the batch is not tried again.  A stage is one step; the *)
(* scorer takes one step per window, and holds its lock between them.      *)
(* What a stage decides on one finding is FindingDecision's business.      *)
(*                                                                         *)
(* An event is a record: its kind, the time it happened, and               *)
(*   "health"  level: where each condition's reading lies, or "unknown"    *)
(*   "failed"  unit: the systemd unit that entered the failed state        *)
(*   "exec"    entities: its command and its uid; odd: whether its score   *)
(*             against the baseline reaches the detection threshold        *)
(* Identity stamps one host_id on all of them, so there is one host state. *)
(***************************************************************************)
EXTENDS Hysteresis, FiniteSetsExt, SequencesExt

CONSTANTS
  Consumers,      \* consumer threads, one per collector
  Batches,        \* the sets of events a consumer may hand over
  UnitOrder,      \* the systemd units, in the order sorted() gives them
  EntityOrder,    \* the commands and uids, likewise
  Width,          \* WINDOW_SECONDS
  LoopThreshold,  \* failure_crash_loop_threshold
  LoopWindow,     \* failure_crash_loop_window_seconds
  MaxCalls,       \* bound: calls of process()
  MaxRaises,      \* bound: database writes that raise
  MaxRestarts     \* bound: restarts of the service

ASSUME SettingsAssumption ==
  /\ Width \in Nat \ {0}
  /\ LoopThreshold \in Nat \ {0} /\ LoopWindow \in Nat
  /\ MaxCalls \in Nat /\ MaxRaises \in Nat /\ MaxRestarts \in Nat

VARIABLES
  \* the service process
  pc, batch, todo, found,  \* per consumer: stage, events, windows, findings
  lock,                    \* who holds the scorer's lock
  counters, failures,      \* _host_states and _service_state
  cached,                  \* _baseline_summary of the shared analyzer
  \* the database
  baseline,                \* whether there is a ready baseline
  risks,                   \* rows of behavior_risks
  alarms, findings,        \* detection_findings, by mode
  explained, answered, decided,
  \* history and bounds
  seen,       \* per condition: the readings its counter acted upon
  delivered,  \* events handed to process()
  unsaved,    \* alarms whose write raised
  broken,     \* findings of calls that did not end normally
  calls, raises, restarts

threads  == <<pc, batch, todo, found>>
scorer   == <<lock, counters, failures, seen>>
evidence == <<risks, alarms, findings, explained, answered, decided>>
history  == <<delivered, unsaved, broken>>
bounds   == <<calls, raises, restarts>>

vars == <<threads, scorer, cached, baseline, evidence, history, bounds>>

Nobody == "nobody"

Events == UNION Batches
Times  == {e.at : e \in Events}

WindowOf(e) == Width * (e.at \div Width)

\* A batch is a list, times are seconds of the epoch, and a finding about the host
\* is not one about a unit (entity_type).
ASSUME EventsAssumption ==
  /\ \A b \in Batches : IsFiniteSet(b)
  /\ \A e \in Events : e.at \in Nat

ASSUME NamesAssumption ==
  UnitOrder \in Seq(STRING) /\ "host" \notin Range(UnitOrder) /\ Nobody \notin Consumers

In(b, kind, w) == {e \in b : e.kind = kind /\ WindowOf(e) = w}

-----------------------------------------------------------------------------
(* The scorer                                                              *)

\* The conditions by the reading they are about, in the order of _score_host.
\* All conditions of a reading are observed; the first in force is reported.
Readings == << <<"disk_full">>,
               <<"memory_pressure_high", "memory_pressure_medium">>,
               <<"memory_available_low">>,
               <<"cpu_pressure_high">> >>

Conditions == UNION {Range(Readings[i]) : i \in DOMAIN Readings}

\* The places where a window's scoring writes a finding: readings, then units.
Places == 1..(Len(Readings) + Len(UnitOrder))
Unit(i) == UnitOrder[i - Len(Readings)]
IsReading(i) == i <= Len(Readings)

ASSUME LevelsAssumption ==
  \A e \in Events : e.kind = "health" => e.level \in [Conditions -> Levels \cup {"unknown"}]

Latest(es) == CHOOSE e \in es : \A o \in es : o.at <= e.at

\* A reading that is None is not observed at all.
Level(b, w, c) ==
  IF In(b, "health", w) = {} THEN "unknown"
  ELSE Latest(In(b, "health", w)).level[c]

Observed(b, w, c) ==
  IF Level(b, w, c) = "unknown" THEN counters[c]
  ELSE Observe(counters[c], Level(b, w, c), w)

Followed(b, w, c) ==
  IF Level(b, w, c) = "unknown" THEN seen[c]
  ELSE Heard(seen[c], counters[c], Level(b, w, c), w)

Failed(b, w, u) == {e \in In(b, "failed", w) : e.unit = u}

\* record_failure for each, then failure_count_in_window as of the latest.
Recorded(b, w, u) ==
  LET kept == Latest(Failed(b, w, u)).at - LoopWindow IN
  [t \in Times |-> IF t < kept THEN 0
                   ELSE failures[u][t] + Cardinality({e \in Failed(b, w, u) : e.at = t})]

Total(counts) == MapThenSumSet(LAMBDA t : counts[t], Times)

Alarm(w, entity, condition) ==
  [window |-> w, entity |-> entity, condition |-> condition]

InForce(b, w, c) == Level(b, w, c) # "unknown" /\ Observed(b, w, c).active

\* Mutant: a condition is reported when it comes into force, not while it is.
HostAlarmOnChange(b, w, i) ==
  {Alarm(w, "host", Readings[i][k]) : k \in
    {k \in DOMAIN Readings[i] : InForce(b, w, Readings[i][k]) /\ ~counters[Readings[i][k]].active}}

\* The first condition of the reading that is in force.
HostAlarm(b, w, i) ==
  {Alarm(w, "host", Readings[i][k]) : k \in
    {k \in DOMAIN Readings[i] : /\ InForce(b, w, Readings[i][k])
                               /\ \A j \in 1..(k - 1) : ~InForce(b, w, Readings[i][j])}}

UnitAlarm(b, w, u) ==
  IF Failed(b, w, u) = {} THEN {}
  ELSE {Alarm(w, u, IF Total(Recorded(b, w, u)) >= LoopThreshold
                    THEN "service_crash_loop" ELSE "service_unit_failed")}

AlarmAt(b, w, i) == IF IsReading(i) THEN HostAlarm(b, w, i) ELSE UnitAlarm(b, w, Unit(i))

\* Window w of batch b is scored up to place i: what came before i is stored.
ScoreUpTo(b, w, i) ==
  /\ counters' = [c \in Conditions |->
       IF \E j \in DOMAIN Readings : j <= i /\ c \in Range(Readings[j])
       THEN Observed(b, w, c) ELSE counters[c]]
  /\ seen' = [c \in Conditions |->
       IF \E j \in DOMAIN Readings : j <= i /\ c \in Range(Readings[j])
       THEN Followed(b, w, c) ELSE seen[c]]
  /\ failures' = [u \in Range(UnitOrder) |->
       IF Failed(b, w, u) # {} /\ \E j \in Places : ~IsReading(j) /\ j <= i /\ Unit(j) = u
       THEN Recorded(b, w, u) ELSE failures[u]]
  /\ alarms' = alarms \cup UNION {AlarmAt(b, w, j) : j \in {k \in Places : k < i}}

-----------------------------------------------------------------------------
(* The behaviour stages                                                    *)

Key(f) == [window |-> f.window, entity |-> f.entity, total |-> f.total, own |-> f.own]
Keys(s) == {Key(s[i]) : i \in DOMAIN s}

Windows(b, kinds) == {WindowOf(e) : e \in {x \in b : x.kind \in kinds}}

\* A risk: an entity with an odd execution in a window of this batch.  What the
\* evidence holds of the window is what this batch has of it.
Risk(b, w, n) ==
  [window |-> w, entity |-> n, total |-> Cardinality(In(b, "exec", w)),
   own |-> Cardinality({e \in In(b, "exec", w) : n \in e.entities})]

Risks(b) ==
  UNION {{Risk(b, WindowOf(e), n) : n \in e.entities} : e \in {x \in b : x.kind = "exec" /\ x.odd}}

\* _assign_correlation: the first window of the run of adjacent windows.
Anchor(ws, w) ==
  CHOOSE a \in ws :
    /\ a <= w /\ (a - Width) \notin ws
    /\ \A v \in a..w : v % Width = 0 => v \in ws

Before(f, g) ==
  \/ f.window < g.window
  \/ /\ f.window = g.window
     /\ \E i, j \in DOMAIN EntityOrder :
          i < j /\ EntityOrder[i] = f.entity /\ EntityOrder[j] = g.entity

Ordered(rs) == SetToSortSeq(rs, Before)

Detected(rs) ==
  LET ws(n) == {r.window : r \in {x \in rs : x.entity = n}} IN
  Ordered({r @@ [anchor |-> Anchor(ws(r.entity), r.window)] : r \in rs})

\* write_detection_finding: the provenance hash leaves the correlation out.
Stored(fs) ==
  findings \cup {f \in Range(fs) : \A g \in findings : Key(g) # Key(f)}

-----------------------------------------------------------------------------
\* The tables of the analysis, before the first batch.
EmptyTables ==
  /\ risks = {} /\ alarms = {} /\ findings = {}
  /\ explained = {} /\ answered = {} /\ decided = {}

Init ==
  /\ pc = [t \in Consumers |-> "idle"]
  /\ batch = [t \in Consumers |-> {}]
  /\ todo = [t \in Consumers |-> {}]
  /\ found = [t \in Consumers |-> <<>>]
  /\ lock = Nobody
  /\ counters = [c \in Conditions |-> Fresh]
  /\ failures = [u \in Range(UnitOrder) |-> [t \in Times |-> 0]]
  /\ cached = FALSE
  /\ baseline \in BOOLEAN
  /\ EmptyTables
  /\ seen = [c \in Conditions |-> <<>>]
  /\ delivered = {} /\ unsaved = {} /\ broken = {}
  /\ calls = 0 /\ raises = 0 /\ restarts = 0

At(t, stage) == pc[t] = stage

GoTo(t, stage) == pc' = [pc EXCEPT ![t] = stage]

\* process() ends, by a return or by an exception: nothing of it is kept.
Forget(t) ==
  /\ GoTo(t, "idle")
  /\ batch' = [batch EXCEPT ![t] = {}]
  /\ todo' = [todo EXCEPT ![t] = {}]
  /\ found' = [found EXCEPT ![t] = <<>>]

\* keys: the findings of this call that are in the database.
Raise(t, keys) ==
  /\ raises < MaxRaises
  /\ raises' = raises + 1
  /\ broken' = broken \cup keys
  /\ Forget(t)
  /\ UNCHANGED <<delivered, calls, restarts>>

Proceed(t, stage) ==
  /\ GoTo(t, stage)
  /\ UNCHANGED <<batch, todo, delivered, broken, bounds>>

Process(t, b) ==
  /\ At(t, "idle") /\ calls < MaxCalls
  /\ GoTo(t, "enter")
  /\ batch' = [batch EXCEPT ![t] = b]
  /\ todo' = [todo EXCEPT ![t] = Windows(b, {"health", "failed"})]
  /\ delivered' = delivered \cup b
  /\ calls' = calls + 1
  /\ UNCHANGED <<found, scorer, cached, baseline, evidence, unsaved, broken, raises, restarts>>

EnterScorer(t) ==
  /\ At(t, "enter") /\ lock = Nobody
  /\ lock' = t
  /\ Proceed(t, "score")
  /\ UNCHANGED <<found, counters, failures, seen, cached, baseline, evidence, unsaved>>

ScoreWindow(t) ==
  /\ At(t, "score") /\ todo[t] # {}
  /\ LET w == Min(todo[t]) IN
       /\ ScoreUpTo(batch[t], w, Len(Readings) + Len(UnitOrder) + 1)
       /\ todo' = [todo EXCEPT ![t] = @ \ {w}]
  /\ UNCHANGED <<pc, batch, found, lock, cached, baseline, risks, findings, explained,
                 answered, decided, history, bounds>>

\* write_detection_finding raises: the counters have moved, and the lock is let go.
ScoreRaises(t) ==
  /\ At(t, "score") /\ todo[t] # {}
  /\ LET w == Min(todo[t]) IN
       \E i \in Places :
         /\ AlarmAt(batch[t], w, i) # {}
         /\ ScoreUpTo(batch[t], w, i)
         /\ unsaved' = unsaved \cup AlarmAt(batch[t], w, i)
  /\ lock' = Nobody
  /\ Raise(t, {})
  /\ UNCHANGED <<cached, baseline, risks, findings, explained, answered, decided>>

LeaveScorer(t) ==
  /\ At(t, "score") /\ todo[t] = {}
  /\ lock' = Nobody
  /\ Proceed(t, "monitor")
  /\ UNCHANGED <<found, counters, failures, seen, cached, baseline, evidence, unsaved>>

\* A loaded baseline is kept for the life of the process.
LoadBaseline == cached' = (cached \/ baseline)

NothingToReport(t) ==
  /\ At(t, "monitor")
  /\ LoadBaseline
  /\ ~cached' \/ Risks(batch[t]) = {}
  /\ Forget(t)
  /\ UNCHANGED <<scorer, baseline, evidence, history, bounds>>

\* Rows of behavior_risks, by what they say: nothing dedups them.
WriteRisks(rs) == risks' = risks \cup Range(rs)

\* What of s comes before one of its elements: what was written when a write raises.
ProperPrefixes(s) == {[i \in {j \in DOMAIN s : j < n} |-> s[i]] : n \in DOMAIN s}

Monitor(t) ==
  /\ At(t, "monitor")
  /\ LoadBaseline
  /\ cached' /\ Risks(batch[t]) # {}
  /\ WriteRisks(Ordered(Risks(batch[t])))
  /\ Proceed(t, "detect")
  /\ UNCHANGED <<found, scorer, baseline, alarms, findings, explained, answered, decided, unsaved>>

MonitorRaises(t) ==
  /\ At(t, "monitor")
  /\ LoadBaseline
  /\ cached'
  /\ \E written \in ProperPrefixes(Ordered(Risks(batch[t]))) : WriteRisks(written)
  /\ Raise(t, {})
  /\ UNCHANGED <<scorer, baseline, alarms, findings, explained, answered, decided, unsaved>>

Detect(t) ==
  /\ At(t, "detect")
  /\ findings' = Stored(Detected(Risks(batch[t])))
  /\ found' = [found EXCEPT ![t] = Detected(Risks(batch[t]))]
  /\ Proceed(t, "explain")
  /\ UNCHANGED <<scorer, cached, baseline, risks, alarms, explained, answered, decided, unsaved>>

DetectRaises(t) ==
  /\ At(t, "detect")
  /\ \E written \in ProperPrefixes(Detected(Risks(batch[t]))) :
       /\ findings' = Stored(written)
       /\ Raise(t, Keys(written))
  /\ UNCHANGED <<scorer, cached, baseline, risks, alarms, explained, answered, decided, unsaved>>

\* Mutant: an UPDATE without the INSERT.
OnlyUpdated(fs) ==
  {x \in explained : Key(x) \notin Keys(fs)}
    \cup {f \in Range(fs) : \E x \in explained : Key(x) = Key(f)}

\* write_explanation and write_assistant_response replace the row of a finding.
Explained(fs) ==
  {x \in explained : Key(x) \notin Keys(fs)} \cup Range(fs)

Explain(t) ==
  /\ At(t, "explain")
  /\ explained' = Explained(found[t])
  /\ Proceed(t, "assist")
  /\ UNCHANGED <<found, scorer, cached, baseline, risks, alarms, findings, answered, decided, unsaved>>

ExplainRaises(t) ==
  /\ At(t, "explain")
  /\ \E written \in ProperPrefixes(found[t]) : explained' = Explained(written)
  /\ Raise(t, Keys(found[t]))
  /\ UNCHANGED <<scorer, cached, baseline, risks, alarms, findings, answered, decided, unsaved>>

Assist(t) ==
  /\ At(t, "assist")
  /\ answered' = answered \cup Keys(found[t])
  /\ Proceed(t, "decide")
  /\ UNCHANGED <<found, scorer, cached, baseline, risks, alarms, findings, explained, decided, unsaved>>

AssistRaises(t) ==
  /\ At(t, "assist")
  /\ \E written \in ProperPrefixes(found[t]) : answered' = answered \cup Keys(written)
  /\ Raise(t, Keys(found[t]))
  /\ UNCHANGED <<scorer, cached, baseline, risks, alarms, findings, explained, decided, unsaved>>

\* evaluate_all: a row of policy_decisions per finding; which findings have one.
Decide(t) ==
  /\ At(t, "decide")
  /\ decided' = decided \cup Keys(found[t])
  /\ Forget(t)
  /\ UNCHANGED <<scorer, cached, baseline, risks, alarms, findings, explained, answered,
                 history, bounds>>

DecideRaises(t) ==
  /\ At(t, "decide")
  /\ \E written \in ProperPrefixes(found[t]) : decided' = decided \cup Keys(written)
  /\ Raise(t, Keys(found[t]))
  /\ UNCHANGED <<scorer, cached, baseline, risks, alarms, findings, explained, answered, unsaved>>

-----------------------------------------------------------------------------
(* Outside the pipeline                                                    *)

\* learn_normal with enough verified events, in the process of an operator.
LearnNormal ==
  /\ ~baseline /\ baseline' = TRUE
  /\ UNCHANGED <<threads, scorer, cached, evidence, history, bounds>>

\* The service restarts: what is in memory is gone, the database is not.
Restart ==
  /\ restarts < MaxRestarts
  /\ restarts' = restarts + 1
  /\ broken' = broken \cup UNION {Keys(found[t]) : t \in Consumers}
  /\ pc' = [t \in Consumers |-> "idle"]
  /\ batch' = [t \in Consumers |-> {}]
  /\ todo' = [t \in Consumers |-> {}]
  /\ found' = [t \in Consumers |-> <<>>]
  /\ lock' = Nobody
  /\ counters' = [c \in Conditions |-> Fresh]
  /\ failures' = [u \in Range(UnitOrder) |-> [x \in Times |-> 0]]
  /\ seen' = [c \in Conditions |-> <<>>]
  /\ cached' = FALSE
  /\ UNCHANGED <<baseline, evidence, delivered, unsaved, calls, raises>>

Finished ==
  /\ calls = MaxCalls /\ \A t \in Consumers : At(t, "idle")
  /\ UNCHANGED vars

Next ==
  \/ \E t \in Consumers :
       \/ \E b \in Batches : Process(t, b)
       \/ EnterScorer(t) \/ ScoreWindow(t) \/ ScoreRaises(t) \/ LeaveScorer(t)
       \/ NothingToReport(t) \/ Monitor(t) \/ MonitorRaises(t)
       \/ Detect(t) \/ DetectRaises(t) \/ Explain(t) \/ ExplainRaises(t)
       \/ Assist(t) \/ AssistRaises(t) \/ Decide(t) \/ DecideRaises(t)
  \/ LearnNormal \/ Restart \/ Finished

Spec == Init /\ [][Next]_vars

-----------------------------------------------------------------------------
(* Properties                                                              *)

Stages == {"idle", "enter", "score", "monitor", "detect", "explain", "assist", "decide"}

\* The scorer is one thread's at a time.
ThreadsOK ==
  /\ pc \in [Consumers -> Stages]
  /\ batch \in [Consumers -> Batches \cup {{}}]
  /\ todo \in [Consumers -> SUBSET {WindowOf(e) : e \in Events}]
  /\ DOMAIN found = Consumers
  /\ lock \in Consumers \cup {Nobody}
  /\ \A t \in Consumers : At(t, "score") <=> lock = t

TypeOK ==
  /\ ThreadsOK
  /\ counters \in [Conditions -> CounterType] /\ seen \in [Conditions -> Seq(Levels)]
  /\ failures \in [Range(UnitOrder) -> [Times -> Nat]]
  /\ cached \in BOOLEAN /\ baseline \in BOOLEAN

\* The alarm of every condition, in all interleavings of the collectors'
\* threads and of failed writes, is what the readings that counted say.
ActiveExactly == \A c \in Conditions : counters[c].active <=> Raised(seen[c])

\* A condition in force has its finding in the database for the last window
\* it was observed in, or the write of that finding raised; memory pressure
\* that is high is not reported as medium too.
InForceIsStored ==
  \A c \in Conditions : Raised(seen[c]) =>
    LET w == counters[c].last
        reported == alarms \cup unsaved
    IN \/ Alarm(w, "host", c) \in reported
       \/ /\ c = "memory_pressure_medium"
          /\ Alarm(w, "host", "memory_pressure_high") \in reported

\* A host finding rests on bad readings from enough different windows: not on
\* one window that came in many batches, nor on readings in the dead band.
SustainedOnly ==
  \A a \in alarms : a.entity = "host" =>
    Cardinality({WindowOf(e) : e \in {x \in delivered :
      x.kind = "health" /\ x.level[a.condition] = "high"}}) >= BreachNeeded

\* Policy decides only what has been explained and answered, and a finding
\* that is not decided is still on its way or belongs to a call that failed.
DispositionComplete ==
  /\ decided \subseteq answered \cap {Key(f) : f \in explained}
  /\ {Key(f) : f \in findings} \subseteq
       decided \cup broken \cup UNION {Keys(found[t]) : t \in Consumers}

\* A crash loop is that many failures of the unit, no further apart than the
\* lookback.
CrashLoopIsReal ==
  \A a \in alarms : a.condition = "service_crash_loop" =>
    \E es \in SUBSET {e \in delivered : e.kind = "failed" /\ e.unit = a.entity} :
      /\ Cardinality(es) >= LoopThreshold
      /\ \A e, o \in es : e.at - o.at <= LoopWindow

\* One finding per unit and window.
OneFindingPerUnit ==
  \A a, o \in alarms :
    a.entity # "host" /\ a.entity = o.entity /\ a.window = o.window => a = o
=============================================================================
