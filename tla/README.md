# A formal model of the XAI security assistant

TLA+ modules for the parts of this repository in which threads, processes, locks,
files and the database interact, and for the decisions they carry out; TLC
configurations that check them on small instances; and TLAPS proofs of the
properties that matter most. Paths are relative to the repository root.
`PROJECT.json` has the map from every definition to the lines it stands for, the
list of hazards, and for each checked property a mutant of the code that breaks it.

## 1. The system and its parts

Collectors (eBPF probes, journald readers, an audit reader) run as child processes
and print one JSON record per line. `pipeline/service.py` runs one supervisor
thread per collector; a supervisor runs a `LiveIngestionService`, which reads the
child, normalizes records, batches them into SQLite, and hands what was committed
to one analysis pipeline that all collectors share (system-failure scoring,
baseline, rules and model, explanation, assistant, policy). Findings, policy
decisions, triage annotations and model-lifecycle entries go into hash-chained
append-only tables. A maintenance thread keeps the events table within an age and
a size limit and turns what it reads of the database into alerts. The API is
another process on the same file. Beside the service, operators collect captures,
promote them into datasets, train and measure models, activate and retire them;
each command is a process of its own on the same database.

| part | state it keeps | operations | hard behaviour |
|---|---|---|---|
| Live ingestion (`pipeline/live_ingestion.py`, `quarantine.py`) | bounded queue, batch, health record, stop events, child, quarantine directory | `run`, `start`, `stop`, `_produce`, `_consume`, `_flush`, `_persist_health`, `store` | four threads, a full queue, failing writes, stop at any moment, a second run |
| Supervision (`pipeline/supervisor.py`) | state, restart policy, current service, stop flag | `run`, `_run_once`, `stop`, `record_failure` | a stop that races with the construction of the service; crash loops against growing backoff |
| Evidence chains (`storage/sqlite_store.py`, `evidence_chain.py`, `migrations.py`) | four chained tables, `_chain_lock` per process, SQLite's write lock | the `write_*` calls, `_extend_chain`, `verify_chain`, `_backfill_chain`, `migrate` | threads of several processes, crash and power loss, migration by two processes at once |
| Retention (`storage/retention.py`, `vacuum`, the deletes) | events, file and log size, last vacuum, maintenance log | `maybe_run`, `run_once`, `_enforce_size_cap`, `_maybe_vacuum` | two runners, open readers, calls that raise between a deletion and its log row |
| Journal collectors (`telemetry/journald`) | cursor file, cursor not saved yet, the journalctl child | `run`, `read`, `_consume`, `_checkpoint`, `_finish`, signal handlers | a crash between printing and checkpoint, a cursor that does not resolve, a journal that changes |
| Analysis (`DatabaseAnalysisPipeline`, `detection/system_failure.py`, `baseline`) | hysteresis counters, crash-loop times, cached baseline, rows of each stage | `process`, `score_batch`, `analyze`, `detect` | consumer threads of several collectors in one pipeline, late and repeated windows, a stage that raises, a restart |
| Decision on a finding (`detection/detector.py`, `rules.py`, `explainability`, `assistant`, `policy`) | none between findings | scoring, fusion, reconciliation, narration, policy selection | thresholds, rounding, terms two components look for |
| Model lifecycle (`ml/lifecycle.py`, `artifact.py`, `scoring.py`, scripts) | `ml_models` with its flag, chained log, artifact files, the loaded scorer | train, calibrate, evaluate, gate, activate, retire, assess drift | two operators at once, a crash between two transactions, a decision on state read before |
| Training corpus (`scripts/collect_normal_window.py`, `verify_capture_boot.py`, `ml_train_and_evaluate.py`) | datasets, windows with their hash | inspect, promote, train, measure | two promotions at once, a promotion or an edit in the middle of a run, two databases |
| Measures (`ml/drift.py`, `ml/evaluation.py`) | none | exact KS test, Holm step-down, calibration, gate | ties, smallest samples, budgets, integer and rational boundaries |
| Service process and alerts (`pipeline/service.py`, `observability`) | stop events, supervisors' states and rows, one health row, alerts in force | `start`, `stop`, `run`, handler, `_maintenance_loop`, `evaluate`, `report` | a signal while supervisors are started, failing reads, one row for all collectors |
| Loss accounting, audit collector, normalization, API, dashboard, scripts, simulation | counters of one thread or nothing | reading, parsing and rendering | see section 5 |

What makes each part correct:

* **ingestion**: no record disappears without a counter; analysis sees committed
  events only; a failure is not reported as a clean end; a stop ends the run.
* **supervision**: a requested stop ends the supervision and is never a failure;
  degraded exactly when the failures in a window say so; no endless restarting of
  a collector that never works.
* **chains**: one unbroken chain, whoever writes at the same time and wherever a
  process dies; a returned row id is that of the caller's finding; tampering with
  history is noticed; no deadlock between the two locks.
* **retention**: nothing within the limits is deleted, what is beyond them is, and
  the log accounts for every deletion.
* **journal**: the saved cursor is past nothing that was neither printed nor reported;
  a crash costs a bounded re-read; no cursor stops the reading for good.
* **analysis**: an alarm is in force exactly when the readings that counted say so,
  whichever thread brought them; it rests on sustained readings; each finding ends
  explained, answered and decided, or in a batch whose failure was recorded.
* **decision**: what is stored can be recomputed; what the explanation says of a rule
  is what the rule did; advice to act reaches nobody unreviewed.
* **lifecycle**: the flag never says more than the log; an activation rests on a
  measurement recorded before it.
* **corpus**: within a database, no session that windows are attributed to is both
  trained on and measured (windows of several sessions or of none, and windows in two
  databases, escape: section 3); no session has two holdout windows in a dataset; a model
  is trained on what was promoted.
* **measures**: p-values are those of the null, the family-wise error is kept, "no
  drift" is said only by a test that could have found some.
* **service**: no collector outlives the process untold; what is broken is reported in
  the end, and what is reported is broken.

## 2. Modules

| module | what it is |
|---|---|
| `LiveIngestion`, `MCLiveIngestion`, `LiveIngestionProofs` | the service of one collector, its source and its quarantine: four threads with a program counter each |
| `SourceSupervisor`, `MCSourceSupervisor`, `SourceSupervisorProofs` | one supervisor, its restart policy and a caller of `stop()` |
| `EvidenceChain` | one chained table, its writers in several processes, migration, crash, power loss |
| `AppendOnlyLog` | what such a table promises: an append-only log that loses only what was not durable |
| `ChainVerification` | `verify_chain` and the ways to tamper with a table |
| `MCEvidenceChain`, `EvidenceChainProofs` | instances; types, integrity, refinement of `AppendOnlyLog`, answers, evidence of tampering |
| `Retention`, `MCRetention` | the passes of `RetentionManager` by the service and by a one-shot process |
| `JournalCursor`, `MCJournalCursor`, `JournalCursorProofs` | a journal collector with its cursor file and its journalctl child, between the journal and the ingestion service |
| `Hysteresis` | one hysteresis counter with its dead band, as operators on its value and the readings it heard |
| `AnalysisPipeline`, `MCAnalysisPipeline` | the shared pipeline, one hysteresis counter per monitored condition |
| `FindingDecision`, `MCFindingDecision` | rules, fusion, explanation, narration and policy for one finding |
| `AnalysisProofs` | theorems about the counter, the pipeline and the decision |
| `ModelLifecycle`, `MCModelLifecycle` | operators' commands over models, log and files, and the scorer of a service |
| `TrainingCorpus`, `MCTrainingCorpus`, `TrainingCorpusProofs` | captures, promotions, edited rows, and the run that trains and measures |
| `ModelMeasures`, `MCModelMeasures` | drift test, step-down, calibration and gate as operators over samples |
| `ModelProofs` | theorems about the lifecycle and about the measures |
| `ServiceHealth`, `MCServiceHealth` | main thread, signal handler, supervisors' states, maintenance thread, alerts |
| `ServiceHealthProofs` | theorems about the service process and about the retention it runs |

Where components meet, the one model keeps of the other what can be seen from it,
and says so at the actions concerned. `SourceSupervisor` keeps of `LiveIngestion`
whether the service runs, was told to stop, failed. `JournalCursor` keeps a pipe
that is read, is no longer read from a stop on, and is gone after a crash.
`LiveIngestion` keeps of `AnalysisPipeline` a call that may raise, and
`AnalysisPipeline` of `FindingDecision` that a finding has a severity and a fate.
`ServiceHealth` keeps how the life of a collector ends. `ModelLifecycle` keeps of
`ModelMeasures` and `TrainingCorpus` the counts a measurement comes to.
`AnalysisPipeline` *is* composed of `Hysteresis` counters: it extends the module and
keeps one of its values per condition, so that what is proved of `Observe` is about
the counters used.

### LiveIngestion

`runner`, `stopper`, `producer` and `consumer` are the program counters of `run()`,
a caller of `stop()`, `_produce` (with the source's iterator) and `_consume`. A step
ends where another thread can first observe it: a queue operation, an `Event`, a
section under `_health_lock`, a call into the store, the child process.
`health` is `CollectorHealth` without gauges; `row` the status in
`collector_runtime`; `runSnap` and `stopperSnap` are the copies `_persist_health`
takes under the lock and writes outside it. `_flush` (with the per-event fallback
of the writer, the quarantine and its cap) is one step, because the consumer alone
sees its parts. Records are event identities or one of four kinds that are not
storable. `offered`, `discarded` and `analysed` are history variables.

### SourceSupervisor

The run thread (`sup`) and one caller of `stop()` interleave at the reads and
writes of `_stop`, `_service` and the service's own stop request. The service is
reduced to what the supervisor can see. Time is kept as ages and remaining waits,
so that the clock is unbounded and the states are not. `_trim` is the loop it is:
what is taken is the oldest entries up to the first that is young enough
(`Outlived`), which is the same as filtering only because the ages are in order.
`history` keeps, beside the policy's own memory, every failure of the last window
and whether it came after a healthy run.

### EvidenceChain, AppendOnlyLog, ChainVerification

`rows` is the committed table, `draft` the table as the only open write
transaction sees it, `pc` where each writer is between taking `_chain_lock` and
releasing it, `phase` how far each process is with opening its store. The two
locks are held from one program point to another, so they are predicates over the
program counters. A digest is the history it commits to, which is what
collision-freedom of SHA-256 means. `durable` is what the last checkpoint wrote:
`synchronous=NORMAL` under WAL loses at power loss the commits since then, from the
latest on. `AppendOnlyLog` is the abstract specification; the refinement mapping
reads a row as its entry and takes the durable prefix from `durable`.
`ChainVerification` gives `verify_chain` as an operator on a table in id order (a row's
`Place` is the number of rows before it) and five families of
tampering: edit, removal, removal with renumbering and relinking, exchange, and
insertion. Removing the *newest* rows is outside them: `verify_chain` keeps no
record of where the chain ended and accepts any prefix.

### Retention

Space is counted in the room of one event. `pages` is the size of the database,
`main` and `wal` the sizes of its two files: a deletion frees pages, a `VACUUM`
rewrites the database through the log, and the checkpoint waits for readers. A
pass is the sequence age batches, analytics, first measure, up to eight rounds of
estimate/delete/vacuum/measure, scheduled vacuum, log rows; `Fail` is a call that
raises or a process that dies. Events age only between passes, since a pass takes
seconds and the limit is days. What a pass has deleted and what the log says it
deleted are counted by runner, since passes of two processes overlap.

### JournalCursor

`pc` is the place of the collector in `run()`, `read()` and `_consume`. A cursor is
the number of its entry; `next` is where journalctl goes on, `journalctl` whether
that child has been started and still lives. `file` is the cursor file, `pending`
and `saved` the two cursors `_checkpoint` compares, and `since` the time since the
last checkpoint. The journal is a sequence of kinds of entries, with the oldest one
left (`first`), the end of an earlier journal (`rebuilt`) and of what is older than
the `--since` window (`old`). The service is reduced to pipe, queue with batch
(`held`) and database (`stored`). `emitted`, `reported` and `agedOut` are history
variables: printed, named in a notice as not read, taken by a vacuum. The journal
loses entries between two collectors only, or, with `"atOpen"`, between the look at
the cursor and the start of the stream. `--no-follow`, the bounded stderr buffer and
what journalctl has buffered itself when it dies are left out.

### Hysteresis and AnalysisPipeline

A reading is `"high"`, `"low"` or in the dead `"band"`, where the state decides;
`Observe` is `_HysteresisCounter.observe` with the breach test in front of it.
`AnalysisPipeline` runs `process()` for each consumer thread, a stage a step: score
(one step per window, under the scorer's lock), monitor, detect, explain, assist,
decide. Units and entities are strings, a reading may be unknown, and every write may raise, which ends the call and keeps what was written.
Events arrive in batches that the threads take in any order, so windows come late
and come twice; a restart forgets the counters and the cached baseline and keeps the
tables. `seen` (the readings a counter acted upon), `delivered`, `unsaved` and
`broken` are history variables. The scores of `FindingDecision` are here attributes
of the events.

### FindingDecision

Scores are integers: four decimals are *points*, the fused score and the model's
are kept in a thousandth of one, so that Python's rounding of the fused value is a
rounding of integers and what is lost in it is visible. The stages follow one
finding: the rules of the catalog with their thresholds, the two fusions and the
severity (taken from the unrounded score), the reconciliation in the explainer
(which raises if the rounded components do not add up to the stored score), the
narration or the fallback, and the selection and the advisory check of the policy.

### ModelLifecycle

`stored`, `active` and `log` are the tables, `files` the two files of an artifact,
`scorer` what the detection service has loaded. A command is a process whose `task`
says which transaction comes next; another command may run between any two, and
`Crash` ends a command anywhere. Reads that the code does outside the write
transaction are steps of their own; reads and writes within one are one step.
`read_ml_lifecycle` sees the newest `ReadLimit` rows only. Scores are abstracted to
what a measurement comes to (`Counts`), and the gate to which of them pass.

### TrainingCorpus

A window is its content, the boots and sessions of its events and the role it was
promoted with. A promotion is check, dataset, window, each a transaction; a run is
preflight, training, measurement, which read the database anew where the code does.
A row can be edited out of band at any moment. `models` keeps which windows the last
measured model was trained and measured on.

What is claimed of the two sides is what the code looks at. A window is attributed to a
session only if its rows carry exactly one pair of boot and session, a promotion
compares attributed windows, and only with those of the database it writes to.
`AttributedSessionsHeldOut` says just that, over any `StoreOf`; what a reader would
expect, `NoSessionIsOnBothSides`, is refuted for captures of two sessions
(`MCCorpusSides`) and for the documented workflow with two databases (`MCCorpusGaps`).

### ModelMeasures

Every state is a pair of samples; the operators are those of `drift.py` and
`evaluation.py`. p-values of an assessment share a denominator and are represented by
their numerators, so comparisons with alpha are exact. The loop over rows of
`_exact_two_sided_p` is a recursion over the cells of the lattice (`Paths`), with the
cells outside the band blocked; `comb` is the same count with none blocked. The
reference definitions they are checked against are of another kind: counting
orderings for the lattice recursion, the closed testing procedure for the step-down.
The calibration is the loop of `evaluation.py:242-256`: it walks the sorted scores down
from the highest place, passes over a score equal to the one above it, and takes the
first whose place is within the budget; it is checked against the windows the returned
threshold flags.

### ServiceHealth

The main thread from the installation of the handlers to the return, a signal at any
point, one supervisor per collector with its status in memory and its row, and the
maintenance thread with the reads of its snapshot, each of which may fail. The one
`collector_runtime` row that all collectors write is `health`.

## 3. Runs

Passing runs (TLC finishes without an error):

| run | distinct states | properties | what it shows |
|---|---|---|---|
| `MCIngestion` | 1.8 M | `Conservation`, `AnalysedStored`, `CountersMatchRows`, `RunEnds` | an event and every other kind of record, a queue of one, a fault and a `stop()` anywhere: every record is in exactly one place, analysis sees committed events, counters agree with the table, and once the child is gone `run()` returns |
| `MCSupervisor` | 7.7 k | `DegradedExactly`, `StopIsNotAFailure`, `StopBeforeService`, `GivenUp` | two stops at any moment, any endings: a stop is final and no failure; degraded exactly when `Threshold` failures fall into a window |
| `MCChain` | 55 k | `ChainIntact`, `AnswerIsStored`, `TamperEvident`, `ImplementsLog`, `CallReturns` | three writers in two processes over an old table, a migration, a crash or power loss: one chain, the log refined, every call returns, and what is tampered with fails verification |
| `MCRetention` | 1.5 M | `EveryActionLogged`, `KeepsTarget`, `BudgetComesBack` | failures, readers, growing evidence: while no call has raised, every deletion is in the log, the size cap stops at its target, the size comes back under the cap |
| `MCJournal` | 0.33 M | `NoSilentGap`, `RereadBounded`, `EveryEventRead` | a vacuum or rebuild, a failing call or a kill, a stop or crash of the service: no silent gap, a bounded re-read, every event read or reported |
| `MCAnalysis` | 0.40 M | `ActiveExactly`, `InForceIsStored`, `SustainedOnly`, `DispositionComplete` | two threads share the pipeline, batches in any order, a write that raises, a restart: alarms are what the readings say, rest on enough windows and are stored; no finding stays half-way unnoticed |
| `MCDecision` | 53 k | `ReconcilesWithoutModel`, `BoundariesExplain`, `ControlAdviceIsReviewed` | risks on both sides of every threshold and severity, with and without a model: stored scores can be recomputed while no model takes part, and boundaries, advice and policy agree |
| `MCLifecycle` | 2.3 M | `ActiveIsRecorded`, `ActivationIsMeasured` | two operators train, measure, activate, retire and assess drift at once, any command dying anywhere |
| `MCCorpus` | 1.6 M | `AttributedSessionsHeldOut`, `HoldoutPromotedOnce`, `VerifiedIsPromotable`, `TrainedAsPromoted` | one promotion at a time into one database, and an edit, between the steps of a run: sessions that windows are attributed to stay on one side, what is trained on is what was promoted |
| `MCMeasures` | 14 k | `PValuesAreExact`, `HolmControlsTheFamily`, `NoDriftHadPower`, `CalibrationIsTight`, `GateIsStrict` | all pairs of small samples over five windows, ties included, against the reference definitions |
| `MCHealth` | 0.77 M | `CollectorsToldToStop`, `ServiceEnds`, `AlertsCatchUp` | a signal at any moment, a failing read or state write, collectors that are given up on, tampering: nobody is left untold, the service ends, what lasts is reported |

One run finds what the README promises refuted by the code (`findings` in
`PROJECT.json` quotes both):

* `MCTailLoss`: `queue.get` times out, the producer enqueues its last event and
  sets `_producer_done`, the consumer sees the flag and leaves. The event is in no
  counter, and the run reports a clean stop.

### Further counterexamples

Claims of comments and documents that some interleaving refutes have configurations
beside the runs. TLC stops at the first of them; to see another, leave one line of
`INVARIANTS` or `PROPERTIES` in, e.g. `tlc -config MCIngestionGaps.cfg MCLiveIngestion`.

| cfg (module) | property | what happens |
|---|---|---|
| `MCIngestionGaps` (`MCLiveIngestion`) | `StopSurvivesStart` | `stop()` between `start()`'s test of `_stop_requested` and its `clear()` is erased |
| | `RequestedStopIsClean` | the iterator clears `_closed` between the two halves of `close()`; the requested end is a failure |
| | `ConsumerServes` | a second `run()` of the same object meets the end marker of the first |
| | `TerminalRowKept` | `stop()` writes the status "stopping" it captured earlier over the final row |
| | `StopEndsRun` | a collector that stays silent is never asked again whether a stop came |
| `MCIngestionFaults` | `QuarantinedOnDisk` | a batch the quarantine refuses is counted as held |
| | `ConsumerServes` | the consumer's own health write raises and ends it; what follows is dropped (and counted) |
| `MCSupervisorGaps` (`MCSourceSupervisor`) | `BackoffComesBack` | a stop between the end of the wait and the loop's condition leaves the status "backoff" for good |
| | `StopBeforeService` | with a silent collector: the stop is passed on, but the child is started and the stop looked at after a line only |
| `MCChainReadOrder` (`MCEvidenceChain`) | `ReadInChainOrder` | timestamps are taken before the chain lock, so "timestamp order, which is chain order" is not |
| `MCRetentionOverlap` (`MCRetention`) | `OverlapIsSafe` | the retention lock is released before the pass, and is not shared with the timer's process |
| | `SizeIsTheBackstop` | pages that pruning by age has just freed still count in the measured size, so the cap deletes events within both limits (`retention.py:18-19` against `:250`; `docs/SCALE_RESULTS.md:110` shows such a pass: a cap of 69.3 MB, 28.2 MB left) |
| `MCRetentionReader` | `ReaderOnlyDefers` | a reader keeps the files long; every round deletes again |
| `MCJournalGaps` (`MCJournalCursor`) | `NothingSkipped` | the cursor is saved once an event is in the pipe; what the service has not stored when it ends is behind it and skipped (`journal_stream.py:38-40`) |
| | `LossReported` | the cursor's entry was vacuumed: the query resolves to the next entry left, and the gap is reported by nobody (`README.md:709`) |
| | `NoBlackout` | the journal is rebuilt between the look at the cursor and the start of the stream: the stream stays silent |
| | `StopEndsCollector` | SIGTERM before journalctl is started terminates nothing; `_finish` waits for a child nobody ends (`README.md:715`) |
| `MCAnalysisGaps` (`MCAnalysisPipeline`) | `OneFindingPerUnit` | the failures of one unit reach two batches: one finding per batch, with different texts (`system_failure.py:620-623`) |
| | `CrashLoopIsReal` | an event that comes twice counts as two failures of the loop |
| `MCDecisionGaps` (`MCFindingDecision`) | `Reconciles` | components are stored rounded, the sum is rounded again: with b = 0.823, r = 0.93, c = 0.2, m = 0.97697616 the stored 0.7770 is recomputed as 0.7771, and `explainer.py:132` raises (`detector.py:179` against its comment at 185) |
| | `AdviceNeverRelaxes` | an answer with a dangerous term turns a denial into a review |
| `MCLifecycleGaps` (`MCModelLifecycle`) | `StandDownSilences` | a service that has loaded a model scores with it after it was retired or found drifted |
| | `RetiredStaysDown` | the eligible row looked for at activation may be one from before the retirement (`sqlite_store.py:912-915`, `:921` against `:947`) |
| | `DriftIsFollowedUp` | a crash between the two transactions leaves drift without its retraining entry |
| | `CurrentIsLatest` | "the latest row" is taken from the newest `limit` rows |
| `MCCorpusGaps` (`MCTrainingCorpus`) | `HoldoutPromotedOnce` | two promotions pass the check before either writes |
| | `NoSessionIsOnBothSides` | the training dataset is in another database than the holdout, as `ml_train_and_evaluate.py:60-68` and `docs/NORMAL_CORPUS_PROGRAM.md:287` have it; a promotion looks only into the database it writes to |
| | `TrialsAreIndependent` | training windows can be appended to a holdout dataset and are measured with it |
| | `MeasuredAsPromoted` | the hashes of the windows that are measured are recomputed by nobody |
| | `NothingIsServedTwice` | the overlap is tested in the preflight; the training reads the dataset again |
| | `ToolsAgree` | `verify_capture_boot.py` counts boots and sessions apart, `_session_provenance` in pairs |
| `MCCorpusSides` | `NoSessionIsOnBothSides` | in one database, too: a training window of two sessions has no identity and is not compared (`collect_normal_window.py:432`), against "*Across* datasets a session may appear once whatever the role" (`:422-423`); one of its sessions is then promoted as holdout |
| `MCHealthGaps` (`MCServiceHealth`) | `DegradedIsSeen` | the last collector to degrade ends the service before the next evaluation |
| | `BrokenStaysReported` | a verification that fails withdraws the alert of a broken chain |
| | `EachAlertIsLogged` | one name stands for all collectors: the second to degrade is not logged |
| | `SignalEnds` | a signal before `start()` clears the event is forgotten |
| | `LossStaysInForce` | the next collector's write of the one health row takes the loss away |

### Bounds, and why they are enough

* Ingestion: one event and each kind of record that is not one, two reads, a queue of
  one, a batch of two, one fault, one `stop()`, one run. The interactions are pairwise
  (producer and consumer at the queue, stopper and either of them), a queue of one
  makes "full" a state every run passes through, and a batch of two lets a batch be
  partly refused. What a second run inherits is covered by the proof of conservation,
  which has no bound.
* Supervision: threshold 3, delays 1, 2, 3, healthy run 3, window 7. With this
  window the slowest sequence of short runs still puts three failures into it; with
  6 it does not, and TLC finds the collector that is restarted for ever. The
  deployed values (5 failures in 300 s) leave more room. Two stops, since the
  second may find the first half done.
* Chains: three writers, two processes, two calls, one outage, one old row. A
  fork needs two writers, a torn table one crash.
* Retention: a cap of 4, an age limit of 1, batches of 2, up to eight rounds, five
  events and one row of evidence, one failure. `EveryActionLogged` also holds with two
  runners and no failure (0.76 M states).
* Journal: two entries (one behind the cursor and one before it), a pipe of one
  record, so that printing blocks, and an interval of one second: due and not yet
  due. One loss, one fault and one stop are three disturbances of one history, each
  at any point.
* Analysis: two threads, three calls over seven batches, all counts 2, a lookback of 3
  with windows of 2, one write that raises, one restart. Two threads and three batches
  let a window come late, come twice and be split; the proof of the counter has no bound.
* Decision: every combination of windows on both sides of the four rules, with
  behaviour scores that put the fused score on, just under and just over each severity.
* Lifecycle: three models, of which two already have a passing gate row, two operators
  (interchangeable: symmetry), three results of a measurement, nine rows, of which
  four are read. `MCInit` is a state that two runs of the training command lead to.
* Corpus: two captures of one session, one of another, one of both; two datasets, one
  database, one promoter, three windows, one edit.
* Measures: up to three windows against four, five different ones over two features,
  alpha 1/5, so that both verdicts and the refusals occur. The proofs have no bound.
* Health: two collectors, one signal, one failing call: the second collector is the
  one that is not yet started when the signal comes.

Deadlock is checked in all runs but those of `FindingDecision`, `ModelLifecycle`,
`TrainingCorpus`, `ModelMeasures` and `ServiceHealth`, which end when a decision is
made, a bound is reached or the process has returned.

### Fairness

* `MCIngestion`: weak fairness of each thread. Nothing makes the collector
  speak or exit, or anyone call `stop()`; hence `RunEnds` begins when the child
  is gone.
* `MCSupervisor`: weak fairness of the run thread, of a `stop()` once called, and
  of time. A collector is assumed to write a line or end some time after its service was
  told to stop (`Silent = FALSE`); `MCSupervisorGaps` drops exactly that.
* `MCJournal`: weak fairness of the collector, of the service that reads and stores,
  of its restart by systemd, and of the SIGTERM and the SIGKILL with which a service
  that stops ends its child. Nothing makes the journal grow, time pass or a call fail.
* `MCChain`: weak fairness of a thread inside its transaction, strong
  fairness of taking a lock that is free again and again: Python's `Lock` and
  SQLite's busy handler poll, which gives no turn by itself, but each holder
  releases within a bounded time and each wait ends in success or an error.
* `MCRetention`: the maintenance loop keeps calling `maybe_run`, and a pass
  that was begun goes on. A pass may fail, only not for ever (`MaxFailures`).
* `MCHealth`: weak fairness of the main thread and of the maintenance thread. Nothing
  makes a collector run, fail or report, or a signal come.

## 4. Proofs

For every value of the constants that meets the ASSUMEs of a module (sizes are
positive, sets of identities are finite and disjoint from the markers):

* **`LiveIngestionProofs!TypeCorrect`**, **`AnalysedAreStored`**,
  **`RecordsConserved`**, **`CountersMatch`**, **`FailuresStick`**. The inductive
  invariant is `TypeOK /\ PcInv`: besides the types it says what a thread holds at
  which point (an event in the hand only while it is put, a free place in the batch at
  the point of `get`). Conservation is inductive over it; the proof goes by the actions
  that move a record, each with a lemma on what `Append` and `Tail` do to the number of
  events in the queue. `CountersMatchRows` needs in addition that nothing runs and
  nothing is stored before the first run (`RowsInv`), and that the rows a batch adds
  are exactly those it does not count as duplicate (`RowsOfBatch`). `FailureSticks` is
  an action property and follows from the types.
* **`SourceSupervisorProofs!StopNeverAFailure`**. `StopIsNotAFailure` alone is not
  inductive: a stop request may reach a service whose attempt has just failed. The
  invariant adds that the stop flag is set before any service is told to stop
  (`FlagFirst`), what the status is at each point (`ControlType`, `Attempt`), and
  that a service `stop()` has read belongs to a running attempt (`TargetInv`).
* **`SourceSupervisorProofs!DegradedIsExact`**. The policy's list of failures and the
  history of the last window are lined up from their young ends (`Linked`): a healthy
  run cuts the list where the history says so, and what is in the list beyond the
  history is older than the window. `MemoryInv` adds that a source in backoff has fewer
  than `Threshold` failures in the list, and a degraded one as many that count. Time,
  trimming and a new failure each keep the alignment (`TimeKeeps`, `JudgeKeeps`).
* **`EvidenceChainProofs!TypeCorrect`**, **`ChainNeverForks`**, **`TableIsALog`**,
  **`AnswersAreStored`**, **`TamperingIsEvident`**. The invariant adds to the types that there is one write
  transaction at a time (`OneTransaction`), that a writer's process has migrated
  (`OpenFirst`), that the committed and the durable table are chains or, before
  the migration, wholly unlinked (`TableInv`), and what the draft is at each point
  of a writer (`WriterInv`) and of a migration (`MigrationInv`). The head that is
  read equals the last row's because the table under it is a chain (`HeadOfLinked`,
  `LinkExtends`). `TableIsALog` maps each step to an append, a loss of what was not
  durable, a checkpoint, or a stutter. `TamperingIsEvident` needs only that the table is
  a chain: digests commit to the whole history before them and so differ from row to row
  (`PlacesDiffer`, `HashTells`), and each kind of tampering leaves a first row whose
  digest or predecessor does not fit (one lemma each: edited, removed, closed,
  exchanged, inserted).
* **`JournalCursorProofs!TypeCorrect`**, **`CursorLeavesNoGap`**, **`RereadIsBounded`**.
  `NoSilentGap` speaks of the file alone; inductive is that no cursor anywhere (in
  the file, handed to `read()`, waiting to be saved) is past a gap (`CursorInv`),
  that the stream is ahead of what is known by at most the record in hand
  (`ReadingInv`), that it goes on at an entry that is there (`StreamInv`) and that what the
  journal has lost was vacuumed or belongs to an earlier journal (`LostInv`). The
  start of a stream is the one step that needs all of it (`OpenCovers`). For the
  re-read, what waits for a checkpoint was reached within the interval or since the
  last one (`WaitInv`).
* **`ServiceHealthProofs!RetentionTypes`**, **`DeletionsLogged`**, **`TargetKept`**. The
  types include that the events are in order of age and that the database is never
  smaller than what is live in it. For the accounts, `LedgerInv` says for each runner
  that the log plus what its pass will still log is what it has deleted, at every point
  of the pass. `TargetKept` is stated for one runner, as `OverlapIsSafe` shows it must:
  between a measurement and its round only the runner itself changes the size
  (`MeasureInv`), and what `Estimate` asks for does not go below the target.
* **`AnalysisProofs!AlarmIsExact`**, **`InForceStored`**, **`AlarmsSustained`**,
  **`FindingsDisposed`**, with **`TypeCorrect`**. The fields of a counter say only how long
  the current run of good or bad readings is; `Knows` says what that is of the readings
  heard: the lengths of their last runs, and which threshold was crossed last. A restart
  begins both anew. `StoredInv` and `SustainInv` say of each counter in force that its
  finding for its last window is stored or was given up, and that as many windows as
  configured stand behind it; the alarms handed over inherit it. `DispositionInv` follows a finding
  through the stages. The assumptions are those of the code's configuration and data: counts
  and widths positive, finite batches, readings of known conditions, `"host"` no
  unit.
* **`AnalysisProofs!ReconcilesAlone`**, **`ExplainsRules`**, **`ControlReviewed`**,
  **`RebuiltWithinAPoint`**. A finding is what `Finding` builds of a risk and a model
  (`DecisionInv`); the rest is arithmetic of roundings. The last one bounds what
  `Reconciles` shows to be possible: with a model, the recomputed score is off by at most
  one in the last digit.
* **`ModelProofs!TypeCorrect`**, **`FlagNeverAheadOfLog`**,
  **`NoActivationUnmeasured`**, **`InfluenceAndRetrainingGranted`**. Each step of an
  operator either appends no row and raises no flag, or appends one row that is
  `Justified` with the flags the same transaction leaves (`LogStep`). What a command
  holds between two transactions is still recorded when it uses it, because the log
  only grows (`TaskInv`, `LogGrows`).
* **`ModelProofs!ExactTestIsExact`**, **`StepDownControlsTheFamily`**,
  **`NoDriftIsNotSilence`**, **`CalibrationFitsTheBudget`**, **`GateNeverLoosens`**, for
  samples and families of any size. The lattice recursion has a solution
  (`PathsCounted`), and induction over its cells (`CellByCell`) shows that it counts the
  orderings that avoid the blocked cells, split by whose window comes last
  (`RoutesCounted`); the orderings that meet the band are those at least as far apart
  (`StatisticReached`). By the same induction exactly two paths touch the band of the
  greatest statistic (`TwoSeparations`), and a smaller statistic has no smaller p-value
  (`PValueShrinks`), which is the power the refusals rely on. For the step-down, the
  features from a rank on are the largest family in which that feature has the smallest
  p-value (`FamilyFrom`, `StepDownIsClosed`). The calibration loop ends at the highest
  place it takes (`LoopEnds`); places and flagged windows are brought together by the
  sorted scores, where the last place of a value is how many windows it flags
  (`ScoresAscend`), which is why the loop may look at one neighbour only. The gate's bound is monotone in both counts
  for all numbers of windows (`GateIsMonotone`).
* **`TrainingCorpusProofs!TypeCorrect`**, **`TrainingIsVerified`**,
  **`HoldoutsAreDistinct`**, **`AttributedSessionsStayApart`**, **`VerifiedIsTaken`**. The first two
  hold without further assumption: what the trainer notes of edits only grows, and the scorer looks
  at the hashes after the training has read the rows. The next two assume that one
  operator promotes at a time (`Alone`), which `MCCorpusGaps` shows to be needed; they
  hold for datasets in any number of databases, the second for the attributed windows of
  each. The invariant is that what passed the check is still not refused (`CheckedInv`),
  that the windows a database holds of an attributed session are in one dataset
  (`OneSide`), and that a run keeps its windows in two (`RunInv`, `ModelInv`). `VerifiedIsTaken` assumes that a row with a login session
  has a boot (`Stamped`): `event_stream.py:505-511` stamps both together. Where it fails,
  the inspection sees one boot and one session, the promotion no row with both, and the
  property is false.
* **`ServiceHealthProofs!NoCollectorLeftUntold`**, **`ReadErrorIsNoTampering`**. `run()`
  leaves through `finally`, after which no supervisor is started (`ToldInv`); what the
  maintenance thread holds to be broken is (`ViewInv`).

The theorems of a module rest on the ASSUMEs of the modules it extends, which TLC
evaluates on every run, and on the hypotheses named above (`Alone`, `Stamped`,
one runner), which are stated in the theorems.

Every invariant and action property of the passing runs is proved. Only model-checked
are the liveness properties (`RunEnds`, `GivenUp`, `StopBeforeService`,
`CallReturns`, `BudgetComesBack`, `EveryEventRead`, `ServiceEnds`, `AlertsCatchUp`): they
need fairness, and with it `ENABLED`, which is out of TLAPS's reach here. And what the counterexample
configurations show is shown by TLC alone.

## 5. Not modelled

* Event normalization, the audit parser, the decoding of eBPF records, the health
  probe: pure functions of one record or one read. Their outcome (an event, a reason to
  refuse it, a level of a reading) is an input of the models.
* Loss accounting (`telemetry/bcc/perf_loss.py`, `ringbuf_loss.py`): a notice of lost
  events is one of the records of `LiveIngestion`; the reporters' own counters are not
  modelled. What was lost in the last interval is pending when the collector ends.
* Floating-point code: isolation forest, attribution, baseline statistics, the
  asymptotic branch of the drift test. What it returns is a free choice.
* `reset()` of the store (a development tool; it deletes findings and decisions and
  leaves triage and lifecycle), the validations before a write, DDL other than the
  chain's migration.
* Gauges, timestamps and text of health rows, alerts, logs, explanations and reports;
  the API (read-only but for triage, which is a write of the chain's model), the
  dashboard, benchmarks, simulation, unit files.
* `_health_lock` in a signal handler: the handler runs on the main thread and takes a
  lock that is not reentrant (`live_ingestion.py:789`); at the level of `LiveIngestion`
  the caller of `stop()` is a thread of its own. The joins of the shutdown against
  systemd's `TimeoutStopSec=30` are a matter of seconds, of which the models have none.

Things met on the way that no property covers:

* `BehaviorAnalyzer` caches its baseline for the life of the process; window features and
  correlation are computed per batch, so a window split over two batches has two rows.
* The text of a failure finding says "X >= threshold" also while the alarm is held by
  the dead band. Policies on complete telemetry can match no finding
  (`tests/test_policy_engine.py:129`).
* `deactivate_ml_model` clears the flag and leaves the latest log row "active"
  (`sqlite_store.py:921-924`). A calibrated model can be measured by no script, and
  `ml_drift_check.py --comparison-db` passes a window source without the methods
  `assess_drift` calls.
* A state write that fails leaves a source's row stale, so its degradation raises no
  alert; the stale "degraded" row of a source that was removed raises one for ever.

`PROJECT.json` lists each part with its status.

## 6. Plan

Done, in this order: `LiveIngestion`, `SourceSupervisor`, `EvidenceChain` with
`AppendOnlyLog` and `ChainVerification`, `Retention`, `JournalCursor`, `Hysteresis` with
`AnalysisPipeline`, `FindingDecision`, `ModelLifecycle`, `TrainingCorpus`,
`ModelMeasures`, `ServiceHealth`, and the proofs of every safety property the runs check.
To do:

1. Loss accounting: reported plus pending equals lost, for counters that go back and a
   collector that ends; the theorem is arithmetic.
2. The signal handler and the locks it may meet, as a step of the main thread in
   `LiveIngestion`, under `ServiceHealth`.
3. The audit collector: grouping of the records of one event, against reordered serials.
4. Proofs of the conditions under which the refuted claims of section 3 do hold:
   `SizeIsTheBackstop` where pruning by age has deleted nothing, `NothingSkipped` where the
   service stores what it holds before it ends, `RetiredStaysDown` where one command
   runs at a time.
5. Abstract specifications: at-least-once delivery for `JournalCursor` and the service
   together; "a breach is open between onset and recovery" over `AnalysisPipeline`.
