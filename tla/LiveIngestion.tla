--------------------------- MODULE LiveIngestion ---------------------------
(***************************************************************************)
(* LiveIngestionService of pipeline/live_ingestion.py: one collector       *)
(* process is read by a producer thread, handed to a consumer thread over  *)
(* a bounded queue, and written to SQLite in batches; a batch the database *)
(* refuses goes to the quarantine directory.                               *)
(*                                                                         *)
(* Four threads interleave, each with a program counter of its own:        *)
(*   runner    run(): start(), then join the producer and the consumer     *)
(*   stopper   a caller of stop(): a signal handler or another thread      *)
(*   producer  _produce() over SubprocessJSONLSource.__iter__()            *)
(*   consumer  _consume()                                                  *)
(* A step ends where another thread can first observe what it did: at a    *)
(* queue operation, an Event, a section under _health_lock, a call into    *)
(* the store or the child process.                                         *)
(***************************************************************************)
EXTENDS Naturals, Sequences, FiniteSets

CONSTANTS
  Events,              \* identities (event_hash) of storable events
  OtherRecords,        \* the other records the collector may write, see below
  QueueSize,           \* queue_size
  BatchSize,           \* ingest_batch_size, which is also analysis_batch_size
  MaxBatches,          \* BatchQuarantine.max_batches
  HealthWriteMayFail,  \* whether write_collector_health can raise
  MaxReads,            \* bound: records read in one run
  MaxFaults,           \* bound: failing calls into the store, the disk, analysis
  MaxStops,            \* bound: calls of stop()
  MaxStarts            \* bound: calls of run()

\* Records that are not storable events: a line that does not decode, a kernel
\* loss report, a record the normalizer refuses, an event the writer cannot
\* encode.
RecordKinds == {"garbage", "loss", "noncanonical", "unencodable"}
Records     == Events \cup OtherRecords
Sentinel    == "sentinel"
NoRecord    == "none"

ASSUME SizesAssumption ==
  /\ QueueSize \in Nat \ {0}
  /\ BatchSize \in Nat \ {0}
  /\ MaxBatches \in Nat
  /\ HealthWriteMayFail \in BOOLEAN

ASSUME BoundsAssumption ==
  MaxReads \in Nat /\ MaxFaults \in Nat /\ MaxStops \in Nat /\ MaxStarts \in Nat

ASSUME EventsAssumption ==
  /\ IsFiniteSet(Events) /\ OtherRecords \subseteq RecordKinds
  /\ Events \cap (RecordKinds \cup {Sentinel, NoRecord}) = {}

VARIABLES
  runner, stopper, producer, consumer,   \* program counters
  stopRequested,   \* _stop_requested
  stop,            \* the _stop event
  producerDone,    \* the _producer_done event
  queue,           \* the bounded queue, records and sentinels
  hand,            \* the record _enqueue is handing over, or NoRecord
  pending, batch,  \* locals of _consume: unwritten events, unanalysed events
  health,          \* CollectorHealth: status and counters
  row,             \* status in the collector_runtime row
  runSnap, stopperSnap,  \* the status a _persist_health call captured: by the run's
                         \* own threads (start(), then the consumer), by stop()
  child,           \* the collector process
  closed,          \* SubprocessJSONLSource._closed
  stored,          \* identities in the events table
  quarantine,      \* batches in the quarantine directory, oldest first
  offered,         \* history: records read in this run, or left queued before it
  discarded,       \* history: records read after the stop event was seen
  analysed,        \* history: events handed to the analysis pipeline
  faults, stops, starts  \* uses of the bounds

runnerVars   == <<runner, starts>>
stopperVars  == <<stopper, stops, stopRequested, stop>>
sourceVars   == <<child, closed>>
consumerVars == <<consumer, pending, batch, runSnap, analysed>>
storeVars    == <<stored, quarantine, row>>
readVars     == <<offered, discarded>>

vars == <<runner, stopper, producer, consumer, stopRequested, stop, producerDone,
          queue, hand, pending, batch, health, row, runSnap, stopperSnap,
          child, closed, stored, quarantine, offered, discarded, analysed,
          faults, stops, starts>>

-----------------------------------------------------------------------------

\* The event positions of a queue.
QueuedEvents(q) == Cardinality({i \in DOMAIN q : q[i] # Sentinel})

EmptyBatch == [size |-> 0, events |-> {}]

FreshHealth(s) ==
  [status |-> s, processed |-> 0, malformed |-> 0, dropped |-> 0, duplicate |-> 0,
   waits |-> 0, kernelLost |-> 0, quarantined |-> 0]

Terminal == {"stopped", "failed"}

\* _set_error
SetError(h) == [h EXCEPT !.status = "failed"]

\* A call that raises spends one unit of the fault bound.
Fault == /\ faults < MaxFaults
         /\ faults' = faults + 1

\* Terminating a child that already exited does nothing.
Terminated == IF child = "running" THEN "terminated" ELSE child

\* No event is stored and no service has reported yet.
EmptyStore == stored = {} /\ row = "unknown"

Init ==
  /\ runner = "idle" /\ stopper = "idle" /\ producer = "none" /\ consumer = "none"
  /\ stopRequested = FALSE /\ stop = FALSE /\ producerDone = FALSE
  /\ queue = <<>> /\ hand = NoRecord /\ pending = <<>> /\ batch = EmptyBatch
  /\ health = FreshHealth("unknown")
  /\ runSnap = "unknown" /\ stopperSnap = "unknown"
  /\ child = "none" /\ closed = FALSE
  /\ EmptyStore /\ quarantine = <<>>
  /\ offered = 0 /\ discarded = 0 /\ analysed = {}
  /\ faults = 0 /\ stops = 0 /\ starts = 0

-----------------------------------------------------------------------------
(* run() and start()                                                       *)

\* start() begins with a fresh health record. Both threads of an earlier run
\* have been joined, so their locals are gone.
Start ==
  /\ runner = "idle" /\ starts < MaxStarts
  /\ runner' = "persist" /\ starts' = starts + 1
  /\ health' = FreshHealth("running")
  /\ pending' = <<>> /\ batch' = EmptyBatch /\ hand' = NoRecord
  /\ offered' = QueuedEvents(queue) /\ discarded' = 0
  /\ UNCHANGED <<stopperVars, producer, consumer, producerDone, queue, storeVars,
                 runSnap, stopperSnap, sourceVars, analysed, faults>>

\* _persist_health: skipped when stop() or an earlier run wrote the row within
\* health_interval_seconds.
StartSnapshot ==
  /\ runner = "persist"
  /\ \/ /\ runner' = "persistWrite"
        /\ runSnap' = health.status
     \/ /\ starts > 1 \/ stops > 0
        /\ runner' = "check"
        /\ UNCHANGED runSnap
  /\ UNCHANGED <<starts, stopperVars, producer, consumer, producerDone, queue, hand, health,
                 pending, batch, analysed, stopperSnap, sourceVars, storeVars, readVars,
                 faults>>

\* When the first health write raises, so does run(), before any thread.
StartPersist ==
  /\ runner = "persistWrite"
  /\ runSnap' = "unknown"
  /\ \/ /\ runner' = "check" /\ row' = runSnap
        /\ UNCHANGED faults
     \/ /\ HealthWriteMayFail /\ Fault
        /\ runner' = "idle" /\ UNCHANGED row
  /\ UNCHANGED <<starts, stopperVars, producer, consumer, producerDone, queue, hand, health,
                 pending, batch, analysed, stopperSnap, sourceVars, stored, quarantine,
                 readVars>>

\* A stop seen before the first run survives; otherwise the events are cleared.
StartCheck ==
  /\ runner = "check"
  /\ runner' = IF producer = "none" /\ stopRequested THEN "spawn" ELSE "clear"
  /\ UNCHANGED <<starts, stopperVars, producer, producerDone, queue, hand, health,
                 consumerVars, stopperSnap, sourceVars, storeVars, readVars, faults>>

StartClear ==
  /\ runner = "clear"
  /\ runner' = "spawn"
  /\ stopRequested' = FALSE /\ stop' = FALSE
  /\ UNCHANGED <<starts, stopper, stops, producer, producerDone, queue, hand, health,
                 consumerVars, stopperSnap, sourceVars, storeVars, readVars, faults>>

SpawnProducer ==
  /\ runner = "spawn"
  /\ runner' = "spawnConsumer"
  /\ producerDone' = FALSE
  /\ producer' = "open" /\ consumer' = "none"
  /\ UNCHANGED <<starts, stopperVars, queue, hand, health, pending, batch, runSnap,
                 analysed, stopperSnap, sourceVars, storeVars, readVars, faults>>

SpawnConsumer ==
  /\ runner = "spawnConsumer"
  /\ runner' = "joinProducer"
  /\ consumer' = "get"
  /\ UNCHANGED <<starts, stopperVars, producer, producerDone, queue, hand, health,
                 pending, batch, runSnap, analysed, stopperSnap, sourceVars,
                 storeVars, readVars, faults>>

JoinProducer ==
  /\ runner = "joinProducer" /\ producer = "dead"
  /\ runner' = "joinConsumer"
  /\ UNCHANGED <<starts, stopperVars, producer, producerDone, queue, hand, health,
                 consumerVars, stopperSnap, sourceVars, storeVars, readVars, faults>>

JoinConsumer ==
  /\ runner = "joinConsumer" /\ consumer = "dead"
  /\ runner' = "idle"
  /\ UNCHANGED <<starts, stopperVars, producer, producerDone, queue, hand, health,
                 consumerVars, stopperSnap, sourceVars, storeVars, readVars, faults>>

Runner == \/ StartSnapshot \/ StartPersist \/ StartCheck \/ StartClear
          \/ SpawnProducer \/ SpawnConsumer \/ JoinProducer \/ JoinConsumer

-----------------------------------------------------------------------------
(* stop()                                                                  *)

StopRequest ==
  /\ stopper = "idle" /\ stops < MaxStops
  /\ stopper' = "set" /\ stops' = stops + 1
  /\ stopRequested' = TRUE
  /\ UNCHANGED <<runnerVars, stop, producer, producerDone, queue, hand, health,
                 consumerVars, stopperSnap, sourceVars, storeVars, readVars, faults>>

StopSet ==
  /\ stopper = "set"
  /\ stopper' = "mark"
  /\ stop' = TRUE
  /\ UNCHANGED <<runnerVars, stops, stopRequested, producer, producerDone, queue, hand,
                 health, consumerVars, stopperSnap, sourceVars, storeVars, readVars,
                 faults>>

StopMark ==
  /\ stopper = "mark"
  /\ stopper' = "close"
  /\ health' = IF health.status \in Terminal \cup {"unknown"} THEN health
               ELSE [health EXCEPT !.status = "stopping"]
  /\ UNCHANGED <<runnerVars, stops, stopRequested, stop, producer, producerDone, queue,
                 hand, consumerVars, stopperSnap, sourceVars, storeVars, readVars, faults>>

\* source.close(): mark the source closed ...
StopClose ==
  /\ stopper = "close"
  /\ stopper' = "terminate"
  /\ closed' = TRUE
  /\ UNCHANGED <<runnerVars, stops, stopRequested, stop, producer, producerDone, queue,
                 hand, health, consumerVars, stopperSnap, child, storeVars, readVars,
                 faults>>

\* ... and terminate the child, if there is one.
StopTerminate ==
  /\ stopper = "terminate"
  /\ stopper' = "snapshot"
  /\ child' = Terminated
  /\ UNCHANGED <<runnerVars, stops, stopRequested, stop, producer, producerDone, queue,
                 hand, health, consumerVars, stopperSnap, closed, storeVars, readVars,
                 faults>>

\* _persist_health(force=True): captured under the lock, written outside it.
StopSnapshot ==
  /\ stopper = "snapshot"
  /\ stopper' = "write"
  /\ stopperSnap' = health.status
  /\ UNCHANGED <<runnerVars, stops, stopRequested, stop, producer, producerDone, queue,
                 hand, health, consumerVars, sourceVars, storeVars, readVars, faults>>

StopWrite ==
  /\ stopper = "write"
  /\ stopper' = "idle" /\ stopperSnap' = "unknown"
  /\ \/ /\ row' = stopperSnap
        /\ UNCHANGED faults
     \/ /\ HealthWriteMayFail /\ Fault
        /\ UNCHANGED row
  /\ UNCHANGED <<runnerVars, stops, stopRequested, stop, producer, producerDone, queue,
                 hand, health, consumerVars, sourceVars, stored, quarantine,
                 readVars>>

Stopper == \/ StopSet \/ StopMark \/ StopClose \/ StopTerminate
           \/ StopSnapshot \/ StopWrite

-----------------------------------------------------------------------------
(* The collector process                                                   *)

\* The child exits by itself, cleanly or with a non-zero status.
ChildExit ==
  /\ child = "running"
  /\ child' \in {"exited", "crashed"}
  /\ UNCHANGED <<runnerVars, stopperVars, producer, producerDone, queue, hand, health,
                 consumerVars, stopperSnap, closed, storeVars, readVars, faults>>

-----------------------------------------------------------------------------
(* _produce()                                                              *)

\* SubprocessJSONLSource.__iter__ clears the closed flag before it starts the
\* child; the child of an earlier run has been reaped by its own iterator.
OpenSource ==
  /\ producer = "open"
  /\ producer' = "popen"
  /\ closed' = FALSE
  /\ UNCHANGED <<runnerVars, stopperVars, producerDone, queue, hand, health, consumerVars,
                 stopperSnap, child, storeVars, readVars, faults>>

\* Popen, which raises when the command cannot be run.
SpawnChild ==
  /\ producer = "popen"
  /\ \/ /\ producer' = "read" /\ child' = "running"
        /\ UNCHANGED <<health, faults>>
     \/ /\ Fault
        /\ producer' = "end" /\ health' = SetError(health)
        /\ UNCHANGED child
  /\ UNCHANGED <<runnerVars, stopperVars, producerDone, queue, hand, consumerVars,
                 stopperSnap, closed, storeVars, readVars>>

\* The next line of stdout; lines already in the pipe outlive the child.
Read(r) ==
  /\ producer = "read" /\ offered < MaxReads
  /\ offered' = offered + 1
  /\ \/ /\ stop
        /\ producer' = "end" /\ child' = Terminated
        /\ discarded' = discarded + 1
        /\ UNCHANGED <<hand, health>>
     \/ /\ ~stop /\ r = "garbage"
        /\ health' = [health EXCEPT !.malformed = @ + 1]
        /\ UNCHANGED <<producer, child, hand, discarded>>
     \/ /\ ~stop /\ r = "loss"
        /\ health' = [health EXCEPT !.kernelLost = @ + 1]
        /\ UNCHANGED <<producer, child, hand, discarded>>
     \/ /\ ~stop /\ r \notin {"garbage", "loss"}
        /\ producer' = "put" /\ hand' = r
        /\ UNCHANGED <<health, child, discarded>>
  /\ UNCHANGED <<runnerVars, stopperVars, producerDone, queue, consumerVars, stopperSnap,
                 closed, storeVars, faults>>

\* A line that is not text ends the iteration with an exception; the child is
\* reaped and the service has failed.
ReadError ==
  /\ producer = "read" /\ Fault
  /\ producer' = "end" /\ child' = Terminated
  /\ health' = SetError(health)
  /\ UNCHANGED <<runnerVars, stopperVars, producerDone, queue, hand, consumerVars,
                 stopperSnap, closed, storeVars, readVars>>

\* Mutant: only a status of zero ends the wait for the child.
EndOfCleanSource ==
  /\ producer = "read" /\ child = "exited"
  /\ producer' = "end"
  /\ UNCHANGED <<runnerVars, stopperVars, producerDone, queue, hand, health, consumerVars,
                 stopperSnap, sourceVars, storeVars, readVars, faults>>

\* End of stdout. A non-zero status that no close() asked for is an error.
EndOfSource ==
  /\ producer = "read" /\ child # "running"
  /\ producer' = "end"
  /\ health' = IF child \in {"crashed", "terminated"} /\ ~closed
               THEN SetError(health) ELSE health
  /\ UNCHANGED <<runnerVars, stopperVars, producerDone, queue, hand, consumerVars,
                 stopperSnap, sourceVars, storeVars, readVars, faults>>

\* _enqueue: put_nowait, and on Full the bounded wait.
PutNowait ==
  /\ producer = "put"
  /\ IF Len(queue) < QueueSize
     THEN /\ queue' = Append(queue, hand) /\ hand' = NoRecord
          /\ producer' = "read"
     ELSE /\ producer' = "wait"
          /\ UNCHANGED <<queue, hand>>
  /\ UNCHANGED <<runnerVars, stopperVars, producerDone, health, consumerVars, stopperSnap,
                 sourceVars, storeVars, readVars, faults>>

PutAfterWait ==
  /\ producer = "wait" /\ Len(queue) < QueueSize
  /\ producer' = "read"
  /\ queue' = Append(queue, hand) /\ hand' = NoRecord
  /\ health' = [health EXCEPT !.waits = @ + 1]
  /\ UNCHANGED <<runnerVars, stopperVars, producerDone, consumerVars, stopperSnap,
                 sourceVars, storeVars, readVars, faults>>

\* Mutant: a drop that a stop request causes is not counted as one.
CountDropUnlessStopped(h) == [h EXCEPT !.waits = @ + 1, !.dropped = IF stop THEN @ ELSE @ + 1]

CountDrop(h) == [h EXCEPT !.waits = @ + 1, !.dropped = @ + 1]

\* The budget expired, or the stop event was seen: _record_drop.
RecordDrop ==
  /\ producer = "wait"
  /\ producer' = "read" /\ hand' = NoRecord
  /\ health' = CountDrop(health)
  /\ UNCHANGED <<runnerVars, stopperVars, producerDone, queue, consumerVars, stopperSnap,
                 sourceVars, storeVars, readVars, faults>>

ProducerDone ==
  /\ producer = "end"
  /\ producer' = "sentinel"
  /\ producerDone' = TRUE
  /\ UNCHANGED <<runnerVars, stopperVars, queue, hand, health, consumerVars, stopperSnap,
                 sourceVars, storeVars, readVars, faults>>

EndMarked(q) == Append(q, Sentinel)

ConsumerGone == consumer \in {"none", "dead"}

\* The sentinel is offered until it fits or nobody is left to read it.
PutSentinel ==
  /\ producer = "sentinel"
  /\ producer' = "dead"
  /\ \/ /\ Len(queue) < QueueSize
        /\ queue' = EndMarked(queue)
     \/ /\ Len(queue) >= QueueSize /\ ConsumerGone
        /\ UNCHANGED queue
  /\ UNCHANGED <<runnerVars, stopperVars, producerDone, hand, health, consumerVars,
                 stopperSnap, sourceVars, storeVars, readVars, faults>>

\* Every step of the producer that does not wait for the collector to speak.
Producer == \/ OpenSource \/ SpawnChild \/ EndOfSource \/ PutNowait
            \/ PutAfterWait \/ RecordDrop \/ ProducerDone \/ PutSentinel

-----------------------------------------------------------------------------
(* _consume()                                                              *)

BatchFull(p) == Len(p) >= BatchSize

\* queue.get and normalize.
Get ==
  /\ consumer = "get" /\ queue # <<>>
  /\ queue' = Tail(queue)
  /\ LET item == Head(queue) IN
     \/ /\ item = Sentinel
        /\ consumer' = "lastFlush"
        /\ UNCHANGED <<pending, health>>
     \/ /\ item = "noncanonical"
        /\ health' = [health EXCEPT !.malformed = @ + 1]
        /\ UNCHANGED <<consumer, pending>>
     \/ /\ item \notin {Sentinel, "noncanonical"}
        /\ pending' = Append(pending, item)
        /\ consumer' = IF BatchFull(pending') THEN "flush" ELSE "health"
        /\ UNCHANGED health
  /\ UNCHANGED <<runnerVars, stopperVars, producer, producerDone, hand, batch,
                 runSnap, analysed, stopperSnap, sourceVars, storeVars, readVars,
                 faults>>

\* queue.get timed out; _producer_done is read in a later step.
GetEmpty ==
  /\ consumer = "get" /\ queue = <<>>
  /\ consumer' = "empty"
  /\ UNCHANGED <<runnerVars, stopperVars, producer, producerDone, queue, hand, health,
                 pending, batch, runSnap, analysed, stopperSnap, sourceVars,
                 storeVars, readVars, faults>>

CheckProducerDone ==
  /\ consumer = "empty"
  /\ consumer' = IF producerDone THEN "lastFlush" ELSE "flush"
  /\ UNCHANGED <<runnerVars, stopperVars, producer, producerDone, queue, hand, health,
                 pending, batch, runSnap, analysed, stopperSnap, sourceVars,
                 storeVars, readVars, faults>>

\* What write_events rejects before its transaction, and the rows it adds:
\* INSERT OR IGNORE on the event hash.
Rejected(p) == {i \in DOMAIN p : p[i] = "unencodable"}
Accepted(p) == DOMAIN p \ Rejected(p)
Inserted(p) == {p[i] : i \in Accepted(p)} \ stored

\* Mutant: an event repeated within the batch counts as inserted twice.
DuplicatesAcrossBatches(p) == Cardinality({i \in Accepted(p) : p[i] \in stored})

Duplicates(p) == Cardinality(Accepted(p)) - Cardinality(Inserted(p))

\* Mutant: the writer's rejections are not taken out of the analysis batch.
PersistedUnfiltered(p) == {p[i] : i \in DOMAIN p}

\* The events _flush passes on to analysis, duplicates included.
Persisted(p) == {p[i] : i \in Accepted(p)}

\* _flush when the transaction commits.
WriteBatch ==
  /\ stored' = stored \cup Inserted(pending)
  /\ batch' = [size   |-> batch.size + Cardinality(Accepted(pending)),
               events |-> batch.events \cup Persisted(pending)]
  /\ health' = [health EXCEPT !.processed = @ + Cardinality(Accepted(pending)),
                              !.duplicate = @ + Duplicates(pending),
                              !.malformed = @ + Cardinality(Rejected(pending))]
  /\ UNCHANGED <<quarantine, faults>>

\* BatchQuarantine.store: the newest batch is refused at the cap, and any batch
\* when its own write fails; a batch is on disk whole or not at all.
QuarantineStore(p) ==
  \/ Len(quarantine) < MaxBatches /\ quarantine' = Append(quarantine, p)
  \/ UNCHANGED quarantine

\* _flush when write_events raises: _quarantine_batch, which counts the batch
\* whatever store() returned.
QuarantineBatch ==
  /\ Fault
  /\ QuarantineStore(pending)
  /\ health' = [health EXCEPT !.quarantined = @ + Len(pending)]
  /\ UNCHANGED <<stored, batch>>

Flush(from, to) ==
  /\ consumer = from
  /\ consumer' = to
  /\ pending' = <<>>
  /\ \/ /\ pending = <<>>
        /\ UNCHANGED <<stored, quarantine, batch, health, faults>>
     \/ /\ pending # <<>>
        /\ WriteBatch \/ QuarantineBatch
  /\ UNCHANGED <<runnerVars, stopperVars, producer, producerDone, queue, hand,
                 runSnap, analysed, stopperSnap, sourceVars, row, readVars>>

\* _process_batch: an exception marks the service failed but ingestion goes on.
ProcessBatch ==
  /\ batch' = EmptyBatch
  /\ analysed' = analysed \cup batch.events
  /\ \/ UNCHANGED <<health, faults>>
     \/ Fault /\ health' = SetError(health)

MaybeAnalyse ==
  /\ consumer = "analyse"
  /\ consumer' = "health"
  /\ \/ batch.size < BatchSize /\ UNCHANGED <<batch, analysed, health, faults>>
     \/ batch.size >= BatchSize /\ ProcessBatch
  /\ UNCHANGED <<runnerVars, stopperVars, producer, producerDone, queue, hand, pending,
                 runSnap, stopperSnap, sourceVars, storeVars, readVars>>

\* _persist_health in the loop, gated by health_interval_seconds.
PersistHealth ==
  /\ consumer = "health"
  /\ \/ /\ consumer' = "get"
        /\ UNCHANGED runSnap
     \/ /\ consumer' = "healthWrite"
        /\ runSnap' = health.status
  /\ UNCHANGED <<runnerVars, stopperVars, producer, producerDone, queue, hand, health,
                 pending, batch, analysed, stopperSnap, sourceVars, storeVars, readVars,
                 faults>>

WriteHealth ==
  /\ consumer = "healthWrite"
  /\ runSnap' = "unknown"
  /\ \/ /\ consumer' = "get" /\ row' = runSnap
        /\ UNCHANGED faults
     \/ /\ HealthWriteMayFail /\ Fault
        /\ consumer' = "error" /\ UNCHANGED row
  /\ UNCHANGED <<runnerVars, stopperVars, producer, producerDone, queue, hand, health,
                 pending, batch, analysed, stopperSnap, sourceVars, stored,
                 quarantine, readVars>>

\* The analysis after the loop takes whatever is left, however little.
LastAnalysis ==
  /\ consumer = "lastAnalysis"
  /\ consumer' = "finally"
  /\ \/ batch.size = 0 /\ UNCHANGED <<batch, analysed, health, faults>>
     \/ batch.size > 0 /\ ProcessBatch
  /\ UNCHANGED <<runnerVars, stopperVars, producer, producerDone, queue, hand, pending,
                 runSnap, stopperSnap, sourceVars, storeVars, readVars>>

\* except Exception: _set_error
ConsumerError ==
  /\ consumer = "error"
  /\ consumer' = "finally"
  /\ health' = SetError(health)
  /\ UNCHANGED <<runnerVars, stopperVars, producer, producerDone, queue, hand, pending,
                 batch, runSnap, analysed, stopperSnap, sourceVars, storeVars,
                 readVars, faults>>

\* finally: a status that is not failed becomes stopped, and is captured.
ConsumerFinally ==
  LET final == IF health.status = "failed" THEN "failed" ELSE "stopped"
  IN /\ consumer = "finally"
     /\ consumer' = "lastWrite"
     /\ health' = [health EXCEPT !.status = final]
     /\ runSnap' = final
     /\ UNCHANGED <<runnerVars, stopperVars, producer, producerDone, queue, hand, pending,
                    batch, analysed, stopperSnap, sourceVars, storeVars, readVars, faults>>

\* The last health write; when it raises, the thread ends all the same.
LastHealthWrite ==
  /\ consumer = "lastWrite"
  /\ consumer' = "dead" /\ runSnap' = "unknown"
  /\ \/ /\ row' = runSnap
        /\ UNCHANGED faults
     \/ /\ HealthWriteMayFail /\ Fault
        /\ UNCHANGED row
  /\ UNCHANGED <<runnerVars, stopperVars, producer, producerDone, queue, hand, health,
                 pending, batch, analysed, stopperSnap, sourceVars, stored,
                 quarantine, readVars>>

Consumer == \/ Get \/ GetEmpty \/ CheckProducerDone
            \/ Flush("flush", "analyse") \/ Flush("lastFlush", "lastAnalysis")
            \/ MaybeAnalyse \/ PersistHealth \/ WriteHealth \/ LastAnalysis
            \/ ConsumerError \/ ConsumerFinally \/ LastHealthWrite

-----------------------------------------------------------------------------

\* Every call has returned and the bounds allow no further run: not a deadlock.
Finished ==
  /\ runner = "idle" /\ starts = MaxStarts /\ stopper = "idle"
  /\ UNCHANGED vars

Next == \/ Start \/ Runner
        \/ StopRequest \/ Stopper
        \/ ChildExit
        \/ (\E r \in Records : Read(r)) \/ ReadError
        \/ Producer
        \/ Consumer
        \/ Finished

\* Threads that can run, do. Nothing makes the collector speak or exit, and
\* nothing makes anyone call run() or stop().
Fairness == WF_vars(Runner) /\ WF_vars(Stopper) /\ WF_vars(Producer) /\ WF_vars(Consumer)

Spec     == Init /\ [][Next]_vars
FairSpec == Spec /\ Fairness

-----------------------------------------------------------------------------

Statuses == {"unknown", "running", "stopping", "stopped", "failed"}

HealthRecord ==
  [status : Statuses, processed : Nat, malformed : Nat, dropped : Nat, duplicate : Nat,
   waits : Nat, kernelLost : Nat, quarantined : Nat]

Batches == Seq(Records)

ThreadTypes ==
  /\ runner \in {"idle", "persist", "persistWrite", "check", "clear", "spawn", "spawnConsumer",
                 "joinProducer", "joinConsumer"}
  /\ stopper \in {"idle", "set", "mark", "close", "terminate", "snapshot", "write"}
  /\ producer \in {"none", "open", "popen", "read", "put", "wait", "end", "sentinel",
                   "dead"}
  /\ consumer \in {"none", "get", "empty", "flush", "analyse", "health", "healthWrite",
                   "lastFlush", "lastAnalysis", "error", "finally", "lastWrite",
                   "dead"}
  /\ stopRequested \in BOOLEAN /\ stop \in BOOLEAN /\ producerDone \in BOOLEAN
  /\ child \in {"none", "running", "exited", "crashed", "terminated"}
  /\ closed \in BOOLEAN

HealthTypes ==
  /\ health \in HealthRecord
  /\ row \in Statuses /\ runSnap \in Statuses /\ stopperSnap \in Statuses

EventTypes ==
  /\ queue \in Seq(Records \cup {Sentinel}) /\ Len(queue) <= QueueSize
  /\ hand \in Records \cup {NoRecord}
  /\ pending \in Batches /\ Len(pending) <= BatchSize
  /\ batch \in [size : Nat, events : SUBSET Records]
  /\ stored \in SUBSET Records /\ analysed \in SUBSET Records
  /\ quarantine \in Seq(Batches)

CountTypes == /\ offered \in Nat /\ discarded \in Nat
              /\ faults \in Nat /\ stops \in Nat /\ starts \in Nat

\* Every variable has its type, the queue holds at most QueueSize items and the
\* unwritten batch at most BatchSize events: the memory the service may use.
TypeOK == ThreadTypes /\ HealthTypes /\ EventTypes /\ CountTypes

InHand == IF hand = NoRecord THEN 0 ELSE 1

\* Records a thread or the queue still holds.
InFlight == InHand + QueuedEvents(queue) + Len(pending)

\* Records the health counters (or, after a stop, nothing) answer for.
Counted == discarded + health.processed + health.malformed + health.dropped
           + health.kernelLost + health.quarantined

\* Every record read is in exactly one place at any moment: one counter, the
\* queue, the unwritten batch or the producer's hand. No interleaving of
\* producer, consumer and stop() loses a record without a trace or counts it
\* twice while it is in the service.
Conservation == offered = InFlight + Counted

\* "a finding can never cite an event that is not in the database": whatever
\* _flush passes on, and whatever analysis has seen, has been committed.
AnalysedStored == analysed \cup batch.events \subseteq stored

\* The counters of a first run agree with the table: processed minus duplicate
\* is the number of rows, whichever batches were refused or repeated.
CountersMatchRows == starts <= 1 => health.processed - health.duplicate = Cardinality(stored)

\* A failure is not overwritten by a later, better status of the same run:
\* neither by stop() nor by the consumer's orderly end.
FailureSticks == [][health.status = "failed" /\ runner' # "persist"
                     => health'.status = "failed"]_vars

\* Once the child is gone, by itself or terminated by stop(), run() returns:
\* no full queue, dead consumer or failing store call keeps it waiting.
RunEnds == (child \in {"exited", "crashed", "terminated"}) ~> (runner = "idle")
=============================================================================
