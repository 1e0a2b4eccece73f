-------------------------- MODULE MCLiveIngestion --------------------------
(***************************************************************************)
(* TLC instances of LiveIngestion, and the claims its comments and the     *)
(* README make that some interleaving refutes, each with a configuration   *)
(* of its own that finds it.                                               *)
(***************************************************************************)
EXTENDS LiveIngestion, TLC

EventSymmetry == Permutations(Events)

\* README, "No silent evidence loss": a run that reports a clean stop has left
\* no event behind in the queue or in the unwritten batch.
NoSilentLoss ==
  runner = "idle" /\ consumer = "dead" /\ health.status = "stopped" => InFlight = 0

\* The producer of a first run may still enqueue an event.
Enqueuing == producer \in {"read", "put", "wait"} /\ runner \notin {"spawn", "spawnConsumer"}

\* quarantine.py: "the fault costs one batch of latency rather than the whole
\* stream": while the producer may still enqueue, a consumer is there to take it.
ConsumerServes == Enqueuing => consumer \notin {"error", "finally", "lastWrite", "dead"}

\* start(): "A stop that arrived before the threads existed has to survive
\* start()": once a stop() has set its event before the first run's threads
\* exist, the event is still set while they run.
StopSurvivesStart ==
  starts = 1 /\ stops > 0 /\ stopper # "set" /\ producer # "none" => stop

\* stop(): "so a terminal status is not overwritten by 'stopping'", for the
\* status that the API and the alerts read: the collector_runtime row.
TerminalRowKept == [][(row \in Terminal) => (row' \in Terminal)]_vars

\* CollectorHealth: quarantined events "still exist on disk".
QuarantinedOnDisk ==
  health.quarantined =
    Cardinality({p \in (DOMAIN quarantine) \X (1 .. BatchSize) : p[2] <= Len(quarantine[p[1]])})

\* close(): a requested shutdown does not surface as a failure. Meant for an
\* instance without faults, where a terminated child is the only reason to fail.
RequestedStopIsClean == child = "terminated" => health.status # "failed"

\* stop(): a stop that arrives before start() does not leave the collector
\* running until the process is killed: after stop() returned, run() returns.
StopEndsRun == (stops > 0 /\ stopper = "idle") ~> (runner = "idle")
=============================================================================
