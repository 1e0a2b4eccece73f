---------------------------- MODULE ServiceHealth ----------------------------
(***************************************************************************)
(* The ingestion process of pipeline/service.py: the main thread with its  *)
(* signal handler, one supervisor thread per collector, and the            *)
(* maintenance thread that reads what they persist and raises alerts.      *)
(*                                                                         *)
(* A collector's life is abstracted to how it ends (SourceSupervisor.tla   *)
(* has the restart policy, LiveIngestion.tla the run); its counters to     *)
(* whether this life has lost an event; the four chains to one.  Reads of  *)
(* the snapshot are transactions of their own.                             *)
(***************************************************************************)
EXTENDS Naturals, Sequences, FiniteSets

CONSTANTS
  Order,        \* the collectors, in the order of the command line
  Lossy,        \* those that may lose events
  MaxSignals,   \* bounds: signals delivered,
  MaxFaults     \* reads, verifications and state writes that fail

Collectors == {Order[i] : i \in DOMAIN Order}

ASSUME OrderAssumption == Order \in Seq(Collectors) /\ Order # <<>>

ASSUME LossyAssumption == Lossy \subseteq Collectors

VARIABLES
  main,      \* where the main thread is
  launched,  \* supervisors started so far
  stop,      \* IngestionService._stop
  told,      \* SourceSupervisor._stop of each collector
  status,    \* SourceState.status, in memory
  alive,     \* whether the supervisor's thread runs
  lost,      \* whether this life of the collector has lost an event
  rows,      \* collector_sources: the status persisted for each, or None
  health,    \* collector_runtime: whether the one row all collectors write
             \* says that events were lost
  broken,    \* whether the rows of a chain no longer hash to what they say
  upkeep,    \* where the maintenance thread is
  view,      \* the local variables of its evaluation
  alerts,    \* _alert_state
  signals, faults

control  == <<main, launched, stop, told>>
sources  == <<status, alive, lost, rows, health>>
watching == <<upkeep, view, alerts>>
vars == <<control, sources, broken, watching, signals, faults>>

None == "none"
Active == {"starting", "running", "backoff"}
Statuses == Active \cup {"stopped", "degraded"}
AlertNames == {"events_lost", "collector_degraded", "evidence_chain_broken",
               "database_unavailable"}

NoView == [lost |-> FALSE, down |-> {}, broken |-> FALSE, error |-> FALSE]

TypeOK ==
  /\ main \in {"handlers", "launch", "loop", "finally", "joining", "returned"}
  /\ launched \in 0..Len(Order) /\ stop \in BOOLEAN
  /\ told \in [Collectors -> BOOLEAN] /\ alive \in [Collectors -> BOOLEAN]
  /\ status \in [Collectors -> Statuses] /\ lost \in [Collectors -> BOOLEAN]
  /\ rows \in [Collectors -> Statuses \cup {None}]
  /\ health \in BOOLEAN /\ broken \in BOOLEAN
  /\ upkeep \in {None, "wait", "sources", "verify", "evaluate", "ended"}
  /\ view \in [lost : BOOLEAN, down : SUBSET Collectors, broken : BOOLEAN, error : BOOLEAN]
  /\ alerts \subseteq [name : AlertNames, source : Collectors \cup {None}]
  /\ signals \in 0..MaxSignals /\ faults \in 0..MaxFaults

Fault == faults < MaxFaults /\ faults' = faults + 1

-----------------------------------------------------------------------------
(* The main thread.                                                         *)

\* start() clears the event whatever set it.
ClearStop ==
  /\ main = "handlers"
  /\ stop' = FALSE /\ main' = "launch"
  /\ UNCHANGED <<launched, told, sources, broken, watching, signals, faults>>

\* SourceSupervisor.start clears its own event as well.
Launch ==
  /\ main = "launch" /\ launched < Len(Order)
  /\ LET c == Order[launched + 1] IN
       /\ told' = [told EXCEPT ![c] = FALSE]
       /\ alive' = [alive EXCEPT ![c] = TRUE]
  /\ launched' = launched + 1
  /\ UNCHANGED <<main, stop, status, lost, rows, health, broken, watching, signals, faults>>

StartMaintenance ==
  /\ main = "launch" /\ launched = Len(Order)
  /\ upkeep' = "wait" /\ main' = "loop"
  /\ UNCHANGED <<launched, stop, told, sources, broken, view, alerts, signals, faults>>

AllDown == \A c \in Collectors : status[c] \notin Active

\* Mutant: the loop waits for the collectors that were told to stop.
LeaveWhenDown ==
  /\ main = "loop" /\ AllDown
  /\ main' = "finally"
  /\ UNCHANGED <<launched, stop, told, sources, broken, watching, signals, faults>>

LeaveLoop ==
  /\ main = "loop" /\ (stop \/ AllDown)
  /\ main' = "finally"
  /\ UNCHANGED <<launched, stop, told, sources, broken, watching, signals, faults>>

\* Mutant: the collectors were told by whoever set the event.
FinallyTrustsStop ==
  /\ main = "finally"
  /\ stop' = TRUE
  /\ told' = IF stop THEN told ELSE [c \in Collectors |-> TRUE]
  /\ main' = "joining"
  /\ UNCHANGED <<launched, sources, broken, watching, signals, faults>>

Finally ==
  /\ main = "finally"
  /\ stop' = TRUE
  /\ told' = [c \in Collectors |-> TRUE]
  /\ main' = "joining"
  /\ UNCHANGED <<launched, sources, broken, watching, signals, faults>>

\* The joins are bounded, so run() returns whether or not the threads ended.
Joined ==
  /\ main = "joining"
  /\ main' = "returned"
  /\ UNCHANGED <<launched, stop, told, sources, broken, watching, signals, faults>>

\* The handler runs on the main thread, between any two of its steps.
Signal ==
  /\ main # "returned" /\ signals < MaxSignals
  /\ stop' = TRUE
  /\ told' = [c \in Collectors |-> TRUE]
  /\ signals' = signals + 1
  /\ UNCHANGED <<main, launched, sources, broken, watching, faults>>

-----------------------------------------------------------------------------
(* The supervisor thread of a collector.                                    *)

WriteSourceState(c, s) == rows' = [rows EXCEPT ![c] = s]

\* _update: the row is written if it can be, the status in memory always.
Update(c, s) ==
  /\ status' = [status EXCEPT ![c] = s]
  /\ \/ WriteSourceState(c, s) /\ UNCHANGED faults
     \/ Fault /\ UNCHANGED rows

Working == main # "returned"

\* A restarted collector counts from zero and says so at once.
BeginLife(c) ==
  /\ Working /\ alive[c] /\ ~told[c] /\ status[c] \in {"starting", "backoff"}
  /\ Update(c, "running")
  /\ lost' = [lost EXCEPT ![c] = FALSE]
  /\ health' = FALSE
  /\ UNCHANGED <<control, alive, broken, watching, signals>>

\* The loop ends without a status if the stop came between lives.
StopBeforeLife(c) ==
  /\ Working /\ alive[c] /\ told[c] /\ status[c] = "starting"
  /\ alive' = [alive EXCEPT ![c] = FALSE]
  /\ UNCHANGED <<control, status, lost, rows, health, broken, watching, signals, faults>>

LoseEvent(c) ==
  /\ Working /\ c \in Lossy /\ alive[c] /\ status[c] = "running"
  /\ lost' = [lost EXCEPT ![c] = TRUE]
  /\ UNCHANGED <<control, status, alive, rows, health, broken, watching, signals, faults>>

PersistHealth(c) ==
  /\ Working /\ alive[c] /\ status[c] = "running"
  /\ health' = lost[c]
  /\ UNCHANGED <<control, status, alive, lost, rows, broken, watching, signals, faults>>

\* Told to stop, or nothing left to read.
EndLife(c) ==
  /\ Working /\ alive[c]
  /\ status[c] = "running" \/ (status[c] = "backoff" /\ told[c])
  /\ Update(c, "stopped")
  /\ alive' = [alive EXCEPT ![c] = FALSE]
  /\ UNCHANGED <<control, lost, health, broken, watching, signals>>

Fail(c) ==
  /\ Working /\ alive[c] /\ ~told[c] /\ status[c] = "running"
  /\ Update(c, "backoff")
  /\ UNCHANGED <<control, alive, lost, health, broken, watching, signals>>

Degrade(c) ==
  /\ Working /\ alive[c] /\ ~told[c] /\ status[c] = "running"
  /\ Update(c, "degraded")
  /\ alive' = [alive EXCEPT ![c] = FALSE]
  /\ UNCHANGED <<control, lost, health, broken, watching, signals>>

-----------------------------------------------------------------------------
(* The maintenance thread: the snapshot, the chains, the rules.             *)

\* A pass of the retention, which may raise, changes nothing here.
ReadHealth ==
  /\ Working /\ upkeep = "wait" /\ ~stop
  /\ \/ view' = [NoView EXCEPT !.lost = health] /\ upkeep' = "sources" /\ UNCHANGED faults
     \/ view' = [NoView EXCEPT !.error = TRUE] /\ upkeep' = "verify" /\ Fault
  /\ UNCHANGED <<control, sources, broken, alerts, signals>>

EndUpkeep ==
  /\ Working /\ upkeep = "wait" /\ stop
  /\ upkeep' = "ended"
  /\ UNCHANGED <<control, sources, broken, view, alerts, signals, faults>>

ReadSources ==
  /\ Working /\ upkeep = "sources"
  /\ view' = [view EXCEPT !.down = {c \in Collectors : rows[c] = "degraded"}]
  /\ upkeep' = "verify"
  /\ UNCHANGED <<control, sources, broken, alerts, signals, faults>>

\* A chain whose verification raises is left out of the result.
VerifyChains ==
  /\ Working /\ upkeep = "verify"
  /\ \/ view' = [view EXCEPT !.broken = broken] /\ UNCHANGED faults
     \/ UNCHANGED view /\ Fault
  /\ upkeep' = "evaluate"
  /\ UNCHANGED <<control, sources, broken, alerts, signals>>

Alert(name, source) == [name |-> name, source |-> source]

Named(name, condition) == IF condition THEN {Alert(name, None)} ELSE {}

\* evaluate: one alert for each condition, and for each degraded collector.
Firing ==
  Named("events_lost", view.lost)
    \cup {Alert("collector_degraded", c) : c \in view.down}
    \cup Named("evidence_chain_broken", view.broken)
    \cup Named("database_unavailable", view.error)

Names(some) == {alert.name : alert \in some}

\* log_alerts gets the alerts whose name is new.
Logged == {alert \in Firing : alert.name \notin Names(alerts)}

\* Mutant: the alerts in force are those that were logged.
EvaluateOnce ==
  /\ Working /\ upkeep = "evaluate"
  /\ alerts' = Logged
  /\ upkeep' = "wait" /\ view' = NoView
  /\ UNCHANGED <<control, sources, broken, signals, faults>>

Evaluate ==
  /\ Working /\ upkeep = "evaluate"
  /\ alerts' = Firing
  /\ upkeep' = "wait" /\ view' = NoView
  /\ UNCHANGED <<control, sources, broken, signals, faults>>

-----------------------------------------------------------------------------
(* The rest of the host.                                                    *)

Tamper ==
  /\ Working
  /\ broken' = TRUE
  /\ UNCHANGED <<control, sources, watching, signals, faults>>

\* The tables are empty, or as a process left them whose collectors all degraded.
Init ==
  /\ main = "handlers" /\ launched = 0 /\ stop = FALSE
  /\ told = [c \in Collectors |-> FALSE]
  /\ status = [c \in Collectors |-> "starting"]
  /\ alive = [c \in Collectors |-> FALSE]
  /\ lost = [c \in Collectors |-> FALSE]
  /\ \E before \in {None, "degraded"} : rows = [c \in Collectors |-> before]
  /\ health \in BOOLEAN
  /\ broken = FALSE
  /\ upkeep = None /\ view = NoView /\ alerts = {}
  /\ signals = 0 /\ faults = 0

Main == ClearStop \/ Launch \/ StartMaintenance \/ LeaveLoop \/ Finally \/ Joined

Supervise(c) == BeginLife(c) \/ StopBeforeLife(c) \/ EndLife(c) \/ Fail(c) \/ Degrade(c)

Maintain == ReadHealth \/ EndUpkeep \/ ReadSources \/ VerifyChains \/ Evaluate

Next ==
  \/ Main \/ Signal \/ Maintain
  \/ \E c \in Collectors : Supervise(c) \/ LoseEvent(c) \/ PersistHealth(c)
  \/ Tamper

Spec == Init /\ [][Next]_vars

\* The two threads that watch are never held up; of the collectors nothing is
\* assumed, not even that they end when they are told to.
FairSpec == Spec /\ WF_vars(Main) /\ WF_vars(Maintain)

-----------------------------------------------------------------------------
(* What must hold.                                                          *)

\* "Shutdown": when the process ends, every collector has been told to stop, also
\* one whose supervisor was started after the signal had told it so.
CollectorsToldToStop == main = "returned" => \A c \in Collectors : told[c]

\* The service ends when a stop reaches it or nothing is left that will produce an
\* event, and "systemd's Restart= policy decides".
ServiceEnds ==
  (stop /\ main # "handlers") \/ (AllDown /\ main = "loop") ~> (main = "returned")

Holds(name) ==
  CASE name = "events_lost" -> health
    [] name = "collector_degraded" -> \E c \in Collectors : rows[c] = "degraded"
    [] name = "evidence_chain_broken" -> broken

\* "A bare install still says out loud when it has stopped working": a condition
\* that lasts is in force in the end, whatever reads and verifications failed.
AlertsCatchUp ==
  \A name \in AlertNames \ {"database_unavailable"} :
    <>[](main = "loop" /\ Holds(name)) => <>[](name \in Names(alerts))

\* "Must not cry wolf": a read error is no tamper evidence.
NoCryingWolf == "evidence_chain_broken" \in Names(alerts) => broken

-----------------------------------------------------------------------------
(* What the documentation says and some interleaving refutes.               *)

\* "SIGTERM and SIGINT ask every supervisor to stop and then wait."
SignalEnds == (signals > 0) ~> (main = "returned")

\* "A source degraded" is one of the failures made "impossible to miss": what takes
\* the service down is in force when it ends.
DegradedIsSeen ==
  main = "returned" /\ signals = 0 /\ faults = 0 /\ (\E c \in Collectors : rows[c] = "degraded")
    => "collector_degraded" \in Names(alerts)

\* "Only transitions are logged": an alert that starts to fire is one that is
\* logged, and of a collector that is given up on it is the only notice.
EachAlertIsLogged == [][alerts' \ alerts \subseteq Logged]_alerts

\* "Omitting is safe": a chain that does not verify stays reported.
BrokenStaysReported ==
  [][broken /\ "evidence_chain_broken" \in Names(alerts)
       => "evidence_chain_broken" \in Names(alerts')]_alerts

\* events_dropped: "the record has gaps", for as long as the collector that has
\* lost an event runs.
LossStaysInForce ==
  \A c \in Collectors :
    <>[](main = "loop" /\ alive[c] /\ lost[c]) => <>[]("events_lost" \in Names(alerts))
=============================================================================
