-------------------------- MODULE SourceSupervisor --------------------------
(***************************************************************************)
(* SourceSupervisor and RestartPolicy of pipeline/supervisor.py: one       *)
(* collector is run as a LiveIngestionService, restarted after a failure   *)
(* with an exponential backoff, and given up on when it crash-loops.       *)
(*                                                                         *)
(* The run thread (sup) and one caller of stop() (stopper) interleave.     *)
(* The service is reduced to what the supervisor can tell of it: whether   *)
(* it is registered, whether it was told to stop, its child and how its    *)
(* run() ends; start() keeps the two steps in which it may erase a stop.   *)
(*                                                                         *)
(* Time is a matter of ages and remaining waits, so the clock is unbounded *)
(* and the state space is not.  Only a running collector and a backoff     *)
(* take time; the code between them is instantaneous at this scale.        *)
(***************************************************************************)
EXTENDS Naturals, Sequences, FiniteSets

CONSTANTS
  Threshold,        \* crash_loop_threshold
  Window,           \* crash_loop_window_seconds
  HealthyRuntime,   \* restart_healthy_runtime_seconds
  InitialBackoff,   \* restart_initial_backoff_seconds
  MaximumBackoff,   \* restart_max_backoff_seconds
  Endings,          \* how the collector may end by itself
  Silent,           \* whether the collector may stay silent for ever
  MaxRuntime,       \* bound: how long the collector runs, if below HealthyRuntime
  MaxConsecutive,   \* bound: where the count of consecutive failures saturates
  MaxStops          \* bound: calls of stop()

ASSUME PolicyAssumption ==
  /\ Threshold \in Nat \ {0} /\ Window \in Nat /\ HealthyRuntime \in Nat
  /\ InitialBackoff \in Nat \ {0} /\ MaximumBackoff \in Nat
  /\ InitialBackoff <= MaximumBackoff

ASSUME BoundsAssumption ==
  /\ Endings \subseteq {"clean", "failed"} /\ Silent \in BOOLEAN
  /\ MaxRuntime \in Nat /\ MaxStops \in Nat /\ MaxConsecutive \in Nat \ {0}

\* The count saturates only where the delay has reached its ceiling.
ASSUME LadderAssumption == InitialBackoff * 2^(MaxConsecutive - 1) >= MaximumBackoff

VARIABLES
  sup,          \* program counter of run()
  status,       \* SourceState.status
  stopFlag,     \* the _stop event
  registered,   \* whether _service is set
  serviceStop,  \* the service's own stop request
  child,        \* the collector process of the service
  ending,       \* how the last attempt ended
  runtime,      \* how long the attempt has run, up to HealthyRuntime
  consecutive,  \* RestartPolicy.consecutive_failures
  failures,     \* RestartPolicy._failures, as ages, oldest first
  delay,        \* backoff_seconds of the last failure, 0 before the first
  remaining,    \* what is left of the wait
  stopper,      \* program counter of stop()
  target,       \* the service stop() has read, if any
  history,      \* history: failures at most Window old, and whether each ended
                \* a run that had lasted HealthyRuntime
  stops         \* uses of the bound

policyVars  == <<consecutive, failures, delay, remaining, history>>
serviceVars == <<registered, serviceStop, child>>
stopVars    == <<stopper, target, stopFlag, stops>>

vars == <<sup, status, stopFlag, registered, serviceStop, child, ending, runtime,
          consecutive, failures, delay, remaining, stopper, target, history, stops>>

Least(a, b) == IF a <= b THEN a ELSE b

Init ==
  /\ sup = "head" /\ status = "starting" /\ stopFlag = FALSE
  /\ registered = FALSE /\ serviceStop = FALSE /\ child = "none"
  /\ ending = "clean" /\ runtime = 0
  /\ consecutive = 0 /\ failures = <<>> /\ delay = 0 /\ remaining = 0
  /\ stopper = "idle" /\ target = FALSE
  /\ history = <<>> /\ stops = 0

-----------------------------------------------------------------------------
(* RestartPolicy                                                           *)

\* How many the loop takes from the left: all before the first that is not older.
Outlived(ages, limit) ==
  CHOOSE k \in 0 .. Len(ages) : /\ \A i \in 1 .. k : ages[i] > limit
                                /\ k < Len(ages) => ages[k + 1] <= limit

\* Mutant: a failure exactly Window old no longer counts.
TrimEarly(ages) == SubSeq(ages, Outlived(ages, Window - 1) + 1, Len(ages))

\* _trim: failures older than the window are forgotten.
Trim(ages) == SubSeq(ages, Outlived(ages, Window) + 1, Len(ages))

\* Mutant: every run counts as a healthy one.
NeverAStreak == TRUE

\* A run this long is evidence that the start worked.
RanHealthy == runtime >= HealthyRuntime

\* The delay doubles per consecutive failure up to its ceiling.
Delay(n) == Least(InitialBackoff * 2^(n - 1), MaximumBackoff)

\* record_failure, which ends with the failure that just happened in the window.
RecordFailure ==
  LET streak == IF RanHealthy THEN 0 ELSE consecutive
      recent == IF RanHealthy THEN <<>> ELSE failures
  IN /\ consecutive' = Least(streak + 1, MaxConsecutive)
     /\ failures' = Trim(Append(recent, 0))
     /\ delay' = Delay(streak + 1)
     /\ history' = Append(history, [age |-> 0, healthy |-> RanHealthy])

CrashLooping(ages) == Len(Trim(ages)) >= Threshold

-----------------------------------------------------------------------------
(* run()                                                                   *)

\* The head of the loop; an attempt begins with status "running".
LoopHead ==
  /\ sup = "head"
  /\ IF stopFlag
     THEN /\ sup' = "done"
          /\ UNCHANGED <<status, runtime, serviceStop, child>>
     ELSE /\ sup' = "build" /\ status' = "running" /\ runtime' = 0
          /\ serviceStop' = FALSE /\ child' = "none"
  /\ UNCHANGED <<registered, ending, policyVars, stopVars>>

\* _run_once: the factory, which may raise, then the registration.
Build ==
  /\ sup = "build"
  /\ \/ /\ sup' = "recheck" /\ registered' = TRUE
        /\ UNCHANGED ending
     \/ /\ "failed" \in Endings
        /\ sup' = "ended" /\ ending' = "failed"
        /\ UNCHANGED registered
  /\ UNCHANGED <<status, serviceStop, child, runtime, policyVars, stopVars>>

\* Mutant: the stop is not looked at again after the registration.
RecheckLeftOut ==
  /\ sup = "recheck"
  /\ sup' = "startCheck"
  /\ UNCHANGED <<status, serviceVars, ending, runtime, policyVars, stopVars>>

\* A stop seen after the registration is passed on to the service.
Recheck ==
  /\ sup = "recheck"
  /\ sup' = "startCheck"
  /\ serviceStop' = (serviceStop \/ stopFlag)
  /\ UNCHANGED <<status, registered, child, ending, runtime, policyVars, stopVars>>

\* service.run(): start() keeps a stop it sees and may raise before that.
StartCheck ==
  /\ sup = "startCheck"
  /\ \/ /\ sup' = IF serviceStop THEN "spawn" ELSE "startClear"
        /\ UNCHANGED <<registered, ending>>
     \/ /\ "failed" \in Endings
        /\ sup' = "ended" /\ ending' = "failed" /\ registered' = FALSE
  /\ UNCHANGED <<status, serviceStop, child, runtime, policyVars, stopVars>>

StartClear ==
  /\ sup = "startClear"
  /\ sup' = "spawn"
  /\ serviceStop' = FALSE
  /\ UNCHANGED <<status, registered, child, ending, runtime, policyVars, stopVars>>

Spawn ==
  /\ sup = "spawn"
  /\ sup' = "running" /\ child' = "running"
  /\ UNCHANGED <<status, registered, serviceStop, ending, runtime, policyVars, stopVars>>

\* run() returns and the service is unregistered.
Return(how) ==
  /\ sup = "running"
  /\ sup' = "ended" /\ ending' = how
  /\ registered' = FALSE /\ child' = "none"
  /\ UNCHANGED <<status, serviceStop, runtime, policyVars, stopVars>>

\* The collector exits by itself.
Exit == child = "running" /\ \E how \in Endings : Return(how)

\* The collector was terminated by stop(), or wrote a line and the producer saw
\* the stop request; either may still be reported as a failure.
StopTakesEffect ==
  /\ child = "terminated" \/ (serviceStop /\ ~Silent)
  /\ \E how \in {"clean", "failed"} : Return(how)

\* A stop request or an end without error is final.
Conclude ==
  /\ sup = "ended" /\ (stopFlag \/ ending = "clean")
  /\ sup' = "done" /\ status' = "stopped"
  /\ UNCHANGED <<serviceVars, ending, runtime, policyVars, stopVars>>

\* A failure is recorded and either waited out or, in a crash loop, final.
Judge ==
  /\ sup = "ended" /\ ~stopFlag /\ ending = "failed"
  /\ RecordFailure
  /\ IF CrashLooping(failures')
     THEN sup' = "done" /\ status' = "degraded" /\ remaining' = 0
     ELSE sup' = "backoff" /\ status' = "backoff" /\ remaining' = delay'
  /\ UNCHANGED <<serviceVars, ending, runtime, stopVars>>

\* _stop.wait(delay): interrupted by a stop, or over.
BackoffStopped ==
  /\ sup = "backoff" /\ stopFlag
  /\ sup' = "done" /\ status' = "stopped"
  /\ UNCHANGED <<serviceVars, ending, runtime, policyVars, stopVars>>

BackoffOver ==
  /\ sup = "backoff" /\ remaining = 0 /\ ~stopFlag
  /\ sup' = "head"
  /\ UNCHANGED <<status, serviceVars, ending, runtime, policyVars, stopVars>>

Run == \/ LoopHead \/ Build \/ Recheck \/ StartCheck \/ StartClear \/ Spawn
       \/ StopTakesEffect \/ Conclude \/ Judge \/ BackoffStopped \/ BackoffOver

-----------------------------------------------------------------------------
(* stop()                                                                  *)

\* Mutant: the flag is left to the service.
FlagForgotten ==
  /\ stopper = "idle" /\ stops < MaxStops
  /\ stopper' = "read" /\ stops' = stops + 1
  /\ UNCHANGED <<sup, status, stopFlag, target, serviceVars, ending, runtime, policyVars>>

StopSet ==
  /\ stopper = "idle" /\ stops < MaxStops
  /\ stopper' = "read" /\ stops' = stops + 1
  /\ stopFlag' = TRUE
  /\ UNCHANGED <<sup, status, target, serviceVars, ending, runtime, policyVars>>

\* The service is read under _service_lock ...
StopRead ==
  /\ stopper = "read"
  /\ stopper' = "call" /\ target' = registered
  /\ UNCHANGED <<sup, status, stopFlag, stops, serviceVars, ending, runtime, policyVars>>

\* ... and stopped outside it, finished or not.
StopService ==
  /\ stopper = "call"
  /\ stopper' = "idle" /\ target' = FALSE
  /\ serviceStop' = (serviceStop \/ target)
  /\ child' = IF target /\ child = "running" THEN "terminated" ELSE child
  /\ UNCHANGED <<sup, status, stopFlag, stops, registered, ending, runtime, policyVars>>

Stop == StopRead \/ StopService

-----------------------------------------------------------------------------
(* Time                                                                    *)

Older(age) == Least(age + 1, Window + 1)

\* A second passes for the collector or for the backoff.
Tick ==
  /\ \/ /\ sup = "running" /\ (runtime < MaxRuntime \/ MaxRuntime >= HealthyRuntime)
        /\ runtime' = Least(runtime + 1, HealthyRuntime)
        /\ UNCHANGED remaining
     \/ /\ sup = "backoff" /\ remaining > 0
        /\ remaining' = remaining - 1
        /\ UNCHANGED runtime
  /\ failures' = [i \in DOMAIN failures |-> Older(failures[i])]
  /\ \E gone \in 0 .. Len(history) :
       /\ \A i \in DOMAIN history : history[i].age = Window <=> i <= gone
       /\ history' = [i \in 1 .. Len(history) - gone |->
                        [age |-> history[gone + i].age + 1, healthy |-> history[gone + i].healthy]]
  /\ UNCHANGED <<sup, status, serviceVars, ending, consecutive, delay, stopVars>>

-----------------------------------------------------------------------------

\* The supervisor gave up or was stopped, and nobody is in stop().
Finished == sup = "done" /\ stopper = "idle" /\ UNCHANGED vars

Next == Run \/ Exit \/ StopSet \/ Stop \/ Tick \/ Finished

\* Threads that can run, do, and a wait ends. Nothing makes a collector exit.
Fairness == WF_vars(Run) /\ WF_vars(Stop) /\ WF_vars(Tick)

Spec     == Init /\ [][Next]_vars
FairSpec == Spec /\ Fairness

-----------------------------------------------------------------------------

\* Every variable has its type, and the window never holds more than Threshold
\* failures, whatever the restarts.
TypeOK ==
  /\ sup \in {"head", "build", "recheck", "startCheck", "startClear", "spawn",
              "running", "ended", "backoff", "done"}
  /\ status \in {"starting", "running", "backoff", "degraded", "stopped"}
  /\ stopFlag \in BOOLEAN /\ registered \in BOOLEAN
  /\ serviceStop \in BOOLEAN /\ child \in {"none", "running", "terminated"}
  /\ ending \in {"clean", "failed"} /\ runtime \in 0 .. HealthyRuntime
  /\ consecutive \in 0 .. MaxConsecutive
  /\ failures \in Seq(0 .. Window + 1) /\ Len(failures) <= Threshold
  /\ delay \in {0} \cup InitialBackoff .. MaximumBackoff
  /\ remaining \in 0 .. delay
  /\ stopper \in {"idle", "read", "call"} /\ target \in BOOLEAN
  /\ history \in Seq([age : 0 .. Window, healthy : BOOLEAN])
  /\ stops \in 0 .. MaxStops

\* The failures that count, from the record of all of them: those in the window
\* that no healthy run came after.
Relevant == {i \in DOMAIN history :
               \A j \in DOMAIN history : j > i => ~history[j].healthy}

\* A source is degraded exactly when Threshold of its failures fall in one
\* window with no healthy run between them: a source that is waiting to be
\* restarted has fewer, a degraded one has that many.
DegradedExactly ==
  /\ status = "backoff"  => Cardinality(Relevant) < Threshold
  /\ status = "degraded" => Cardinality(Relevant) >= Threshold

\* "a service that exits promptly cannot be seen as a failure": an attempt that
\* stop() told to stop is never followed by a backoff or a degradation.
StopIsNotAFailure == serviceStop => status \in {"running", "stopped"}

\* A stop that finds no service registered ends the supervision, wherever the
\* attempt it raced with had got to: "closes that window".
StopBeforeService == (stopFlag /\ ~registered) ~> (sup = "done")

\* Only a collector that has healthy runs again and again is restarted for ever:
\* one that keeps ending early is given up on.
GivenUp == []<>(sup = "ended") => []<>(runtime = HealthyRuntime)
=============================================================================
