-------------------------- MODULE MCJournalCursor --------------------------
(***************************************************************************)
(* TLC instances of JournalCursor, and what the module's docstring and the *)
(* README say of the collector that does not hold for the whole path.      *)
(***************************************************************************)
EXTENDS JournalCursor, SequencesExt

\* "This chooses to re-read. [...] A skipped event is invisible": an event the
\* saved cursor has passed is stored, on its way to the database, or reported.
NothingSkipped ==
  \A n \in Wanted : n <= file => n \in stored \cup held \cup Range(pipe) \cup reported

\* "A cursor the journal has aged out is reported, never silently replaced": what
\* the cursor file is past was printed or reported, also where a vacuum took it.
LossReported == \A n \in Wanted : n <= file => n \in emitted \cup reported

\* "an indefinite telemetry blackout indistinguishable from a quiet host": a
\* stream that is open reaches what is logged from now on.
NoBlackout == pc = "read" /\ journalctl = "running" => next > 0

\* "well inside the supervisor's five-second grace period before SIGKILL": a
\* collector that is told to stop ends by itself.
StopEndsCollector == stopFlag ~> (pc = "down")
=============================================================================
