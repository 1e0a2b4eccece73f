----------------------------- MODULE Retention -----------------------------
(***************************************************************************)
(* RetentionManager of storage/retention.py over the events table: a pass  *)
(* deletes by age, then by size with a VACUUM after each round, vacuums on *)
(* a schedule, and logs at its end what it did.  A runner is the           *)
(* maintenance thread of pipeline/service.py, or `python3 -m               *)
(* storage.retention`, which runs one pass in a process of its own.        *)
(*                                                                         *)
(* Space is counted in the room one event takes.  A deletion leaves free   *)
(* pages in the file; VACUUM writes the database anew through the          *)
(* write-ahead log, and the checkpoint that shortens both files waits for  *)
(* any reader to be gone.  A pass is short against the age limit, so       *)
(* events age only between passes.                                         *)
(***************************************************************************)
EXTENDS Integers, Sequences, FiniteSets, SequencesExt

CONSTANTS
  Runners,
  OneShot,      \* the runners that are a process for one pass
  Cap,          \* retention_max_db_bytes, 0 for none
  MaxAge,       \* retention_max_age_days, 0 for none
  Batch,        \* retention_prune_batch
  Schema,       \* room the schema and its indexes take
  MaxEvents,    \* bound: events ever written
  MaxEvidence,  \* bound: rows ever added to the chained tables
  MaxFailures,  \* bound: calls that raise, and processes that die
  MaxWal        \* bound: where the log saturates, 0 if nobody holds a snapshot

ASSUME RunnersAssumption == OneShot \subseteq Runners

ASSUME SettingsAssumption ==
  /\ Cap \in Nat /\ MaxAge \in Nat /\ Batch \in Nat \ {0} /\ Schema \in Nat \ {0}
  /\ MaxEvents \in Nat /\ MaxEvidence \in Nat /\ MaxFailures \in Nat /\ MaxWal \in Nat

VARIABLES
  ages,        \* the events by (timestamp, id): the age of each, oldest first
  evidence,    \* rows of the chained tables, which nothing deletes
  pages,       \* size of the database, free pages included
  file,        \* size of the database file
  wal,         \* size of the write-ahead log
  reader,      \* whether a reader holds a snapshot
  pc,          \* where a runner is in run_once
  pass,        \* the local variables of its pass
  lastVacuum,  \* _last_vacuum: "never", or within the interval, or before it
  logged,      \* events_deleted summed over maintenance_log, by runner
  written,     \* history: events ever written
  deleted,     \* history: events deleted, by runner
  failures     \* uses of the bound

retentionVars == <<ages, evidence, pages, file, wal, reader, pc, pass, lastVacuum, logged,
          written, deleted, failures>>

events == <<ages, evidence, written>>
files  == <<pages, file, wal>>

MaxRounds == 8
Target    == (Cap * 9) \div 10    \* SIZE_CAP_TARGET_RATIO
Live      == Schema + evidence + Len(ages)
Size      == file + wal           \* database_bytes

\* No pass has anything in hand before it starts.
Fresh == [aged |-> 0, current |-> 0, round |-> 0, total |-> 0,
          want |-> 0, gone |-> 0, forced |-> FALSE, actions |-> <<>>]

RetentionInit ==
  /\ ages = <<>> /\ evidence = 0
  /\ pages = Schema /\ file = Schema /\ wal = 0 /\ reader = FALSE
  /\ pc = [r \in Runners |-> "idle"] /\ pass = [r \in Runners |-> Fresh]
  /\ lastVacuum = [r \in Runners |-> "never"]
  /\ logged = [r \in Runners |-> 0] /\ deleted = [r \in Runners |-> 0]
  /\ written = 0 /\ failures = 0

Goto(r, step) == pc' = [pc EXCEPT ![r] = step]

-----------------------------------------------------------------------------
(* delete_events_older_than and delete_analytics_older_than                *)

Least(a, b)    == IF a <= b THEN a ELSE b
Greatest(a, b) == IF a >= b THEN a ELSE b

\* The first k events, and no others, are of that age or older.
Split(age, k) == \A i \in DOMAIN ages : ages[i] >= age <=> i <= k

\* Both deletions take the oldest events; their pages stay in the file.
Drop(r, n) ==
  /\ ages' = SubSeq(ages, n + 1, Len(ages))
  /\ deleted' = [deleted EXCEPT ![r] = @ + n]
  /\ UNCHANGED <<evidence, written, files>>

\* A batch that was not filled was the last.
LastBatch(n) == n < Batch

AgeBatch(r) ==
  /\ pc[r] = "age"
  /\ IF MaxAge = 0
     THEN Goto(r, "size") /\ UNCHANGED <<events, files, deleted, pass>>
     ELSE \E expired \in 0 .. Len(ages) :
            LET n == Least(Batch, expired)
            IN /\ Split(MaxAge, expired)
               /\ Drop(r, n)
               /\ pass' = [pass EXCEPT ![r].aged = @ + n]
               /\ Goto(r, IF LastBatch(n) THEN "analytics" ELSE "age")
  /\ UNCHANGED <<reader, lastVacuum, logged, failures>>

\* A pass that deleted nothing by age has no action to log.
Analytics(r) ==
  /\ pc[r] = "analytics"
  /\ \E rowsDeleted \in BOOLEAN :
       pass' = IF pass[r].aged = 0 /\ ~rowsDeleted THEN pass
               ELSE [pass EXCEPT ![r].actions = Append(@, pass[r].aged), ![r].aged = 0]
  /\ Goto(r, "size")
  /\ UNCHANGED <<events, files, reader, lastVacuum, logged, deleted, failures>>

-----------------------------------------------------------------------------
(* _enforce_size_cap                                                       *)

MeasureFirst(r) ==
  /\ pc[r] = "size"
  /\ IF Cap = 0 \/ Size <= Cap
     THEN Goto(r, "schedule") /\ UNCHANGED pass
     ELSE /\ Goto(r, "count")
          /\ pass' = [pass EXCEPT ![r].current = Size]
  /\ UNCHANGED <<events, files, reader, lastVacuum, logged, deleted, failures>>

\* Mutant: the estimate may be zero.
EstimateRoundedDown(count, current) == Least(count, ((current - Target) * count) \div current)

\* The excess over the bytes per event, at least one.
Estimate(count, current) ==
  Least(count, Greatest(1, ((current - Target) * count) \div current))

Round(r) ==
  /\ pc[r] = "count"
  /\ pass[r].current > Cap /\ pass[r].round < MaxRounds /\ ages # <<>>
  /\ pass' = [pass EXCEPT ![r].round = @ + 1,
                          ![r].want = Estimate(Len(ages), pass[r].current)]
  /\ Goto(r, "delete")
  /\ UNCHANGED <<events, files, reader, lastVacuum, logged, deleted, failures>>

\* Mutant: only the last round is counted.
CountLastRound(total, n) == n

CountRounds(total, n) == total + n

\* cursor.rowcount: another pass may have left less than was counted.
RowCount(r) == Least(pass[r].want, Len(ages))

DeleteOldest(r) ==
  /\ pc[r] = "delete"
  /\ LET n == RowCount(r)
     IN /\ Drop(r, n)
        /\ pass' = [pass EXCEPT ![r].gone = n, ![r].want = 0,
                                ![r].total = CountRounds(@, n)]
  /\ Goto(r, "vacuum")
  /\ UNCHANGED <<reader, lastVacuum, logged, failures>>

\* vacuum(): a reader keeps the log, with all that was written anew.
Reclaim ==
  /\ pages' = Live
  /\ file' = IF reader THEN file ELSE Live
  /\ wal' = IF reader THEN Least(wal + Live, MaxWal) ELSE 0

VacuumRound(r) ==
  /\ pc[r] = "vacuum"
  /\ Reclaim
  /\ Goto(r, "measure")
  /\ UNCHANGED <<events, reader, pass, lastVacuum, logged, deleted, failures>>

\* Mutant: the size measured before the vacuum is kept.
MeasuredOnce(r) ==
  /\ pc[r] = "measure"
  /\ Goto(r, IF pass[r].gone = 0 THEN "close" ELSE "count")
  /\ UNCHANGED <<events, files, reader, pass, lastVacuum, logged, deleted, failures>>

MeasureAgain(r) ==
  /\ pc[r] = "measure"
  /\ pass' = [pass EXCEPT ![r].current = Size]
  /\ Goto(r, IF pass[r].gone = 0 THEN "close" ELSE "count")
  /\ UNCHANGED <<events, files, reader, lastVacuum, logged, deleted, failures>>

\* One action for all the rounds, also when nothing could be reclaimed.
CloseCap(r) ==
  /\ \/ pc[r] = "close"
     \/ /\ pc[r] = "count"
        /\ pass[r].current <= Cap \/ pass[r].round = MaxRounds \/ ages = <<>>
  /\ pass' = [pass EXCEPT ![r] = [Fresh EXCEPT !.actions = Append(pass[r].actions, pass[r].total),
                                               !.forced = TRUE]]
  /\ Goto(r, "schedule")
  /\ UNCHANGED <<events, files, reader, lastVacuum, logged, deleted, failures>>

-----------------------------------------------------------------------------
(* _maybe_vacuum and _record                                               *)

\* The first look at the schedule only arms it.
Schedule(r) ==
  /\ pc[r] = "schedule"
  /\ IF pass[r].forced \/ lastVacuum[r] = "before"
     THEN /\ Reclaim
          /\ pass' = [pass EXCEPT ![r].actions = Append(@, 0)]
     ELSE UNCHANGED <<files, pass>>
  /\ lastVacuum' = [lastVacuum EXCEPT ![r] = "within"]
  /\ Goto(r, "record")
  /\ UNCHANGED <<events, reader, logged, deleted, failures>>

WriteRecord(r, n) == logged' = [logged EXCEPT ![r] = @ + n]

\* The actions are logged when all of them are done; a row that cannot be
\* written is given up.
Record(r) ==
  /\ pc[r] = "record" /\ pass[r].actions # <<>>
  /\ \/ WriteRecord(r, Head(pass[r].actions)) /\ UNCHANGED failures
     \/ failures < MaxFailures /\ failures' = failures + 1 /\ UNCHANGED logged
  /\ pass' = [pass EXCEPT ![r].actions = Tail(@)]
  /\ UNCHANGED <<events, files, reader, pc, lastVacuum, deleted>>

-----------------------------------------------------------------------------
(* A pass from its beginning to its end                                    *)

\* maybe_run when the interval has elapsed, or the timer.
Begin(r) ==
  /\ pc[r] = "idle"
  /\ Goto(r, "age")
  /\ UNCHANGED <<events, files, reader, pass, lastVacuum, logged, deleted, failures>>

Forget(r, process) ==
  /\ Goto(r, "idle")
  /\ pass' = [pass EXCEPT ![r] = Fresh]
  /\ lastVacuum' = IF process THEN [lastVacuum EXCEPT ![r] = "never"] ELSE lastVacuum

End(r) ==
  /\ pc[r] = "record" /\ pass[r].actions = <<>>
  /\ Forget(r, r \in OneShot)
  /\ UNCHANGED <<events, files, reader, logged, deleted, failures>>

\* A call raises, which the maintenance thread survives, or the process dies.
PassFails(r) ==
  /\ pc[r] # "idle" /\ failures < MaxFailures
  /\ \E process \in BOOLEAN : (r \in OneShot => process) /\ Forget(r, process)
  /\ failures' = failures + 1
  /\ UNCHANGED <<events, files, reader, logged, deleted>>

Step(r) ==
  \/ AgeBatch(r) \/ Analytics(r) \/ MeasureFirst(r) \/ Round(r) \/ DeleteOldest(r)
  \/ VacuumRound(r) \/ MeasureAgain(r) \/ CloseCap(r) \/ Schedule(r) \/ Record(r) \/ End(r)

-----------------------------------------------------------------------------
(* The rest of the system                                                  *)

\* A row takes a free page if there is one, and is checkpointed if it can be.
Grow ==
  /\ pages' = Greatest(pages, Live + 1)
  /\ file' = IF reader THEN file ELSE pages'
  /\ wal' = IF reader THEN Least(wal + 1, MaxWal) ELSE wal

\* The collectors write an event, which may be as old as they like.
Write ==
  /\ written < MaxEvents
  /\ \E age \in 0 .. MaxAge, older \in 0 .. Len(ages) :
       Split(age, older) /\ ages' = InsertAt(ages, older + 1, age)
  /\ written' = written + 1
  /\ Grow
  /\ UNCHANGED <<evidence, reader, pc, pass, lastVacuum, logged, deleted, failures>>

AddEvidence ==
  /\ evidence < MaxEvidence
  /\ evidence' = evidence + 1
  /\ Grow
  /\ UNCHANGED <<ages, written, reader, pc, pass, lastVacuum, logged, deleted, failures>>

Snapshot ==
  /\ MaxWal > 0
  /\ reader' = ~reader
  /\ UNCHANGED <<events, files, pc, pass, lastVacuum, logged, deleted, failures>>

\* Time passes between passes; the vacuum interval may elapse with it.
Tick ==
  /\ \A r \in Runners : pc[r] = "idle"
  /\ ages' = [i \in DOMAIN ages |-> Least(ages[i] + 1, MaxAge)]
  /\ \E due \in SUBSET {r \in Runners : lastVacuum[r] = "within"} :
       lastVacuum' = [r \in Runners |-> IF r \in due THEN "before" ELSE lastVacuum[r]]
  /\ UNCHANGED <<evidence, written, files, reader, pc, pass, logged, deleted, failures>>

RetentionNext ==
  \/ \E r \in Runners : Begin(r) \/ Step(r) \/ PassFails(r)
  \/ Write \/ AddEvidence \/ Snapshot \/ Tick

RetentionSpec == RetentionInit /\ [][RetentionNext]_retentionVars

\* The service's own passes are due again and again, and run to their end.
RetentionFairSpec == RetentionSpec /\ \A r \in Runners : WF_retentionVars(Step(r)) /\ (r \notin OneShot => WF_retentionVars(Begin(r)))

-----------------------------------------------------------------------------

Passes == [aged : Nat, current : Nat, round : 0 .. MaxRounds, total : Nat,
           want : Nat, gone : Nat, forced : BOOLEAN, actions : Seq(Nat)]

TableOK ==
  /\ ages \in Seq(0 .. MaxAge) /\ evidence \in Nat /\ written \in Nat
  /\ \A i, j \in DOMAIN ages : i < j => ages[i] >= ages[j]

FilesOK == pages \in Nat /\ file \in Nat /\ wal \in Nat /\ reader \in BOOLEAN /\ Live <= pages

RunnersOK ==
  /\ pc \in [Runners -> {"idle", "age", "analytics", "size", "count", "delete", "vacuum",
                         "measure", "close", "schedule", "record"}]
  /\ pass \in [Runners -> Passes]
  /\ lastVacuum \in [Runners -> {"never", "within", "before"}]
  /\ logged \in [Runners -> Nat] /\ deleted \in [Runners -> Nat]
  /\ failures \in 0 .. MaxFailures

\* Every variable has its type, the events are in order, and the database has
\* room for what is in it.
RetentionTypeOK == TableOK /\ FilesOK /\ RunnersOK

Deleting(r) == pc[r] = "delete" /\ pc'[r] = "vacuum"

\* "Every action writes a row to maintenance_log recording what was deleted":
\* between its passes the log accounts for every event a runner has deleted,
\* whichever passes overlapped, as long as no call has raised.
EveryActionLogged ==
  failures = 0 => \A r \in Runners : pc[r] = "idle" => logged[r] = deleted[r]

\* Nothing is deleted below the target.
Headroom ==
  \A r \in Runners : Deleting(r) /\ pages = Live /\ wal = 0 => Live' >= Target

\* "Leaving headroom", and no more: as long as the file has no free pages and no
\* log to be counted as an excess, a round deletes nothing below the target.
KeepsTarget == [][Headroom]_retentionVars

\* "Delete the oldest events until the database fits its byte budget": a database
\* over its cap comes back under it, if its events are what is too much.
BudgetComesBack == []<>(Size <= Cap \/ ages = <<>>)

\* "age first", "then size as the backstop": the size cap deletes only when what
\* the pruning by age has left is over the cap.
SizeIsTheBackstop == [][\A r \in Runners : Deleting(r) => Live > Cap]_retentionVars

\* "another reader holding the WAL open only defers the reclaim to the next pass":
\* no round after such a vacuum deletes what is not over the cap.
ReaderOnlyDefers ==
  [][\A r \in Runners : Deleting(r) /\ pass[r].round > 1 /\ reader => Live > Cap]_retentionVars

\* "The retention lock in RetentionManager makes the overlap safe": a second pass
\* takes nothing beyond the target of the first.
OverlapIsSafe == [][\A r \in Runners : Deleting(r) => Live' >= Target]_retentionVars
=============================================================================
