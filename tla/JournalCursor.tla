--------------------------- MODULE JournalCursor ---------------------------
(***************************************************************************)
(* JournalCollector, JournalStream and CursorStore of                      *)
(* telemetry/journald/journal_stream.py: one collector follows the journal *)
(* through a journalctl child, prints what concerns it to the pipe of the  *)
(* ingestion service, and keeps its place in a cursor file, so that the    *)
(* next collector goes on from there.                                      *)
(*                                                                         *)
(* A cursor is the number of the entry it names, 0 for none.  The service  *)
(* at the other end of the pipe is reduced to what LiveIngestion says of   *)
(* it: it takes records over, stores them later, drops what is unread when *)
(* it stops, and loses what it holds when it dies.                         *)
(***************************************************************************)
EXTENDS Naturals, Sequences

CONSTANTS
  Kinds,       \* what may be in the journal, see below
  PipeSize,    \* records the pipe holds before a write blocks
  Interval,    \* checkpoint_interval_seconds
  Losses,      \* what may happen to the journal, see Vacuum and Rebuild
  MaxEntries,  \* bound: entries ever logged
  MaxLosses,   \* bound: vacuums and rebuilds
  MaxFaults,   \* bound: failing calls, and collectors that are killed
  MaxStops     \* bound: stops and crashes of the service

\* A record the collector makes an event of, one it has no use for, and an
\* event without a cursor of the right form.
EntryKinds == {"event", "other", "uncursored"}

ASSUME JournalAssumption ==
  /\ Kinds \subseteq EntryKinds
  /\ Losses \subseteq {"vacuum", "rebuild", "atOpen"}
  /\ PipeSize \in Nat \ {0} /\ Interval \in Nat

ASSUME BoundsAssumption ==
  MaxEntries \in Nat /\ MaxLosses \in Nat /\ MaxFaults \in Nat /\ MaxStops \in Nat

VARIABLES
  journal,     \* the kind of every entry ever logged
  first,       \* the oldest entry that is still there
  rebuilt,     \* entries of an earlier journal, to which no cursor seeks
  old,         \* entries that are older than the --since window
  agedOut,     \* history: entries a vacuum took
  pc,          \* where the collector is
  stopFlag,    \* the _stop event of the stream
  journalctl,  \* its child
  cursor,      \* the cursor run() hands to read()
  next,        \* the entry journalctl writes next, 0 if it never writes any
  pending, saved,  \* _pending_cursor, _saved_cursor
  since,       \* time since the last checkpoint, up to Interval
  lastRead,    \* history: the value of since when pending was set
  file,        \* the cursor file
  service,     \* the ingestion service
  pipe,        \* records on their way to the service
  held,        \* records in its queue and its batch
  stored,      \* records in the database
  emitted,     \* history: entries ever printed
  reported,    \* history: entries a notice said are not read
  saveFailed,  \* history: whether this collector has failed to save its cursor
  losses, faults, stops  \* uses of the bounds

journalVars == <<journal, first, rebuilt, old, agedOut, losses>>
readVars    == <<stopFlag, journalctl, cursor, next>>
cursorVars  == <<pending, saved, since, lastRead, saveFailed>>
serviceVars == <<service, pipe, held, stored, stops>>

vars == <<journal, first, rebuilt, old, agedOut, losses, pc, stopFlag, journalctl, cursor, next,
          pending, saved, since, lastRead, saveFailed, file, service, pipe, held, stored,
          stops, emitted, reported, faults>>

Least(a, b)    == IF a <= b THEN a ELSE b
Greatest(a, b) == IF a >= b THEN a ELSE b

Fault == faults < MaxFaults /\ faults' = faults + 1

Init ==
  /\ journal = <<>> /\ first = 1 /\ rebuilt = 0 /\ old = 0 /\ agedOut = {} /\ losses = 0
  /\ pc = "down" /\ stopFlag = FALSE /\ journalctl = "none" /\ cursor = 0 /\ next = 0
  /\ pending = 0 /\ saved = 0 /\ since = 0 /\ lastRead = 0 /\ saveFailed = FALSE
  /\ file = 0
  /\ service = "up" /\ pipe = <<>> /\ held = {} /\ stored = {} /\ stops = 0
  /\ emitted = {} /\ reported = {} /\ faults = 0

-----------------------------------------------------------------------------
(* run(): where to begin                                                   *)

\* The service starts a collector once it has read the last one to its end.
\* No checkpoint yet is as good as one that is long ago.
Spawn ==
  /\ service = "up" /\ pc = "down" /\ pipe = <<>>
  /\ pc' = "load"
  /\ stopFlag' = FALSE /\ journalctl' = "none" /\ cursor' = 0 /\ next' = 0
  /\ pending' = 0 /\ saved' = 0 /\ since' = Interval /\ lastRead' = 0 /\ saveFailed' = FALSE
  /\ UNCHANGED <<journalVars, file, serviceVars, emitted, reported, faults>>

\* An absent, unreadable or corrupt file is no cursor.
Load ==
  /\ pc = "load"
  /\ \/ /\ cursor' = file
        /\ UNCHANGED faults
     \/ /\ cursor' = 0 /\ file # 0
        /\ Fault
  /\ pc' = IF cursor' = 0 THEN "open" ELSE "resolve"
  /\ UNCHANGED <<journalVars, stopFlag, journalctl, next, cursorVars, file, serviceVars,
                 emitted, reported>>

\* Mutant: a stored cursor is trusted.
AlwaysResolves(c) == TRUE

\* journalctl --cursor=c --lines=1 has an entry to show: c or one after it.
Resolves(c) == c > rebuilt /\ Greatest(c, first) <= Len(journal)

\* A cursor that does not resolve is discarded, one that cannot be asked for too.
Resolve ==
  /\ pc = "resolve" /\ pc' = "open"
  /\ \/ /\ Resolves(cursor)
        /\ UNCHANGED <<cursor, faults>>
     \/ /\ ~Resolves(cursor)
        /\ cursor' = 0
        /\ UNCHANGED faults
     \/ /\ cursor' = 0
        /\ Fault
  /\ UNCHANGED <<journalVars, stopFlag, journalctl, next, cursorVars, file, serviceVars,
                 emitted, reported>>

\* --after-cursor goes on at the next entry that is left, and past the end of a
\* rebuilt journal nowhere.
After(c) == IF c > rebuilt THEN Greatest(c + 1, first) ELSE 0

WindowStart == Greatest(first, old + 1)

\* read(): journalctl is started whatever _stop says. Without a cursor a notice
\* has said that what is older than the window is not read.
Open ==
  /\ pc = "open" /\ pc' = "read" /\ journalctl' = "running"
  /\ \/ /\ cursor # 0
        /\ next' = After(cursor)
        /\ UNCHANGED reported
     \/ /\ cursor = 0
        /\ next' = WindowStart
        /\ reported' = reported \cup 1 .. WindowStart - 1
  /\ UNCHANGED <<journalVars, stopFlag, cursor, cursorVars, file, serviceVars, emitted, faults>>

\* StaleCursorError: a second attempt is made, without the cursor.
SeekFails ==
  /\ pc = "open" /\ cursor # 0 /\ ~stopFlag /\ Fault
  /\ cursor' = 0
  /\ UNCHANGED <<journalVars, pc, stopFlag, journalctl, next, cursorVars, file, serviceVars,
                 emitted, reported>>

\* JournalReadError at the start.
OpenFails ==
  /\ pc = "open" /\ Fault
  /\ pc' = "last"
  /\ UNCHANGED <<journalVars, readVars, cursorVars, file, serviceVars, emitted, reported>>

-----------------------------------------------------------------------------
(* _consume: read, print, advance, checkpoint                              *)

\* journalctl has a line to read: lines that are no JSON object are passed over.
Available == journalctl = "running" /\ next > 0 /\ Greatest(next, first) <= Len(journal)

\* Mutant: the cursor is advanced with the record, not after the event.
ReadAndAdvance ==
  /\ pc = "read" /\ Available /\ ~stopFlag
  /\ pc' = "emit"
  /\ next' = Greatest(next, first) + 1
  /\ pending' = next' - 1 /\ lastRead' = since
  /\ UNCHANGED <<journalVars, stopFlag, journalctl, cursor, saved, since, saveFailed, file,
                 serviceVars, emitted, reported, faults>>

Read ==
  /\ pc = "read" /\ Available /\ ~stopFlag
  /\ pc' = "emit"
  /\ next' = Greatest(next, first) + 1
  /\ UNCHANGED <<journalVars, stopFlag, journalctl, cursor, cursorVars, file, serviceVars,
                 emitted, reported, faults>>

\* The record in hand.
Current == next - 1

Printed(n) == journal[n] \in {"event", "uncursored"}

\* print and flush, which wait while the pipe is full.
Emit ==
  /\ pc = "emit"
  /\ \/ /\ Printed(Current) /\ service # "down" /\ Len(pipe) < PipeSize
        /\ pipe' = Append(pipe, Current) /\ emitted' = emitted \cup {Current}
     \/ /\ ~Printed(Current)
        /\ UNCHANGED <<pipe, emitted>>
  /\ pc' = "advance"
  /\ UNCHANGED <<journalVars, readVars, cursorVars, file, service, held, stored, stops,
                 reported, faults>>

\* Nobody has the pipe open any more: the exception passes through finally.
BrokenPipe ==
  /\ pc = "emit" /\ service = "down" /\ Printed(Current)
  /\ pc' = "last" /\ journalctl' = "gone"
  /\ UNCHANGED <<journalVars, stopFlag, cursor, next, cursorVars, file, serviceVars,
                 emitted, reported, faults>>

\* The cursor moves over records nobody wants as well.
Advance ==
  /\ pc = "advance" /\ pc' = "save"
  /\ IF journal[Current] # "uncursored"
     THEN pending' = Current /\ lastRead' = since
     ELSE UNCHANGED <<pending, lastRead>>
  /\ UNCHANGED <<journalVars, readVars, saved, since, saveFailed, file, serviceVars,
                 emitted, reported, faults>>

\* _checkpoint has something to save.
Unsaved == pending # 0 /\ pending # saved

\* Mutant: a checkpoint waits for one second more.
DueLate == since > Interval

Due == since >= Interval

\* CursorStore.save: the file is replaced as a whole or not at all.
Save(to) ==
  /\ pc' = to /\ since' = 0
  /\ \/ /\ file' = pending /\ saved' = pending
        /\ UNCHANGED <<saveFailed, faults>>
     \/ /\ Fault
        /\ saveFailed' = TRUE
        /\ UNCHANGED <<file, saved>>
  /\ UNCHANGED <<journalVars, readVars, pending, lastRead, serviceVars, emitted, reported>>

Checkpoint == pc = "save" /\ Unsaved /\ Due /\ Save("read")

NoCheckpoint ==
  /\ pc = "save" /\ ~(Unsaved /\ Due)
  /\ pc' = "read"
  /\ UNCHANGED <<journalVars, readVars, cursorVars, file, serviceVars, emitted, reported, faults>>

\* The end of journalctl's output, or a line that is read after the stop.
EndOfStream ==
  /\ pc = "read" /\ (journalctl = "gone" \/ (stopFlag /\ Available))
  /\ pc' = "finish"
  /\ UNCHANGED <<journalVars, readVars, cursorVars, file, serviceVars, emitted, reported, faults>>

\* _finish waits for journalctl, which it does not terminate.
Finish ==
  /\ pc = "finish" /\ journalctl = "gone"
  /\ pc' = "last"
  /\ UNCHANGED <<journalVars, readVars, cursorVars, file, serviceVars, emitted, reported, faults>>

\* finally: the forced checkpoint, and the end of the process.
LastCheckpoint == pc = "last" /\ Unsaved /\ Save("down")

NoLastCheckpoint ==
  /\ pc = "last" /\ ~Unsaved
  /\ pc' = "down"
  /\ UNCHANGED <<journalVars, readVars, cursorVars, file, serviceVars, emitted, reported, faults>>

Collector == \/ Load \/ Resolve \/ Open \/ Read \/ Emit \/ BrokenPipe \/ Advance
             \/ Checkpoint \/ NoCheckpoint \/ EndOfStream \/ Finish
             \/ LastCheckpoint \/ NoLastCheckpoint

-----------------------------------------------------------------------------
(* The end of a collector, from outside                                    *)

\* journalctl crashes, or is rotated away from under its reader.
JournalctlDies ==
  /\ journalctl = "running" /\ Fault
  /\ journalctl' = "gone"
  /\ UNCHANGED <<journalVars, pc, stopFlag, cursor, next, cursorVars, file, serviceVars,
                 emitted, reported>>

\* SIGTERM: stop() of the stream terminates the journalctl there is.
Terminate ==
  /\ pc # "down" /\ service # "up" /\ ~stopFlag
  /\ stopFlag' = TRUE
  /\ journalctl' = IF journalctl = "running" THEN "gone" ELSE journalctl
  /\ UNCHANGED <<journalVars, pc, cursor, next, cursorVars, file, serviceVars, emitted,
                 reported, faults>>

Killed ==
  /\ pc # "down" /\ pc' = "down"
  /\ UNCHANGED <<journalVars, readVars, cursorVars, file, serviceVars, emitted, reported>>

\* SIGKILL, five seconds after SIGTERM.
Escalate == stopFlag /\ Killed /\ UNCHANGED faults

Die == Fault /\ Killed

-----------------------------------------------------------------------------
(* The ingestion service                                                   *)

Take ==
  /\ service = "up" /\ pipe # <<>>
  /\ held' = held \cup {Head(pipe)} /\ pipe' = Tail(pipe)
  /\ UNCHANGED <<journalVars, pc, readVars, cursorVars, file, service, stored, stops,
                 emitted, reported, faults>>

Store ==
  /\ held # {}
  /\ stored' = stored \cup held /\ held' = {}
  /\ UNCHANGED <<journalVars, pc, readVars, cursorVars, file, service, pipe, stops,
                 emitted, reported, faults>>

\* From a stop request on, no further line is read.
StopService ==
  /\ service = "up" /\ stops < MaxStops
  /\ service' = "stopping" /\ stops' = stops + 1
  /\ UNCHANGED <<journalVars, pc, readVars, cursorVars, file, pipe, held, stored,
                 emitted, reported, faults>>

ServiceEnds ==
  /\ service = "stopping" /\ pc = "down" /\ held = {}
  /\ service' = "down" /\ pipe' = <<>>
  /\ UNCHANGED <<journalVars, pc, readVars, cursorVars, file, held, stored, stops,
                 emitted, reported, faults>>

CrashService ==
  /\ service # "down" /\ stops < MaxStops
  /\ service' = "down" /\ stops' = stops + 1
  /\ pipe' = <<>> /\ held' = {}
  /\ UNCHANGED <<journalVars, pc, readVars, cursorVars, file, stored, emitted, reported, faults>>

\* systemd restarts the service once nothing of it is left.
Restart ==
  /\ service = "down" /\ pc = "down"
  /\ service' = "up"
  /\ UNCHANGED <<journalVars, pc, readVars, cursorVars, file, pipe, held, stored, stops,
                 emitted, reported, faults>>

Service == Spawn \/ Take \/ Store \/ ServiceEnds \/ Restart \/ Terminate \/ Escalate

-----------------------------------------------------------------------------
(* The journal                                                             *)

Others == <<pc, readVars, cursorVars, file, serviceVars, emitted, reported, faults>>

Log ==
  /\ Len(journal) < MaxEntries
  /\ \E kind \in Kinds : journal' = Append(journal, kind)
  /\ UNCHANGED <<first, rebuilt, old, agedOut, losses, Others>>

\* A second passes, and entries fall out of the --since window.
Tick ==
  /\ since' = Least(since + 1, Interval)
  /\ \E n \in old .. Len(journal) : old' = n
  /\ <<since', old'>> # <<since, old>>
  /\ UNCHANGED <<journal, first, rebuilt, agedOut, losses, pc, readVars, pending, saved, lastRead,
                 saveFailed, file, serviceVars, emitted, reported, faults>>

\* Losses happen while no collector runs, or in the moment between the look at the
\* cursor and the start of the stream.
Loss(kind) ==
  /\ kind \in Losses /\ (pc = "down" \/ (pc = "open" /\ "atOpen" \in Losses))
  /\ losses < MaxLosses /\ losses' = losses + 1

Vacuum ==
  /\ Loss("vacuum")
  /\ \E n \in first + 1 .. Len(journal) + 1 :
       first' = n /\ agedOut' = agedOut \cup first .. n - 1
  /\ UNCHANGED <<journal, rebuilt, old, Others>>

\* The journal begins anew; no cursor into the earlier one is found.
Rebuild ==
  /\ Loss("rebuild")
  /\ first' = Len(journal) + 1 /\ rebuilt' = Len(journal)
  /\ UNCHANGED <<journal, old, agedOut, Others>>

\* A quiet host: nothing to read, pass on or store.
Quiet ==
  /\ pc = "read" /\ journalctl = "running" /\ ~Available
  /\ service = "up" /\ pipe = <<>> /\ held = {}
  /\ UNCHANGED vars

Next == \/ Collector \/ SeekFails \/ OpenFails \/ JournalctlDies \/ Die
        \/ Service \/ StopService \/ CrashService
        \/ Log \/ Tick \/ Vacuum \/ Rebuild \/ Quiet

\* Processes that can go on, do; nothing makes the journal grow, time pass for a
\* checkpoint, or anything fail or stop.
Fairness ==
  /\ WF_vars(Collector) /\ WF_vars(Take) /\ WF_vars(Store) /\ WF_vars(Spawn)
  /\ WF_vars(ServiceEnds) /\ WF_vars(Restart) /\ WF_vars(Terminate)

Spec        == Init /\ [][Next]_vars
PatientSpec == Spec /\ Fairness
FairSpec    == PatientSpec /\ WF_vars(Escalate)

-----------------------------------------------------------------------------

Entries == 1 .. Len(journal)

\* Every variable has its type, and the pipe holds no more than it can.
TypeOK ==
  /\ journal \in Seq(EntryKinds) /\ first \in 1 .. Len(journal) + 1
  /\ rebuilt \in 0 .. Len(journal) /\ old \in 0 .. Len(journal)
  /\ agedOut \subseteq Entries
  /\ pc \in {"down", "load", "resolve", "open", "read", "emit", "advance", "save",
             "finish", "last"}
  /\ stopFlag \in BOOLEAN /\ journalctl \in {"none", "running", "gone"}
  /\ cursor \in 0 .. Len(journal) /\ next \in 0 .. Len(journal) + 1
  /\ pending \in 0 .. Len(journal) /\ saved \in 0 .. Len(journal)
  /\ since \in 0 .. Interval /\ lastRead \in 0 .. Interval /\ saveFailed \in BOOLEAN
  /\ file \in 0 .. Len(journal)
  /\ service \in {"up", "stopping", "down"}
  /\ pipe \in Seq(Entries) /\ Len(pipe) <= PipeSize
  /\ held \subseteq Entries /\ stored \subseteq Entries
  /\ emitted \subseteq Entries /\ reported \subseteq Entries
  /\ losses \in Nat /\ faults \in Nat /\ stops \in Nat

Wanted == {n \in Entries : Printed(n)}

\* "always after the record it refers to has been written and flushed", "never
\* silently replaced": the cursor file never is past an event that was neither
\* printed nor reported as not read, whichever collectors died on the way, save
\* what a vacuum took (see LossReported in MCJournalCursor).
NoSilentGap == \A n \in Wanted : n <= file => n \in emitted \cup reported \cup agedOut

\* "a crash costs at most `checkpoint_interval_seconds` of re-read": a cursor that
\* waits to be saved was reached within one interval of the last checkpoint, unless
\* saving has failed, which is reported.
RereadBounded == pc = "read" /\ Unsaved /\ ~saveFailed => lastRead < Interval

\* Every event that stays is printed in the end, or reported as not read: no stop, crash,
\* unusable cursor or failing journalctl makes the collectors wait for ever or
\* skip it, if the losses of the journal happen between two of them.
EveryEventRead == \A n \in 1 .. MaxEntries :
                    (n \in Entries /\ Printed(n)) ~> (n \in emitted \cup reported \cup agedOut)
=============================================================================
