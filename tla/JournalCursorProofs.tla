------------------------ MODULE JournalCursorProofs ------------------------
(***************************************************************************)
(* For every journal, whichever calls fail and whoever is killed when: the *)
(* cursor file is past no event that was neither printed nor reported, and *)
(* what a crash reads again is bounded.                                    *)
(***************************************************************************)
EXTENDS JournalCursor, Integers, TLAPS

USE JournalAssumption, BoundsAssumption
USE DEF journalVars, readVars, cursorVars, serviceVars, Others, Fault

-----------------------------------------------------------------------------
(* Types                                                                   *)

JournalTypes ==
  /\ journal \in Seq(EntryKinds) /\ first \in 1 .. Len(journal) + 1
  /\ rebuilt \in 0 .. Len(journal) /\ old \in 0 .. Len(journal)

ControlTypes ==
  /\ pc \in {"down", "load", "resolve", "open", "read", "emit", "advance", "save",
             "finish", "last"}
  /\ stopFlag \in BOOLEAN /\ journalctl \in {"none", "running", "gone"}
  /\ saveFailed \in BOOLEAN /\ service \in {"up", "stopping", "down"}
  /\ losses \in Nat /\ faults \in Nat /\ stops \in Nat

\* With a record in hand, the collector has read one.
CursorTypes ==
  /\ cursor \in 0 .. Len(journal) /\ next \in 0 .. Len(journal) + 1
  /\ pending \in 0 .. Len(journal) /\ saved \in 0 .. Len(journal)
  /\ file \in 0 .. Len(journal)
  /\ since \in 0 .. Interval /\ lastRead \in 0 .. Interval
  /\ pc \in {"emit", "advance", "save"} => next >= 2

RecordTypes ==
  /\ pipe \in Seq(Entries) /\ Len(pipe) <= PipeSize
  /\ held \subseteq Entries /\ stored \subseteq Entries
  /\ emitted \subseteq Entries /\ reported \subseteq Entries
  /\ agedOut \subseteq Entries

TypeInv == JournalTypes /\ ControlTypes /\ CursorTypes /\ RecordTypes

LEMMA EmptyPipe == \A S : <<>> \in Seq(S)
OBVIOUS

LEMMA TypeInit == Init => TypeInv
<1> SUFFICES ASSUME Init PROVE TypeInv
  OBVIOUS
<1>1. JournalTypes
  BY EmptyPipe DEF Init, JournalTypes
<1>2. ControlTypes
  <2>1. stopFlag \in BOOLEAN /\ saveFailed \in BOOLEAN
    BY DEF Init
  <2>2. QED
    BY <2>1 DEF Init, ControlTypes
<1>3. CursorTypes
  BY DEF Init, JournalTypes, CursorTypes
<1>4. RecordTypes
  BY EmptyPipe DEF Init, RecordTypes, Entries
<1>5. QED
  BY <1>1, <1>2, <1>3, <1>4 DEF TypeInv

\* What was logged stays what it was.
LEMMA JournalStep ==
  ASSUME JournalTypes, [Next]_vars
  PROVE  /\ JournalTypes'
         /\ Len(journal') >= Len(journal)
         /\ \A n \in Entries : journal'[n] = journal[n]
         /\ Entries \subseteq Entries'
<1> USE DEF JournalTypes
<1>1. CASE Log
  <2>1. PICK kind \in Kinds : journal' = Append(journal, kind)
    BY <1>1 DEF Log
  <2>2. journal' \in Seq(EntryKinds) /\ Len(journal') = Len(journal) + 1
    BY <2>1
  <2>3. \A n \in 1 .. Len(journal) : journal'[n] = journal[n]
    BY <2>1
  <2>4. QED
    BY <1>1, <2>2, <2>3 DEF Log, Entries
<1>2. CASE Tick
  BY <1>2 DEF Tick, Entries
<1>3. CASE Vacuum
  BY <1>3 DEF Vacuum, Entries
<1>4. CASE Rebuild
  BY <1>4 DEF Rebuild, Entries
<1>5. CASE UNCHANGED <<journal, first, rebuilt, old>>
  BY <1>5 DEF Entries
<1>6. QED
  BY <1>1, <1>2, <1>3, <1>4, <1>5 DEF Next, vars, Collector, Service, Spawn, Load,
    Resolve, Open, SeekFails, OpenFails, Read, Emit, BrokenPipe, Advance, Checkpoint,
    NoCheckpoint, Save, EndOfStream, Finish, LastCheckpoint, NoLastCheckpoint,
    JournalctlDies, Terminate, Killed, Escalate, Die, Take, Store, StopService,
    ServiceEnds, CrashService, Restart, Quiet

LEMMA ControlStep == ControlTypes /\ [Next]_vars => ControlTypes'
<1> SUFFICES ASSUME ControlTypes, [Next]_vars PROVE ControlTypes'
  OBVIOUS
<1> USE DEF ControlTypes
<1>1. \/ pc' = pc
      \/ pc' \in {"down", "load", "resolve", "open", "read", "emit", "advance", "save",
                "finish", "last"}
  BY DEF Next, Collector, Service, Spawn, Load, Resolve,
    Open, SeekFails, OpenFails, Read, Emit, BrokenPipe, Advance, Checkpoint, NoCheckpoint,
    Save, EndOfStream, Finish, LastCheckpoint, NoLastCheckpoint, JournalctlDies, Terminate,
    Killed, Escalate, Die, Take, Store, StopService, ServiceEnds, CrashService, Restart,
    Log, Tick, Loss, Vacuum, Rebuild, Quiet, vars
<1>2. stopFlag' = stopFlag \/ stopFlag' = FALSE \/ stopFlag' = TRUE
  BY DEF Next, Collector, Service, Spawn, Load, Resolve,
    Open, SeekFails, OpenFails, Read, Emit, BrokenPipe, Advance, Checkpoint, NoCheckpoint,
    Save, EndOfStream, Finish, LastCheckpoint, NoLastCheckpoint, JournalctlDies, Terminate,
    Killed, Escalate, Die, Take, Store, StopService, ServiceEnds, CrashService, Restart,
    Log, Tick, Loss, Vacuum, Rebuild, Quiet, vars
<1>3. saveFailed' = saveFailed \/ saveFailed' = FALSE \/ saveFailed' = TRUE
  BY DEF Next, Collector, Service, Spawn, Load, Resolve,
    Open, SeekFails, OpenFails, Read, Emit, BrokenPipe, Advance, Checkpoint, NoCheckpoint,
    Save, EndOfStream, Finish, LastCheckpoint, NoLastCheckpoint, JournalctlDies, Terminate,
    Killed, Escalate, Die, Take, Store, StopService, ServiceEnds, CrashService, Restart,
    Log, Tick, Loss, Vacuum, Rebuild, Quiet, vars
<1>4. \/ journalctl' = journalctl
      \/ journalctl' \in {"none", "running", "gone"}
  BY DEF Next, Collector, Service, Spawn, Load, Resolve,
    Open, SeekFails, OpenFails, Read, Emit, BrokenPipe, Advance, Checkpoint, NoCheckpoint,
    Save, EndOfStream, Finish, LastCheckpoint, NoLastCheckpoint, JournalctlDies, Terminate,
    Killed, Escalate, Die, Take, Store, StopService, ServiceEnds, CrashService, Restart,
    Log, Tick, Loss, Vacuum, Rebuild, Quiet, vars
<1>5. service' = service \/ service' \in {"up", "stopping", "down"}
  BY DEF Next, Collector, Service, Spawn, Load, Resolve,
    Open, SeekFails, OpenFails, Read, Emit, BrokenPipe, Advance, Checkpoint, NoCheckpoint,
    Save, EndOfStream, Finish, LastCheckpoint, NoLastCheckpoint, JournalctlDies, Terminate,
    Killed, Escalate, Die, Take, Store, StopService, ServiceEnds, CrashService, Restart,
    Log, Tick, Loss, Vacuum, Rebuild, Quiet, vars
<1>6. /\ losses' = losses \/ losses' = losses + 1
      /\ faults' = faults \/ faults' = faults + 1
      /\ stops' = stops \/ stops' = stops + 1
  BY DEF Next, Collector, Service, Spawn, Load, Resolve,
    Open, SeekFails, OpenFails, Read, Emit, BrokenPipe, Advance, Checkpoint, NoCheckpoint,
    Save, EndOfStream, Finish, LastCheckpoint, NoLastCheckpoint, JournalctlDies, Terminate,
    Killed, Escalate, Die, Take, Store, StopService, ServiceEnds, CrashService, Restart,
    Log, Tick, Loss, Vacuum, Rebuild, Quiet, vars
<1>7. stopFlag' \in BOOLEAN /\ saveFailed' \in BOOLEAN
  BY <1>2, <1>3
<1>8. QED
  BY <1>1, <1>4, <1>5, <1>6, <1>7

LEMMA CursorStep ==
  ASSUME JournalTypes, CursorTypes, [Next]_vars
  PROVE  CursorTypes'
<1>1. JournalTypes' /\ Len(journal') \in Nat /\ Len(journal) \in Nat /\ Len(journal') >= Len(journal)
  BY JournalStep DEF JournalTypes
<1> USE DEF CursorTypes
<1>2. CASE Spawn
  BY <1>1, <1>2 DEF Spawn
<1>3. CASE Load \/ Resolve \/ SeekFails \/ OpenFails
  BY <1>1, <1>3, SMTT(30) DEF Load, Resolve, SeekFails, OpenFails
<1>4. CASE Open
  BY <1>1, <1>4 DEF Open, After, WindowStart, Greatest, JournalTypes
<1>5. CASE Read
  BY <1>1, <1>5 DEF Read, Available, Greatest, JournalTypes
<1>6. CASE Emit \/ BrokenPipe
  BY <1>1, <1>6 DEF Emit, BrokenPipe
<1>7. CASE Advance
  BY <1>1, <1>7 DEF Advance, Current
<1>8. CASE Checkpoint \/ LastCheckpoint
  BY <1>1, <1>8, SMTT(30) DEF Checkpoint, LastCheckpoint, Save
<1>9. CASE NoCheckpoint \/ EndOfStream \/ Finish \/ NoLastCheckpoint
  BY <1>1, <1>9 DEF NoCheckpoint, EndOfStream, Finish, NoLastCheckpoint
<1>10. CASE JournalctlDies \/ Terminate \/ Escalate \/ Die
  BY <1>1, <1>10 DEF JournalctlDies, Terminate, Escalate, Die, Killed
<1>11. CASE Take \/ Store \/ StopService \/ ServiceEnds \/ CrashService \/ Restart
  BY <1>1, <1>11 DEF Take, Store, StopService, ServiceEnds, CrashService, Restart
<1>12. CASE Tick
  BY <1>1, <1>12 DEF Tick, Least
<1>13. CASE Log \/ Vacuum \/ Rebuild \/ Quiet \/ UNCHANGED vars
  BY <1>1, <1>13, SMTT(30) DEF Log, Vacuum, Rebuild, Quiet, vars
<1>14. QED
  BY <1>2, <1>3, <1>4, <1>5, <1>6, <1>7, <1>8, <1>9, <1>10, <1>11, <1>12, <1>13
     DEF Next, Collector, Service

\* A sequence of entries stays one when the journal grows.
LEMMA SeqGrows ==
  ASSUME NEW S, NEW T, S \subseteq T, NEW s \in Seq(S)
  PROVE  s \in Seq(T)
OBVIOUS

LEMMA RecordStep ==
  ASSUME JournalTypes, CursorTypes, RecordTypes, [Next]_vars
  PROVE  RecordTypes'
<1>1. /\ Entries \subseteq Entries'
      /\ pipe \in Seq(Entries')
      /\ held \cup stored \cup emitted \cup reported \cup agedOut \subseteq Entries'
  BY JournalStep, SeqGrows DEF RecordTypes
<1>2. Len(pipe) \in Nat /\ Len(pipe) <= PipeSize /\ Len(journal) \in Nat
  BY DEF RecordTypes, JournalTypes
<1>3. CASE Emit
  <2>1. Current \in Entries'
    <3>1. Current \in Entries
      BY <1>2, <1>3 DEF Emit, Current, CursorTypes, Entries
    <3>2. QED
      BY <1>1, <3>1
  <2>2. \/ pipe' = pipe /\ emitted' = emitted
        \/ /\ pipe' = Append(pipe, Current) /\ emitted' = emitted \cup {Current}
           /\ Len(pipe) < PipeSize
    BY <1>3 DEF Emit
  <2>3. pipe' \in Seq(Entries') /\ Len(pipe') <= PipeSize
    BY <1>1, <1>2, <2>1, <2>2
  <2>4. UNCHANGED <<held, stored, reported, agedOut>>
    BY <1>3 DEF Emit
  <2>5. QED
    BY <1>1, <2>1, <2>2, <2>3, <2>4 DEF RecordTypes
<1>4. CASE Take
  <2>1. /\ pipe # <<>> /\ pipe' = Tail(pipe) /\ held' = held \cup {Head(pipe)}
        /\ UNCHANGED <<stored, emitted, reported, agedOut>>
    BY <1>4 DEF Take
  <2>2. pipe' \in Seq(Entries') /\ Len(pipe') <= PipeSize /\ Head(pipe) \in Entries'
    BY <1>1, <1>2, <2>1
  <2>3. QED
    BY <1>1, <2>1, <2>2 DEF RecordTypes
<1>5. CASE Open
  <2>1. 1 .. WindowStart - 1 \subseteq Entries'
    <3>1. 1 .. WindowStart - 1 \subseteq Entries
      BY <1>2 DEF WindowStart, Greatest, JournalTypes, Entries
    <3>2. QED
      BY <1>1, <3>1
  <2>2. QED
    BY <1>1, <1>2, <1>5, <2>1 DEF Open, RecordTypes
<1>6. CASE Vacuum
  <2>1. PICK n \in first + 1 .. Len(journal) + 1 :
          first' = n /\ agedOut' = agedOut \cup first .. n - 1
    BY <1>6 DEF Vacuum
  <2>2. first .. n - 1 \subseteq Entries
    BY <1>2 DEF JournalTypes, Entries
  <2>3. QED
    BY <1>1, <1>2, <1>6, <2>1, <2>2 DEF Vacuum, RecordTypes
<1>7. CASE ServiceEnds \/ CrashService \/ Store
  <2>1. <<>> \in Seq(Entries') /\ Len(<<>>) <= PipeSize
    BY EmptyPipe
  <2>2. QED
    BY <1>1, <1>2, <1>7, <2>1 DEF ServiceEnds, CrashService, Store, RecordTypes
<1>8. CASE UNCHANGED <<pipe, held, stored, emitted, reported, agedOut>>
  BY <1>1, <1>2, <1>8 DEF RecordTypes
<1>9. QED
  BY <1>3, <1>4, <1>5, <1>6, <1>7, <1>8 DEF Next, vars, Collector, Service, Spawn, Load,
    Resolve, SeekFails, OpenFails, Read, BrokenPipe, Advance, Checkpoint, NoCheckpoint,
    Save, EndOfStream, Finish, LastCheckpoint, NoLastCheckpoint, JournalctlDies,
    Terminate, Killed, Escalate, Die, StopService, Restart, Log, Tick, Rebuild, Quiet

LEMMA TypeStep == TypeInv /\ [Next]_vars => TypeInv'
BY ControlStep, JournalStep, CursorStep, RecordStep DEF TypeInv

LEMMA TypeInvariant == Spec => []TypeInv
BY TypeInit, TypeStep, PTL DEF Spec

\* Every variable has its type, and the pipe holds no more than it can, whatever
\* the sizes and the kinds of entries are.
THEOREM TypeCorrect == Spec => []TypeOK
<1>1. TypeInv => TypeOK
  BY DEF TypeInv, TypeOK, JournalTypes, ControlTypes, CursorTypes, RecordTypes
<1>2. QED
  BY <1>1, TypeInvariant, PTL

-----------------------------------------------------------------------------
(* The cursor leaves no gap                                                *)

Known == emitted \cup reported \cup agedOut

Covered(n) == \A e \in Wanted : e <= n => e \in Known

\* What the journal has lost a vacuum took, or is of an earlier journal.
LostInv == \A e \in 1 .. first - 1 : e <= rebuilt \/ e \in agedOut

\* The stream goes on at an entry that is there.
StreamInv == pc \in {"read", "emit", "advance", "save"} /\ next > 0 => next >= first

\* No cursor is past a gap, and neither is the stream: the record in hand is the
\* only one it has read and not printed.
CursorInv  == Covered(file) /\ Covered(cursor) /\ Covered(pending)
ReadingInv == /\ pc \in {"read", "advance", "save"} => Covered(next - 1)
              /\ pc = "emit" => Covered(next - 2)

GapInv == LostInv /\ StreamInv /\ CursorInv /\ ReadingInv

LEMMA GapInit == Init => GapInv
BY DEF Init, GapInv, LostInv, StreamInv, CursorInv, ReadingInv, Covered, Wanted, Entries

\* What is known stays known.
LEMMA KnownGrows == [Next]_vars => Known \subseteq Known'
<1> SUFFICES ASSUME [Next]_vars PROVE Known \subseteq Known'
  OBVIOUS
<1>1. /\ emitted \subseteq emitted'
      /\ reported \subseteq reported'
      /\ agedOut \subseteq agedOut'
  BY DEF Next, Collector, Service, Spawn, Load, Resolve,
    Open, SeekFails, OpenFails, Read, Emit, BrokenPipe, Advance, Checkpoint, NoCheckpoint,
    Save, EndOfStream, Finish, LastCheckpoint, NoLastCheckpoint, JournalctlDies, Terminate,
    Killed, Escalate, Die, Take, Store, StopService, ServiceEnds, CrashService, Restart,
    Log, Tick, Loss, Vacuum, Rebuild, Quiet, vars
<1>2. QED
  BY <1>1 DEF Known

\* What is covered stays covered, as far as the journal goes.
LEMMA CoveredStays ==
  ASSUME JournalTypes, [Next]_vars, NEW n \in Int, n <= Len(journal), Covered(n)
  PROVE  \A e \in Wanted' : e <= n => e \in Known'
<1> SUFFICES ASSUME NEW e \in Wanted', e <= n PROVE e \in Known'
  OBVIOUS
<1>1. e \in Entries
  BY DEF Wanted, Entries, JournalTypes
<1>2. journal'[e] = journal[e]
  BY <1>1, JournalStep
<1>3. e \in Wanted
  BY <1>1, <1>2 DEF Wanted, Printed
<1>4. QED
  BY <1>3, KnownGrows DEF Covered

LEMMA LostStep ==
  ASSUME JournalTypes, LostInv, [Next]_vars
  PROVE  LostInv'
<1>1. CASE Vacuum
  <2>1. PICK n \in first + 1 .. Len(journal) + 1 :
          first' = n /\ agedOut' = agedOut \cup first .. n - 1
    BY <1>1 DEF Vacuum
  <2>2. rebuilt' = rebuilt
    BY <1>1 DEF Vacuum
  <2>3. QED
    BY <2>1, <2>2 DEF LostInv, JournalTypes
<1>2. CASE Rebuild
  BY <1>2 DEF Rebuild, LostInv, JournalTypes
<1>3. CASE UNCHANGED <<first, rebuilt, agedOut>>
  BY <1>3 DEF LostInv
<1>4. QED
  BY <1>1, <1>2, <1>3 DEF Next, Collector, Service, Spawn, Load, Resolve,
    Open, SeekFails, OpenFails, Read, Emit, BrokenPipe, Advance, Checkpoint, NoCheckpoint,
    Save, EndOfStream, Finish, LastCheckpoint, NoLastCheckpoint, JournalctlDies, Terminate,
    Killed, Escalate, Die, Take, Store, StopService, ServiceEnds, CrashService, Restart,
    Log, Tick, Quiet, vars

LEMMA StreamStep ==
  ASSUME JournalTypes, CursorTypes, StreamInv, [Next]_vars
  PROVE  StreamInv'
<1> USE DEF StreamInv, JournalTypes, CursorTypes
<1>1. CASE Open
  BY <1>1 DEF Open, After, WindowStart, Greatest
<1>2. CASE Read
  BY <1>2 DEF Read, Greatest
<1>3. CASE Vacuum \/ Rebuild
  BY <1>3 DEF Vacuum, Rebuild, Loss
<1>4. CASE /\ UNCHANGED <<first, next>>
           /\ pc' \in {"read", "emit", "advance", "save"} =>
                pc \in {"read", "emit", "advance", "save"}
  BY <1>4
<1>5. CASE Spawn
  BY <1>5 DEF Spawn
<1>6. QED
  BY <1>1, <1>2, <1>3, <1>4, <1>5 DEF Next, Collector, Service, Load, Resolve,
    SeekFails, OpenFails, Emit, BrokenPipe, Advance, Checkpoint, NoCheckpoint,
    Save, EndOfStream, Finish, LastCheckpoint, NoLastCheckpoint, JournalctlDies, Terminate,
    Killed, Escalate, Die, Take, Store, StopService, ServiceEnds, CrashService, Restart,
    Log, Tick, Quiet, vars

LEMMA CursorInvStep ==
  ASSUME JournalTypes, CursorTypes, CursorInv, ReadingInv, [Next]_vars
  PROVE  CursorInv'
<1> DEFINE Stays(n) == \A e \in Wanted' : e <= n => e \in Known'
<1>1. Stays(file) /\ Stays(cursor) /\ Stays(pending)
  BY CoveredStays DEF CursorInv, CursorTypes, JournalTypes
<1>2. Stays(0)
  BY JournalStep DEF Wanted, Entries, JournalTypes
<1>3. pc = "advance" => Stays(Current)
  BY CoveredStays DEF ReadingInv, Current, CursorTypes, JournalTypes
<1>4. file' = file \/ file' = pending
  BY DEF Next, Collector, Service, Spawn, Load, Resolve,
    Open, SeekFails, OpenFails, Read, Emit, BrokenPipe, Advance, Checkpoint, NoCheckpoint,
    Save, EndOfStream, Finish, LastCheckpoint, NoLastCheckpoint, JournalctlDies, Terminate,
    Killed, Escalate, Die, Take, Store, StopService, ServiceEnds, CrashService, Restart,
    Log, Tick, Loss, Vacuum, Rebuild, Quiet, vars
<1>5. cursor' = cursor \/ cursor' = file \/ cursor' = 0
  BY DEF Next, Collector, Service, Spawn, Load, Resolve,
    Open, SeekFails, OpenFails, Read, Emit, BrokenPipe, Advance, Checkpoint, NoCheckpoint,
    Save, EndOfStream, Finish, LastCheckpoint, NoLastCheckpoint, JournalctlDies, Terminate,
    Killed, Escalate, Die, Take, Store, StopService, ServiceEnds, CrashService, Restart,
    Log, Tick, Loss, Vacuum, Rebuild, Quiet, vars
<1>6. pending' = pending \/ pending' = 0 \/ (pc = "advance" /\ pending' = Current)
  BY DEF Next, Collector, Service, Spawn, Load, Resolve,
    Open, SeekFails, OpenFails, Read, Emit, BrokenPipe, Advance, Checkpoint, NoCheckpoint,
    Save, EndOfStream, Finish, LastCheckpoint, NoLastCheckpoint, JournalctlDies, Terminate,
    Killed, Escalate, Die, Take, Store, StopService, ServiceEnds, CrashService, Restart,
    Log, Tick, Loss, Vacuum, Rebuild, Quiet, vars
<1>7. Stays(file') /\ Stays(cursor') /\ Stays(pending')
  <2> HIDE DEF Stays
  <2>1. QED
    BY <1>1, <1>2, <1>3, <1>4, <1>5, <1>6
<1>8. QED
  BY <1>7 DEF CursorInv, Covered

\* The stream begins behind what is covered: behind its cursor, or behind what the
\* notice names.
LEMMA OpenCovers ==
  ASSUME JournalTypes, CursorTypes, LostInv, CursorInv, Open
  PROVE  \A e \in Wanted' : e <= next' - 1 => e \in Known'
<1> SUFFICES ASSUME NEW e \in Wanted', e <= next' - 1 PROVE e \in Known'
  OBVIOUS
<1>1. /\ e \in Wanted /\ e \in 1 .. Len(journal)
      /\ emitted' = emitted /\ agedOut' = agedOut
  BY DEF Open, Wanted, Entries, Printed
<1>2. CASE cursor # 0
  <2>1. next' = After(cursor) /\ reported' = reported
    BY <1>2 DEF Open
  <2>2. cursor > rebuilt /\ (e <= cursor \/ e < first)
    BY <1>1, <2>1 DEF After, Greatest, CursorTypes, JournalTypes
  <2>3. CASE e <= cursor
    BY <1>1, <2>1, <2>3 DEF CursorInv, Covered, Known
  <2>4. CASE e < first /\ e > cursor
    <3>1. e \in agedOut
      BY <1>1, <2>2, <2>4 DEF LostInv, CursorTypes, JournalTypes
    <3>2. QED
      BY <1>1, <3>1 DEF Known
  <2>5. QED
    BY <1>1, <2>2, <2>3, <2>4 DEF CursorTypes, JournalTypes
<1>3. CASE cursor = 0
  <2>1. next' = WindowStart /\ reported' = reported \cup 1 .. WindowStart - 1
    BY <1>3 DEF Open
  <2>2. WindowStart \in Int
    BY DEF WindowStart, Greatest, JournalTypes
  <2>3. e \in reported'
    BY <1>1, <2>1, <2>2
  <2>4. QED
    BY <2>3 DEF Known
<1>4. QED
  BY <1>2, <1>3

LEMMA ReadingStep ==
  ASSUME JournalTypes, CursorTypes, GapInv, [Next]_vars
  PROVE  ReadingInv'
<1> DEFINE Stays(n) == \A e \in Wanted' : e <= n => e \in Known'
<1> USE DEF GapInv
<1>1. CASE Open
  <2>1. Stays(next' - 1) /\ pc' = "read"
    BY <1>1, OpenCovers DEF Open
  <2>2. QED
    BY <2>1 DEF ReadingInv, Covered
<1>2. CASE Read
  <2>1. next' = next + 1 /\ pc' = "emit" /\ next <= Len(journal) /\ pc = "read"
    BY <1>2 DEF Read, Available, Greatest, StreamInv, CursorTypes, JournalTypes
  <2>2. Stays(next - 1)
    BY <2>1, CoveredStays DEF ReadingInv, CursorTypes, JournalTypes
  <2>3. next' - 2 = next - 1
    BY <2>1 DEF CursorTypes
  <2>4. QED
    BY <2>1, <2>2, <2>3 DEF ReadingInv, Covered
<1>3. CASE Emit
  <2>1. next' = next /\ pc' = "advance" /\ pc = "emit" /\ journal' = journal
    BY <1>3 DEF Emit
  <2>2. Stays(next - 2)
    BY <2>1, CoveredStays DEF ReadingInv, CursorTypes, JournalTypes
  <2>3. Current \in emitted' \/ Current \notin Wanted'
    BY <1>3, <2>1 DEF Emit, Wanted, Printed
  <2>4. Stays(next - 1)
    <3> SUFFICES ASSUME NEW e \in Wanted', e <= next - 1 PROVE e \in Known'
      OBVIOUS
    <3>1. e \in Int /\ next \in Int
      BY <2>1 DEF Wanted, Entries, CursorTypes
    <3>2. CASE e <= next - 2
      BY <2>2, <3>2
    <3>3. CASE e = Current
      BY <2>3, <3>3 DEF Known
    <3>4. QED
      BY <3>1, <3>2, <3>3 DEF Current
  <2>5. QED
    BY <2>1, <2>4 DEF ReadingInv, Covered
<1>4. CASE /\ next' = next
           /\ pc' \in {"read", "advance", "save"} => pc \in {"read", "advance", "save"}
           /\ pc' = "emit" => pc = "emit"
  <2>1. pc' \in {"read", "advance", "save"} => Stays(next - 1)
    BY <1>4, CoveredStays DEF ReadingInv, CursorTypes, JournalTypes
  <2>2. pc' = "emit" => Stays(next - 2)
    BY <1>4, CoveredStays DEF ReadingInv, CursorTypes, JournalTypes
  <2>3. QED
    BY <1>4, <2>1, <2>2 DEF ReadingInv, Covered
<1>5. CASE Spawn
  BY <1>5 DEF Spawn, ReadingInv
<1>6. QED
  BY <1>1, <1>2, <1>3, <1>4, <1>5 DEF Next, Collector, Service, Load, Resolve,
    SeekFails, OpenFails, BrokenPipe, Advance, Checkpoint, NoCheckpoint,
    Save, EndOfStream, Finish, LastCheckpoint, NoLastCheckpoint, JournalctlDies, Terminate,
    Killed, Escalate, Die, Take, Store, StopService, ServiceEnds, CrashService, Restart,
    Log, Tick, Loss, Vacuum, Rebuild, Quiet, vars

LEMMA GapStep == TypeInv /\ GapInv /\ [Next]_vars => GapInv'
BY LostStep, StreamStep, CursorInvStep, ReadingStep DEF GapInv, TypeInv

\* The cursor file never is past an event that was neither printed nor reported as
\* not read, whichever calls failed, whoever died, and whatever the journal lost but
\* by a vacuum.
THEOREM CursorLeavesNoGap == Spec => []NoSilentGap
<1>1. GapInv => NoSilentGap
  BY DEF GapInv, CursorInv, Covered, Known, NoSilentGap
<1>2. QED
  BY <1>1, GapInit, GapStep, TypeInvariant, PTL DEF Spec

-----------------------------------------------------------------------------
(* What a crash reads again                                                *)

\* While a cursor waits, it was reached before the next checkpoint was due; at the
\* look at the clock, also since the last one.
WaitInv ==
  /\ pc \in {"load", "resolve", "open"} => pending = 0
  /\ Unsaved /\ ~saveFailed =>
       /\ pc \in {"read", "emit", "advance"} => lastRead < Interval
       /\ pc = "save" => lastRead < Interval \/ lastRead <= since

LEMMA WaitInit == Init => WaitInv
BY DEF Init, WaitInv, Unsaved

LEMMA WaitStep == TypeInv /\ WaitInv /\ [Next]_vars => WaitInv'
<1> SUFFICES ASSUME TypeInv, WaitInv, [Next]_vars PROVE WaitInv'
  OBVIOUS
<1> USE DEF WaitInv, Unsaved, CursorTypes, JournalTypes
<1>1. JournalTypes /\ CursorTypes
  BY DEF TypeInv
<1>2. CASE Spawn
  BY <1>2 DEF Spawn
<1>3. CASE Advance
  BY <1>1, <1>3 DEF Advance
<1>4. CASE Checkpoint
  BY <1>4 DEF Checkpoint, Save
<1>5. CASE NoCheckpoint
  BY <1>1, <1>5 DEF NoCheckpoint, Due
<1>6. CASE LastCheckpoint
  BY <1>6 DEF LastCheckpoint, Save
<1>7. CASE Tick
  BY <1>1, <1>7 DEF Tick, Least
<1>8. CASE Open
  BY <1>8 DEF Open
<1>9. CASE /\ UNCHANGED cursorVars
           /\ pc' = "save" => pc = "save"
           /\ pc' \in {"read", "emit", "advance"} => pc \in {"read", "emit", "advance"}
           /\ pc' \in {"load", "resolve", "open"} => pc \in {"load", "resolve", "open"}
  BY <1>9
<1>10. QED
  BY <1>2, <1>3, <1>4, <1>5, <1>6, <1>7, <1>8, <1>9 DEF Next, Collector, Service, Load,
    Resolve, SeekFails, OpenFails, Read, Emit, BrokenPipe, EndOfStream, Finish,
    NoLastCheckpoint, JournalctlDies, Terminate, Killed, Escalate, Die, Take, Store,
    StopService, ServiceEnds, CrashService, Restart, Log, Vacuum, Rebuild, Quiet, vars

\* What waits for a checkpoint was reached within one interval of the last, whatever
\* the interval is, unless a save failed.
THEOREM RereadIsBounded == Spec => []RereadBounded
<1>1. WaitInv => RereadBounded
  BY DEF WaitInv, RereadBounded
<1>2. QED
  BY <1>1, WaitInit, WaitStep, TypeInvariant, PTL DEF Spec
=============================================================================
