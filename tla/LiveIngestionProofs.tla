------------------------ MODULE LiveIngestionProofs ------------------------
(***************************************************************************)
(* What holds of LiveIngestionService for every queue size, batch size,    *)
(* quarantine cap and set of events, and for any number of reads, faults,  *)
(* stops and runs.                                                         *)
(***************************************************************************)
EXTENDS LiveIngestion, FiniteSetTheorems, TLAPS

USE DEF runnerVars, stopperVars, sourceVars, consumerVars, storeVars, readVars

-----------------------------------------------------------------------------
(* Counting the events of a queue.                                         *)

LEMMA QueuedEventsType ==
  ASSUME NEW S, NEW q \in Seq(S)
  PROVE  /\ IsFiniteSet({i \in DOMAIN q : q[i] # Sentinel})
         /\ QueuedEvents(q) \in Nat
<1>1. IsFiniteSet(1 .. Len(q))
  BY FS_Interval
<1>2. {i \in DOMAIN q : q[i] # Sentinel} \in SUBSET (1 .. Len(q))
  OBVIOUS
<1>3. IsFiniteSet({i \in DOMAIN q : q[i] # Sentinel})
  BY <1>1, <1>2, FS_Subset
<1>4. QED
  BY <1>3, FS_CardinalityType DEF QueuedEvents

LEMMA QueuedEventsAppend ==
  ASSUME NEW S, NEW q \in Seq(S), NEW e \in S
  PROVE  QueuedEvents(Append(q, e)) = QueuedEvents(q) + IF e = Sentinel THEN 0 ELSE 1
<1> DEFINE Pos(s) == {i \in DOMAIN s : s[i] # Sentinel}
           new == Len(q) + 1
<1>1. IsFiniteSet(Pos(q)) /\ QueuedEvents(q) \in Nat
  BY QueuedEventsType
<1>2. new \notin Pos(q)
  OBVIOUS
<1>3. e = Sentinel => Pos(Append(q, e)) = Pos(q)
  OBVIOUS
<1>4. e # Sentinel => Pos(Append(q, e)) = Pos(q) \cup {new}
  OBVIOUS
<1>5. /\ QueuedEvents(q) = Cardinality(Pos(q))
      /\ QueuedEvents(Append(q, e)) = Cardinality(Pos(Append(q, e)))
  BY DEF QueuedEvents
<1> HIDE DEF Pos, new
<1>6. Cardinality(Pos(q) \cup {new}) = Cardinality(Pos(q)) + 1
  BY <1>1, <1>2, FS_AddElement
<1>7. CASE e = Sentinel
  <2>1. QueuedEvents(Append(q, e)) = QueuedEvents(q)
    BY <1>3, <1>5, <1>7
  <2>2. QED
    BY <1>1, <1>7, <2>1
<1>8. CASE e # Sentinel
  <2>1. QueuedEvents(Append(q, e)) = QueuedEvents(q) + 1
    BY <1>4, <1>5, <1>6, <1>8
  <2>2. QED
    BY <1>8, <2>1
<1>9. QED
  BY <1>7, <1>8

LEMMA QueuedEventsTail ==
  ASSUME NEW S, NEW q \in Seq(S), q # <<>>
  PROVE  QueuedEvents(q) = QueuedEvents(Tail(q)) + IF Head(q) = Sentinel THEN 0 ELSE 1
<1> DEFINE Pos(s) == {i \in DOMAIN s : s[i] # Sentinel}
           rest == Pos(q) \ {1}
           shift == [i \in rest |-> i - 1]
<1>1. IsFiniteSet(Pos(q)) /\ QueuedEvents(q) \in Nat
  BY QueuedEventsType
<1>2. IsFiniteSet(rest)
  BY <1>1, FS_RemoveElement
<1>3. shift \in Bijection(rest, Pos(Tail(q)))
  <2>1. Tail(q) \in Seq(S) /\ Len(Tail(q)) = Len(q) - 1
    OBVIOUS
  <2>2. \A i \in DOMAIN Tail(q) : Tail(q)[i] = q[i + 1]
    OBVIOUS
  <2>3. \A i \in rest : shift[i] \in Pos(Tail(q))
    BY <2>1, <2>2
  <2>4. \A j \in Pos(Tail(q)) : j + 1 \in rest /\ shift[j + 1] = j
    BY <2>1, <2>2
  <2>5. \A i, j \in rest : shift[i] = shift[j] => i = j
    OBVIOUS
  <2>6. QED
    BY <2>3, <2>4, <2>5 DEF Bijection, Injection, Surjection, IsInjective
<1>4. 1 \in Pos(q) <=> Head(q) # Sentinel
  OBVIOUS
<1>5. /\ QueuedEvents(q) = Cardinality(Pos(q))
      /\ QueuedEvents(Tail(q)) = Cardinality(Pos(Tail(q)))
  BY DEF QueuedEvents
<1> HIDE DEF Pos, shift
<1>6. Cardinality(Pos(Tail(q))) = Cardinality(rest)
  <2> HIDE DEF rest
  <2>1. QED
    BY <1>2, <1>3, FS_Bijection DEF ExistsBijection
<1>7. Cardinality(rest) = IF 1 \in Pos(q) THEN Cardinality(Pos(q)) - 1 ELSE Cardinality(Pos(q))
  BY <1>1, FS_RemoveElement
<1>8. QED
  BY <1>1, <1>4, <1>5, <1>6, <1>7

\* The writer splits a batch into what it rejects and what it accepts.
LEMMA BatchSplit ==
  ASSUME NEW S, NEW p \in Seq(S)
  PROVE  /\ Cardinality(Accepted(p)) \in Nat /\ Cardinality(Rejected(p)) \in Nat
         /\ Cardinality(Accepted(p)) + Cardinality(Rejected(p)) = Len(p)
<1>1. IsFiniteSet(1 .. Len(p)) /\ Cardinality(1 .. Len(p)) = Len(p)
  <2>1. Len(p) \in Nat
    OBVIOUS
  <2>2. QED
    BY <2>1, FS_Interval
<1>2. /\ Accepted(p) \in SUBSET (1 .. Len(p)) /\ Rejected(p) \in SUBSET (1 .. Len(p))
      /\ Accepted(p) \cup Rejected(p) = 1 .. Len(p)
      /\ Accepted(p) \cap Rejected(p) = {}
  BY DEF Accepted, Rejected
<1>3. IsFiniteSet(Accepted(p)) /\ IsFiniteSet(Rejected(p))
  BY <1>1, <1>2, FS_Subset
<1>4. Cardinality(1 .. Len(p)) = Cardinality(Accepted(p)) + Cardinality(Rejected(p))
                               - Cardinality(Accepted(p) \cap Rejected(p))
  BY <1>2, <1>3, FS_Union
<1>5. Cardinality(Accepted(p)) \in Nat /\ Cardinality(Rejected(p)) \in Nat
  BY <1>3, FS_CardinalityType
<1>6. Cardinality(Accepted(p) \cap Rejected(p)) = 0
  BY <1>2, FS_EmptySet
<1>7. Cardinality(Accepted(p)) + Cardinality(Rejected(p)) = Len(p)
  BY <1>1, <1>2, <1>4, <1>5, <1>6
<1>8. QED
  BY <1>5, <1>7

\* A batch adds at most as many rows as it has accepted events.
LEMMA DuplicatesType ==
  ASSUME NEW S, NEW p \in Seq(S)
  PROVE  Duplicates(p) \in Nat /\ IsFiniteSet(Inserted(p))
<1> DEFINE image == {p[i] : i \in Accepted(p)}
           f == [i \in Accepted(p) |-> p[i]]
<1>1. IsFiniteSet(Accepted(p))
  <2>1. IsFiniteSet(1 .. Len(p))
    BY FS_Interval
  <2>2. Accepted(p) \in SUBSET (1 .. Len(p))
    BY DEF Accepted
  <2>3. QED
    BY <2>1, <2>2, FS_Subset
<1>2. f \in Surjection(Accepted(p), image)
  BY DEF Surjection
<1>3. IsFiniteSet(image) /\ Cardinality(image) <= Cardinality(Accepted(p))
  <2> HIDE DEF f, image
  <2>1. QED
    BY <1>1, <1>2, FS_Surjection
<1>4. Inserted(p) \in SUBSET image
  BY DEF Inserted
<1>5. /\ IsFiniteSet(Inserted(p))
      /\ Cardinality(Inserted(p)) <= Cardinality(image)
  <2> HIDE DEF image
  <2>1. QED
    BY <1>3, <1>4, FS_Subset
<1>6. /\ Cardinality(Accepted(p)) \in Nat
      /\ Cardinality(image) \in Nat
      /\ Cardinality(Inserted(p)) \in Nat
  <2> HIDE DEF image
  <2>1. QED
    BY <1>1, <1>3, <1>5, FS_CardinalityType
<1>7. QED
  <2> HIDE DEF image
  <2>1. QED
    BY <1>3, <1>5, <1>6 DEF Duplicates

-----------------------------------------------------------------------------
(* The types.                                                              *)

LEMMA RecordsDistinct ==
  /\ Sentinel \notin Records /\ NoRecord \notin Records
BY EventsAssumption DEF Records, RecordKinds, Sentinel, NoRecord

\* No thread of a run exists while the runner has not started it; the producer
\* holds a record exactly between reading it and handing it over; the unwritten
\* batch is full only on its way to the writer.
PcInv ==
  /\ runner \in {"idle", "persist", "persistWrite", "check", "clear", "spawn"} =>
       producer \in {"none", "dead"} /\ consumer \in {"none", "dead"}
  /\ runner = "spawnConsumer" => consumer = "none"
  /\ runner = "joinConsumer" => producer = "dead"
  /\ hand \in Records <=> producer \in {"put", "wait"}
  /\ consumer # "flush" => Len(pending) < BatchSize

TypeInv == TypeOK /\ PcInv

LEMMA TypeInit == Init => TypeInv
<1> SUFFICES ASSUME Init PROVE TypeInv
  OBVIOUS
<1>1. ThreadTypes
  BY DEF Init, EmptyStore, ThreadTypes
<1>2. HealthTypes
  BY DEF Init, EmptyStore, HealthTypes, FreshHealth, HealthRecord, Statuses
<1>3. EventTypes
  <2>1. pending \in Batches
    BY DEF Init, EmptyStore, Batches
  <2>2. QED
    BY <2>1, SizesAssumption DEF Init, EmptyStore, EventTypes, EmptyBatch
<1>4. CountTypes
  BY DEF Init, EmptyStore, CountTypes
<1>5. PcInv
  BY SizesAssumption, RecordsDistinct DEF Init, EmptyStore, PcInv
<1>6. QED
  BY <1>1, <1>2, <1>3, <1>4, <1>5 DEF TypeInv, TypeOK

LEMMA ThreadStep == ThreadTypes /\ [Next]_vars => ThreadTypes'
<1> SUFFICES ASSUME ThreadTypes, [Next]_vars PROVE ThreadTypes'
  OBVIOUS
<1> USE DEF ThreadTypes
<1>1. CASE Start \/ Runner
  BY <1>1, ZenonT(30) DEF Start, Runner, StartSnapshot, StartPersist, StartCheck, StartClear,
     SpawnProducer, SpawnConsumer, JoinProducer, JoinConsumer
<1>2. CASE StopRequest \/ Stopper \/ ChildExit
  BY <1>2 DEF StopRequest, Stopper, StopSet, StopMark, StopClose, StopTerminate,
     StopSnapshot, StopWrite, ChildExit, Terminated
<1>3. CASE (\E r \in Records : Read(r)) \/ ReadError
  BY <1>3 DEF ReadError, Read, Terminated
<1>4. CASE Producer
  BY <1>4, ZenonT(30) DEF Producer, OpenSource, SpawnChild, EndOfSource, PutNowait, PutAfterWait,
     RecordDrop, ProducerDone, PutSentinel
<1>5. CASE Consumer
  BY <1>5 DEF Consumer, Get, GetEmpty, CheckProducerDone, Flush, MaybeAnalyse,
     PersistHealth, WriteHealth, LastAnalysis, ConsumerError, ConsumerFinally,
     LastHealthWrite
<1>6. CASE UNCHANGED vars
  BY <1>6 DEF vars
<1>7. QED
  BY <1>1, <1>2, <1>3, <1>4, <1>5, <1>6 DEF Next, Finished

LEMMA CountStep == CountTypes /\ EventTypes /\ [Next]_vars => CountTypes'
<1> SUFFICES ASSUME CountTypes, EventTypes, [Next]_vars PROVE CountTypes'
  OBVIOUS
<1> USE DEF CountTypes
<1>1. CASE Start
  <2>1. QueuedEvents(queue) \in Nat
    BY QueuedEventsType DEF EventTypes
  <2>2. QED
    BY <1>1, <2>1 DEF Start
<1>2. CASE Runner \/ StopRequest \/ Stopper \/ ChildExit
  BY <1>2 DEF Runner, StartSnapshot, StartPersist, StartCheck, StartClear,
     SpawnProducer, SpawnConsumer, JoinProducer, JoinConsumer, StopRequest, Stopper, StopSet, StopMark,
     StopClose, StopTerminate, StopSnapshot, StopWrite, ChildExit, Fault
<1>3. CASE (\E r \in Records : Read(r)) \/ ReadError
  BY <1>3 DEF ReadError, Read, Fault, Terminated
<1>4. CASE Producer
  BY <1>4 DEF Producer, OpenSource, SpawnChild, EndOfSource, PutNowait, PutAfterWait,
     RecordDrop, ProducerDone, PutSentinel, Fault
<1>5. CASE Consumer
  BY <1>5 DEF Consumer, Get, GetEmpty, CheckProducerDone, Flush, MaybeAnalyse,
     PersistHealth, WriteHealth, LastAnalysis, ConsumerError, ConsumerFinally,
     LastHealthWrite, Fault, WriteBatch, QuarantineBatch, ProcessBatch
<1>6. CASE UNCHANGED vars
  BY <1>6 DEF vars
<1>7. QED
  BY <1>1, <1>2, <1>3, <1>4, <1>5, <1>6 DEF Next, Finished

LEMMA HealthStep == HealthTypes /\ EventTypes /\ [Next]_vars => HealthTypes'
<1> SUFFICES ASSUME HealthTypes, EventTypes, [Next]_vars PROVE HealthTypes'
  OBVIOUS
<1> USE DEF HealthTypes, HealthRecord, Statuses, SetError
<1>1. CASE Start \/ Runner
  BY <1>1 DEF Start, FreshHealth, Runner, StartSnapshot, StartPersist, StartCheck, StartClear,
     SpawnProducer, SpawnConsumer, JoinProducer, JoinConsumer
<1>2. CASE StopRequest \/ Stopper \/ ChildExit
  BY <1>2 DEF StopRequest, Stopper, StopSet, StopMark, StopClose, StopTerminate,
     StopSnapshot, StopWrite, ChildExit
<1>3. CASE (\E r \in Records : Read(r)) \/ ReadError
  BY <1>3 DEF ReadError, Read, Fault, Terminated
<1>4. CASE Producer
  <2>1. CASE SpawnChild \/ ReadError \/ EndOfSource
    BY <2>1 DEF SpawnChild, ReadError, EndOfSource
  <2>2. CASE PutAfterWait \/ RecordDrop
    <3>1. health.waits + 1 \in Nat /\ health.dropped + 1 \in Nat
      OBVIOUS
    <3>2. QED
      BY <2>2, <3>1 DEF PutAfterWait, RecordDrop, CountDrop
  <2>3. CASE OpenSource \/ PutNowait \/ ProducerDone \/ PutSentinel
    BY <2>3 DEF OpenSource, PutNowait, ProducerDone, PutSentinel
  <2>4. QED
    BY <1>4, <2>1, <2>2, <2>3 DEF Producer
<1>5. ASSUME NEW from, NEW to, Flush(from, to) PROVE HealthTypes'
  <2>1. /\ Cardinality(Accepted(pending)) \in Nat /\ Cardinality(Rejected(pending)) \in Nat
        /\ Duplicates(pending) \in Nat /\ Len(pending) \in Nat
    BY BatchSplit, DuplicatesType DEF EventTypes, Batches
  <2>2. CASE pending = <<>> /\ UNCHANGED health
    BY <1>5, <2>2 DEF Flush
  <2>3. CASE WriteBatch
    <3>1. /\ health.processed + Cardinality(Accepted(pending)) \in Nat
          /\ health.duplicate + Duplicates(pending) \in Nat
          /\ health.malformed + Cardinality(Rejected(pending)) \in Nat
      BY <2>1
    <3>2. health' \in HealthRecord
      BY <2>3, <3>1 DEF WriteBatch
    <3>3. QED
      BY <1>5, <3>2 DEF Flush
  <2>4. CASE QuarantineBatch
    <3>1. health' \in HealthRecord
      BY <2>1, <2>4, SMTT(30) DEF QuarantineBatch
    <3>2. QED
      BY <1>5, <3>1 DEF Flush
  <2>5. QED
    BY <1>5, <2>2, <2>3, <2>4 DEF Flush
<1>6. CASE Consumer
  BY <1>5, <1>6 DEF Consumer, Get, GetEmpty, CheckProducerDone, MaybeAnalyse,
     PersistHealth, WriteHealth, LastAnalysis, ConsumerError, ConsumerFinally,
     LastHealthWrite, ProcessBatch
<1>7. CASE UNCHANGED vars
  BY <1>7 DEF vars
<1>8. QED
  BY <1>1, <1>2, <1>3, <1>4, <1>6, <1>7 DEF Next, Finished

LEMMA EventStep == TypeInv /\ [Next]_vars => EventTypes'
<1> SUFFICES ASSUME TypeInv, [Next]_vars PROVE EventTypes'
  OBVIOUS
<1> USE SizesAssumption, RecordsDistinct
    DEF TypeInv, TypeOK, PcInv, EventTypes
<1>1. CASE Start
  <2>1. <<>> \in Batches
    BY DEF Batches
  <2>2. QED
    BY <1>1, <2>1 DEF Start, EmptyBatch
<1>2. CASE Runner \/ StopRequest \/ Stopper \/ ChildExit
  BY <1>2 DEF Runner, StartSnapshot, StartPersist, StartCheck, StartClear,
     SpawnProducer, SpawnConsumer, JoinProducer, JoinConsumer, StopRequest, Stopper, StopSet, StopMark,
     StopClose, StopTerminate, StopSnapshot, StopWrite, ChildExit
<1>3. CASE (\E r \in Records : Read(r)) \/ ReadError
  BY <1>3 DEF ReadError, Read, Fault, Terminated
<1>4. CASE Producer
  <2>1. CASE PutNowait
    <3>1. queue' \in Seq(Records \cup {Sentinel}) /\ Len(queue') <= QueueSize
      <4>1. /\ queue \in Seq(Records \cup {Sentinel}) /\ Len(queue) <= QueueSize
            /\ hand \in Records /\ QueueSize \in Nat
        BY <2>1 DEF PutNowait
      <4> HIDE DEF TypeInv, TypeOK, PcInv, EventTypes
      <4>2. QED
        BY <2>1, <4>1 DEF PutNowait
    <3>2. QED
      BY <2>1, <3>1 DEF PutNowait
  <2>2. CASE PutAfterWait
    BY <2>2 DEF PutAfterWait
  <2>3. CASE PutSentinel
    <3>1. queue' \in Seq(Records \cup {Sentinel}) /\ Len(queue') <= QueueSize
      <4>1. /\ queue \in Seq(Records \cup {Sentinel}) /\ Len(queue) <= QueueSize
            /\ QueueSize \in Nat
        OBVIOUS
      <4> HIDE DEF TypeInv, TypeOK, PcInv, EventTypes
      <4>2. QED
        BY <2>3, <4>1 DEF PutSentinel, EndMarked
    <3>2. QED
      BY <2>3, <3>1 DEF PutSentinel
  <2>4. CASE OpenSource \/ SpawnChild \/ ReadError \/ EndOfSource \/ RecordDrop \/ ProducerDone
    BY <2>4 DEF OpenSource, SpawnChild, ReadError, EndOfSource, RecordDrop, ProducerDone
  <2>5. QED
    BY <1>4, <2>1, <2>2, <2>3, <2>4 DEF Producer
<1>5. CASE Get
  <2>1. /\ queue' \in Seq(Records \cup {Sentinel}) /\ Len(queue') <= QueueSize
        /\ Head(queue) \in Records \cup {Sentinel}
    BY <1>5 DEF Get
  <2>2. pending' \in Batches /\ Len(pending') <= BatchSize
    <3>1. CASE pending' = pending
      BY <3>1
    <3>2. CASE pending' = Append(pending, Head(queue)) /\ Head(queue) # Sentinel
      BY <1>5, <2>1, <3>2 DEF Get, Batches
    <3>3. QED
      BY <1>5, <3>1, <3>2 DEF Get
  <2>3. QED
    BY <1>5, <2>1, <2>2 DEF Get
<1>6. ASSUME NEW from, NEW to, Flush(from, to) PROVE EventTypes'
  <2>1. Cardinality(Accepted(pending)) \in Nat
    BY BatchSplit DEF Batches
  <2>2. Inserted(pending) \in SUBSET Records /\ Persisted(pending) \in SUBSET Records
    BY DEF Batches, Inserted, Persisted, Accepted
  <2>3. pending' \in Batches /\ Len(pending') <= BatchSize
    BY <1>6 DEF Flush, Batches
  <2>4. CASE pending = <<>> /\ UNCHANGED <<stored, quarantine, batch>>
    BY <1>6, <2>3, <2>4 DEF Flush
  <2>5. CASE WriteBatch
    BY <1>6, <2>1, <2>2, <2>3, <2>5 DEF Flush, WriteBatch
  <2>6. CASE QuarantineBatch
    <3>1. quarantine' \in Seq(Batches)
      <4>1. quarantine \in Seq(Batches) /\ pending \in Batches
        OBVIOUS
      <4> HIDE DEF TypeInv, TypeOK, PcInv, EventTypes
      <4>2. QED
        BY <2>6, <4>1 DEF QuarantineBatch, QuarantineStore
    <3>2. QED
      BY <1>6, <2>3, <2>6, <3>1 DEF Flush, QuarantineBatch
  <2>7. QED
    BY <1>6, <2>4, <2>5, <2>6 DEF Flush
<1>7. CASE Consumer
  BY <1>5, <1>6, <1>7 DEF Consumer, GetEmpty, CheckProducerDone, MaybeAnalyse,
     PersistHealth, WriteHealth, LastAnalysis, ConsumerError, ConsumerFinally,
     LastHealthWrite, ProcessBatch, EmptyBatch
<1>8. CASE UNCHANGED vars
  BY <1>8 DEF vars
<1>9. QED
  BY <1>1, <1>2, <1>3, <1>4, <1>7, <1>8 DEF Next, Finished

LEMMA PcStep == TypeInv /\ [Next]_vars => PcInv'
<1> SUFFICES ASSUME TypeInv, [Next]_vars PROVE PcInv'
  OBVIOUS
<1> USE SizesAssumption, RecordsDistinct
    DEF TypeInv, TypeOK, PcInv, EventTypes, Batches
<1>0. CASE Start
  BY <1>0 DEF Start
<1>1. CASE Runner
  <2>1. CASE SpawnProducer \/ SpawnConsumer
    BY <2>1 DEF SpawnProducer, SpawnConsumer
  <2>2. CASE StartSnapshot
    BY <2>2 DEF StartSnapshot
  <2>3. CASE StartPersist
    BY <2>3 DEF StartPersist
  <2>4. CASE StartCheck \/ StartClear
    BY <2>4 DEF StartCheck, StartClear
  <2>5. CASE JoinProducer \/ JoinConsumer
    BY <2>5 DEF JoinProducer, JoinConsumer
  <2>6. QED
    BY <1>1, <2>1, <2>2, <2>3, <2>4, <2>5 DEF Runner
<1>2. CASE StopRequest \/ Stopper \/ ChildExit
  BY <1>2 DEF StopRequest, Stopper, StopSet, StopMark, StopClose, StopTerminate,
     StopSnapshot, StopWrite, ChildExit
<1>3. CASE (\E r \in Records : Read(r)) \/ ReadError
  BY <1>3 DEF ReadError, Read, Fault, Terminated
<1>4. CASE Producer
  BY <1>4 DEF Producer, OpenSource, SpawnChild, EndOfSource, PutNowait, PutAfterWait,
     RecordDrop, ProducerDone, PutSentinel
<1>5. CASE Get
  BY <1>5 DEF Get, BatchFull
<1>6. CASE Consumer
  BY <1>5, <1>6 DEF Consumer, GetEmpty, CheckProducerDone, Flush, MaybeAnalyse,
     PersistHealth, WriteHealth, LastAnalysis, ConsumerError, ConsumerFinally,
     LastHealthWrite
<1>7. CASE UNCHANGED vars
  BY <1>7 DEF vars
<1>8. QED
  BY <1>0, <1>1, <1>2, <1>3, <1>4, <1>6, <1>7 DEF Next, Finished

LEMMA TypeStep == TypeInv /\ [Next]_vars => TypeInv'
BY ThreadStep, HealthStep, EventStep, CountStep, PcStep DEF TypeInv, TypeOK

LEMMA TypeInvariant == Spec => []TypeInv
BY TypeInit, TypeStep, PTL DEF Spec

\* The service stays within its memory: the queue never exceeds queue_size and
\* the unwritten batch never exceeds ingest_batch_size.
THEOREM TypeCorrect == Spec => []TypeOK
BY TypeInvariant, PTL DEF TypeInv

-----------------------------------------------------------------------------
(* Safety.                                                                 *)

\* A finding can only cite events that are in the database.
THEOREM AnalysedAreStored == Spec => []AnalysedStored
<1>1. Init => AnalysedStored
  BY DEF Init, EmptyStore, AnalysedStored, EmptyBatch
<1>2. TypeInv /\ AnalysedStored /\ [Next]_vars => AnalysedStored'
  <2> SUFFICES ASSUME TypeInv, AnalysedStored, [Next]_vars PROVE AnalysedStored'
    OBVIOUS
  <2> USE DEF AnalysedStored
  <2>1. CASE Start
    BY <2>1 DEF Start, EmptyBatch
  <2>2. CASE Runner \/ StopRequest \/ Stopper \/ ChildExit
    BY <2>2 DEF Runner, StartSnapshot, StartPersist, StartCheck, StartClear,
     SpawnProducer, SpawnConsumer, JoinProducer, JoinConsumer, StopRequest, Stopper, StopSet,
       StopMark, StopClose, StopTerminate, StopSnapshot, StopWrite, ChildExit
  <2>3. CASE (\E r \in Records : Read(r)) \/ ReadError
    BY <2>3 DEF ReadError, Read, Fault
  <2>4. CASE Producer
    BY <2>4 DEF Producer, OpenSource, SpawnChild, EndOfSource, PutNowait, PutAfterWait,
       RecordDrop, ProducerDone, PutSentinel
  <2>5. ASSUME NEW from, NEW to, Flush(from, to) PROVE AnalysedStored'
    <3>1. Persisted(pending) \subseteq stored \cup Inserted(pending)
      BY DEF Persisted, Inserted
    <3>2. QED
      BY <2>5, <3>1 DEF Flush, WriteBatch, QuarantineBatch, QuarantineStore
  <2>6. CASE Consumer
    BY <2>5, <2>6 DEF Consumer, Get, GetEmpty, CheckProducerDone, MaybeAnalyse,
       PersistHealth, WriteHealth, LastAnalysis, ConsumerError, ConsumerFinally,
       LastHealthWrite, ProcessBatch, EmptyBatch
  <2>7. CASE UNCHANGED vars
    BY <2>7 DEF vars
  <2>8. QED
    BY <2>1, <2>2, <2>3, <2>4, <2>6, <2>7 DEF Next, Finished
<1>3. QED
  BY <1>1, <1>2, TypeInvariant, PTL DEF Spec

\* What an action must leave alone, or keep the sum of, for Conservation.
Parts == <<offered, discarded, hand, queue, pending>>
SameCounters ==
  /\ health'.processed = health.processed /\ health'.malformed = health.malformed
  /\ health'.dropped = health.dropped /\ health'.kernelLost = health.kernelLost
  /\ health'.quarantined = health.quarantined

LEMMA ConservationStutter ==
  Conservation /\ UNCHANGED Parts /\ SameCounters => Conservation'
BY DEF Conservation, InFlight, InHand, Counted, Parts, SameCounters

\* Every record read is in exactly one place: one counter, the queue, the
\* unwritten batch or the producer's hand.
THEOREM RecordsConserved == Spec => []Conservation
<1>1. Init => Conservation
  <2> SUFFICES ASSUME Init PROVE Conservation
    OBVIOUS
  <2>1. {i \in DOMAIN queue : queue[i] # Sentinel} = {}
    BY DEF Init, EmptyStore
  <2>2. QueuedEvents(queue) = 0
    BY <2>1, FS_EmptySet DEF QueuedEvents
  <2>3. QED
    BY <2>2 DEF Init, EmptyStore, Conservation, InFlight, InHand, Counted, FreshHealth
<1>2. TypeInv /\ Conservation /\ [Next]_vars => Conservation'
  <2> SUFFICES ASSUME TypeInv, Conservation, [Next]_vars PROVE Conservation'
    OBVIOUS
  <2>t. /\ health \in HealthRecord /\ offered \in Nat /\ discarded \in Nat
        /\ queue \in Seq(Records \cup {Sentinel}) /\ pending \in Seq(Records)
        /\ hand \in Records \cup {NoRecord}
        /\ hand \in Records <=> producer \in {"put", "wait"}
    BY DEF TypeInv, TypeOK, PcInv, HealthTypes, EventTypes, CountTypes, Batches
  <2>n. /\ QueuedEvents(queue) \in Nat /\ Len(pending) \in Nat
        /\ InHand \in Nat /\ Counted \in Nat
    <3>1. /\ health.processed \in Nat /\ health.malformed \in Nat /\ health.dropped \in Nat
          /\ health.kernelLost \in Nat /\ health.quarantined \in Nat
      BY <2>t DEF HealthRecord
    <3>2. QueuedEvents(queue) \in Nat
      BY <2>t, QueuedEventsType
    <3>3. Len(pending) \in Nat
      BY <2>t
    <3>4. InHand \in Nat
      BY DEF InHand
    <3>5. discarded \in Nat
      BY <2>t
    <3>6. Counted \in Nat
      BY <3>1, <3>5 DEF Counted
    <3>7. QED
      BY <3>2, <3>3, <3>4, <3>6
  <2>c. offered = InHand + QueuedEvents(queue) + Len(pending) + Counted
    BY DEF Conservation, InFlight
  <2>q. offered' = InHand' + QueuedEvents(queue') + Len(pending') + Counted' => Conservation'
    BY DEF Conservation, InFlight
  <2>1. CASE Start
    BY <2>t, <2>n, <2>1 DEF Start, FreshHealth, Conservation, InFlight, InHand, Counted
  <2>2. CASE Runner \/ StopRequest \/ Stopper \/ ChildExit
    <3>1. UNCHANGED Parts /\ SameCounters
      BY <2>t, <2>2 DEF Runner, StartSnapshot, StartPersist, StartCheck, StartClear,
     SpawnProducer, SpawnConsumer, JoinProducer, JoinConsumer, StopRequest, Stopper, StopSet,
         StopMark, StopClose, StopTerminate, StopSnapshot, StopWrite, ChildExit,
         Parts, SameCounters, HealthRecord
    <3>2. QED
      BY <3>1, ConservationStutter
  <2>3. ASSUME NEW r \in Records, Read(r) PROVE Conservation'
    <3>1. offered' = offered + 1 /\ UNCHANGED <<queue, pending>> /\ hand = NoRecord
      BY <2>t, <2>3 DEF Read
    <3>2. CASE UNCHANGED hand /\ Counted' = Counted + 1
      <4>1. InHand' = InHand
        BY <3>2 DEF InHand
      <4>2. QED
        BY <2>n, <2>c, <2>q, <3>1, <3>2, <4>1, SMTT(30)
    <3>3. CASE hand' = r /\ Counted' = Counted
      <4>1. InHand = 0 /\ InHand' = 1
        BY <3>1, <3>3, RecordsDistinct DEF InHand
      <4>2. QED
        BY <2>n, <2>c, <2>q, <3>1, <3>3, <4>1
    <3>4. \/ discarded' = discarded + 1 /\ UNCHANGED <<hand, health>>
          \/ UNCHANGED <<discarded, hand>> /\ health' = [health EXCEPT !.malformed = @ + 1]
          \/ UNCHANGED <<discarded, hand>> /\ health' = [health EXCEPT !.kernelLost = @ + 1]
          \/ UNCHANGED <<discarded, health>> /\ hand' = r
      BY <2>3 DEF Read
    <3>n. /\ health.processed \in Nat /\ health.malformed \in Nat
          /\ health.dropped \in Nat /\ health.kernelLost \in Nat
          /\ health.quarantined \in Nat /\ discarded \in Nat
      BY <2>t DEF HealthRecord
    <3>5. CASE discarded' = discarded + 1 /\ UNCHANGED <<hand, health>>
      <4>0. health' = health /\ discarded' = discarded + 1
        BY <3>5
      <4>1. Counted' = Counted + 1
        <5>1. Counted' = (discarded + 1) + health.processed + health.malformed
                         + health.dropped + health.kernelLost + health.quarantined
          BY <4>0 DEF Counted
        <5>2. Counted = discarded + health.processed + health.malformed + health.dropped
                        + health.kernelLost + health.quarantined
          BY DEF Counted
        <5>3. QED
          BY <3>n, <5>1, <5>2
      <4>2. QED
        BY <3>2, <3>5, <4>1
    <3>6. CASE UNCHANGED <<discarded, hand>> /\ health' = [health EXCEPT !.malformed = @ + 1]
      <4>1. /\ health'.malformed = health.malformed + 1 /\ discarded' = discarded
            /\ health'.processed = health.processed /\ health'.dropped = health.dropped
            /\ health'.kernelLost = health.kernelLost /\ health'.quarantined = health.quarantined
        BY <2>t, <3>6 DEF HealthRecord
      <4>2. Counted' = Counted + 1
        BY <3>n, <4>1 DEF Counted
      <4>3. QED
        BY <3>2, <3>6, <4>2
    <3>7. CASE UNCHANGED <<discarded, hand>> /\ health' = [health EXCEPT !.kernelLost = @ + 1]
      <4>1. /\ health'.kernelLost = health.kernelLost + 1 /\ discarded' = discarded
            /\ health'.processed = health.processed /\ health'.malformed = health.malformed
            /\ health'.dropped = health.dropped /\ health'.quarantined = health.quarantined
        BY <2>t, <3>7 DEF HealthRecord
      <4>2. Counted' = Counted + 1
        BY <3>n, <4>1 DEF Counted
      <4>3. QED
        BY <3>2, <3>7, <4>2
    <3>8. CASE UNCHANGED <<discarded, health>> /\ hand' = r
      BY <3>3, <3>8 DEF Counted
    <3>9. QED
      BY <3>4, <3>5, <3>6, <3>7, <3>8
  <2>4. ASSUME queue' = Append(queue, hand), hand' = NoRecord, hand \in Records,
               UNCHANGED <<pending, offered, discarded>>, SameCounters
        PROVE  Conservation'
    <3>1. QueuedEvents(queue') = QueuedEvents(queue) + 1
      BY <2>t, <2>4, QueuedEventsAppend, RecordsDistinct
    <3>2. InHand = 1 /\ InHand' = 0
      BY <2>4, RecordsDistinct DEF InHand
    <3>3. Counted' = Counted
      BY <2>4 DEF Counted, SameCounters
    <3>4. QED
      BY <2>n, <2>c, <2>q, <2>4, <3>1, <3>2, <3>3
  <2>5. CASE PutNowait \/ PutAfterWait
    <3>1. hand \in Records /\ UNCHANGED <<pending, offered, discarded>> /\ SameCounters
      BY <2>t, <2>5 DEF PutNowait, PutAfterWait, SameCounters, HealthRecord
    <3>2. \/ UNCHANGED <<queue, hand>>
          \/ queue' = Append(queue, hand) /\ hand' = NoRecord
      BY <2>5 DEF PutNowait, PutAfterWait
    <3>3. QED
      BY <2>4, <3>1, <3>2, ConservationStutter DEF Parts
  <2>6. CASE RecordDrop
    <3>1. InHand = 1 /\ InHand' = 0 /\ UNCHANGED <<offered, queue, pending>>
      BY <2>t, <2>6, RecordsDistinct DEF RecordDrop, InHand
    <3>2. Counted' = Counted + 1
      BY <2>t, <2>6 DEF RecordDrop, CountDrop, Counted, HealthRecord
    <3>3. QED
      BY <2>n, <2>c, <2>q, <3>1, <3>2
  <2>7. CASE PutSentinel
    <3>1. UNCHANGED <<hand, pending, offered, discarded, health>>
      BY <2>7 DEF PutSentinel
    <3>2. QueuedEvents(queue') = QueuedEvents(queue)
      <4>1. CASE queue' = Append(queue, Sentinel)
        <5>1. Sentinel \in Records \cup {Sentinel}
          OBVIOUS
        <5>2. QueuedEvents(Append(queue, Sentinel)) = QueuedEvents(queue) + 0
          BY <2>t, <5>1, QueuedEventsAppend
        <5>3. QED
          BY <2>n, <4>1, <5>2
      <4>2. QED
        BY <2>7, <4>1 DEF PutSentinel, EndMarked
    <3>3. QED
      BY <2>n, <2>c, <2>q, <3>1, <3>2 DEF InHand, Counted
  <2>8. CASE OpenSource \/ SpawnChild \/ ReadError \/ EndOfSource \/ ProducerDone
    <3>1. UNCHANGED Parts /\ SameCounters
      BY <2>t, <2>8 DEF OpenSource, SpawnChild, ReadError, EndOfSource, ProducerDone, SetError,
         Parts, SameCounters, HealthRecord
    <3>2. QED
      BY <3>1, ConservationStutter
  <2>9. CASE Get
    <3>1. queue # <<>> /\ queue' = Tail(queue) /\ UNCHANGED <<hand, offered, discarded>>
      BY <2>9 DEF Get
    <3>2. QueuedEvents(queue) = QueuedEvents(queue') + IF Head(queue) = Sentinel THEN 0 ELSE 1
      BY <2>t, <3>1, QueuedEventsTail
    <3>3. QueuedEvents(queue') \in Nat
      <4>1. queue' \in Seq(Records \cup {Sentinel})
        BY <2>t, <3>1
      <4>2. QED
        BY <4>1, QueuedEventsType
    <3>4. InHand' = InHand
      BY <3>1 DEF InHand
    <3>5. \/ Head(queue) = Sentinel /\ UNCHANGED <<pending, health>>
          \/ /\ Head(queue) # Sentinel /\ UNCHANGED pending
             /\ health' = [health EXCEPT !.malformed = @ + 1]
          \/ /\ Head(queue) # Sentinel /\ UNCHANGED health
             /\ pending' = Append(pending, Head(queue))
      BY <2>9 DEF Get, Sentinel
    <3>6. CASE Head(queue) = Sentinel /\ UNCHANGED <<pending, health>>
      BY <2>n, <2>c, <2>q, <3>1, <3>2, <3>3, <3>4, <3>6 DEF Counted
    <3>7. CASE /\ Head(queue) # Sentinel /\ UNCHANGED pending
               /\ health' = [health EXCEPT !.malformed = @ + 1]
      <4>1. Counted' = Counted + 1
        <5>1. /\ discarded \in Nat /\ discarded' = discarded
              /\ health.processed \in Nat /\ health'.processed = health.processed
              /\ health.malformed \in Nat /\ health'.malformed = health.malformed + 1
              /\ health.dropped \in Nat /\ health'.dropped = health.dropped
              /\ health.kernelLost \in Nat /\ health'.kernelLost = health.kernelLost
              /\ health.quarantined \in Nat /\ health'.quarantined = health.quarantined
          BY <2>t, <3>1, <3>7 DEF HealthRecord
        <5>2. QED
          BY <5>1 DEF Counted
      <4>2. QED
        BY <2>n, <2>c, <2>q, <3>1, <3>2, <3>3, <3>4, <3>7, <4>1
    <3>8. CASE /\ Head(queue) # Sentinel /\ UNCHANGED health
               /\ pending' = Append(pending, Head(queue))
      <4>1. Len(pending') = Len(pending) + 1
        BY <2>t, <3>8
      <4>2. Counted' = Counted
        BY <3>1, <3>8 DEF Counted
      <4>3. QED
        BY <2>n, <2>c, <2>q, <3>1, <3>2, <3>3, <3>4, <3>8, <4>1, <4>2
    <3>9. QED
      BY <3>5, <3>6, <3>7, <3>8
  <2>10. ASSUME NEW from, NEW to, Flush(from, to) PROVE Conservation'
    <3>1. UNCHANGED <<hand, queue, offered, discarded>> /\ Len(pending') = 0
      BY <2>10 DEF Flush
    <3>2. InHand' = InHand
      BY <3>1 DEF InHand
    <3>3. Counted' = Counted + Len(pending)
      <4>1. CASE pending = <<>> /\ UNCHANGED health
        BY <2>n, <3>1, <4>1 DEF Counted
      <4>2. CASE WriteBatch
        <5>1. PICK a \in Nat, r \in Nat : /\ a = Cardinality(Accepted(pending))
                                         /\ r = Cardinality(Rejected(pending))
                                         /\ a + r = Len(pending)
          BY <2>t, BatchSplit
        <5>2. /\ health'.processed = health.processed + a
              /\ health'.malformed = health.malformed + r
              /\ health'.dropped = health.dropped /\ health'.kernelLost = health.kernelLost
              /\ health'.quarantined = health.quarantined
          BY <2>t, <4>2, <5>1 DEF WriteBatch, HealthRecord
        <5>3. /\ health.processed \in Nat /\ health.malformed \in Nat
              /\ health.dropped \in Nat /\ health.kernelLost \in Nat
              /\ health.quarantined \in Nat
          BY <2>t DEF HealthRecord
        <5>4. discarded \in Nat /\ discarded' = discarded
          BY <2>t, <3>1
        <5>5. Counted' = Counted + (a + r)
          <6>1. Counted' = discarded + (health.processed + a) + (health.malformed + r)
                           + health.dropped + health.kernelLost + health.quarantined
            BY <5>2, <5>4 DEF Counted
          <6>2. Counted = discarded + health.processed + health.malformed + health.dropped
                          + health.kernelLost + health.quarantined
            BY DEF Counted
          <6>3. QED
            BY <5>3, <5>4, <6>1, <6>2
        <5>6. QED
          BY <5>1, <5>5
      <4>3. CASE QuarantineBatch
        <5>1. PICK k \in Nat : k = Len(pending)
          BY <2>t
        <5>2. /\ health'.quarantined = health.quarantined + k
              /\ health'.processed = health.processed /\ health'.malformed = health.malformed
              /\ health'.dropped = health.dropped /\ health'.kernelLost = health.kernelLost
          BY <2>t, <4>3, <5>1 DEF QuarantineBatch, HealthRecord
        <5>3. /\ health.processed \in Nat /\ health.malformed \in Nat
              /\ health.dropped \in Nat /\ health.kernelLost \in Nat
              /\ health.quarantined \in Nat
          BY <2>t DEF HealthRecord
        <5>4. discarded \in Nat /\ discarded' = discarded
          BY <2>t, <3>1
        <5>5. Counted' = Counted + k
          <6>1. Counted' = discarded + health.processed + health.malformed + health.dropped
                           + health.kernelLost + (health.quarantined + k)
            BY <5>2, <5>4 DEF Counted
          <6>2. Counted = discarded + health.processed + health.malformed + health.dropped
                          + health.kernelLost + health.quarantined
            BY DEF Counted
          <6>3. k \in Nat
            BY <5>1
          <6>4. QED
            BY <5>3, <5>4, <6>1, <6>2, <6>3
        <5>6. QED
          BY <5>1, <5>5
      <4>4. QED
        BY <2>10, <4>1, <4>2, <4>3 DEF Flush
    <3>4. QED
      BY <2>n, <2>c, <2>q, <3>1, <3>2, <3>3
  <2>11. CASE Consumer
    <3>1. CASE \/ GetEmpty \/ CheckProducerDone \/ MaybeAnalyse \/ PersistHealth \/ WriteHealth
               \/ LastAnalysis \/ ConsumerError \/ ConsumerFinally \/ LastHealthWrite
      <4>1. UNCHANGED Parts /\ SameCounters
        BY <2>t, <3>1 DEF GetEmpty, CheckProducerDone, MaybeAnalyse, PersistHealth,
           WriteHealth, LastAnalysis, ConsumerError, ConsumerFinally, LastHealthWrite,
           ProcessBatch, SetError, Parts, SameCounters, HealthRecord
      <4>2. QED
        BY <4>1, ConservationStutter
    <3>2. QED
      BY <2>9, <2>10, <2>11, <3>1 DEF Consumer
  <2>12. CASE UNCHANGED vars
    BY <2>12, ConservationStutter DEF vars, Parts, SameCounters
  <2>13. QED
    BY <2>1, <2>2, <2>3, <2>5, <2>6, <2>7, <2>8, <2>11, <2>12 DEF Next, Producer, Finished
<1>3. QED
  BY <1>1, <1>2, TypeInvariant, PTL DEF Spec

-----------------------------------------------------------------------------
(* A failure that has been noticed is not talked over.                     *)

\* In any interleaving, a run that has failed stays failed: neither stop() nor the
\* orderly end of the consumer gives it a better status.
THEOREM FailuresStick == Spec => FailureSticks
<1> DEFINE Sticks == health.status = "failed" /\ runner' # "persist" => health'.status = "failed"
<1>1. ASSUME TypeOK, [Next]_vars PROVE Sticks
  <2>1. health \in HealthRecord
    BY <1>1 DEF TypeOK, HealthTypes
  <2>2. CASE Start \/ Runner
    BY <2>2 DEF Start, Runner, StartSnapshot, StartPersist, StartCheck, StartClear,
       SpawnProducer, SpawnConsumer, JoinProducer, JoinConsumer
  <2>3. CASE StopRequest \/ Stopper \/ ChildExit
    BY <2>1, <2>3 DEF StopRequest, Stopper, StopSet, StopMark, StopClose, StopTerminate,
       StopSnapshot, StopWrite, ChildExit, Terminal, HealthRecord
  <2>4. ASSUME NEW r \in Records, Read(r) PROVE Sticks
    BY <2>1, <2>4 DEF Read, SetError, HealthRecord
  <2>5. CASE ReadError \/ Producer
    BY <2>1, <2>5 DEF ReadError, Producer, OpenSource, SpawnChild, EndOfSource, PutNowait,
       PutAfterWait, RecordDrop, ProducerDone, PutSentinel, CountDrop, SetError, HealthRecord
  <2>6. CASE Get
    BY <2>1, <2>6 DEF Get, HealthRecord
  <2>7. ASSUME NEW from, NEW to, Flush(from, to) PROVE Sticks
    BY <2>1, <2>7 DEF Flush, WriteBatch, QuarantineBatch, HealthRecord
  <2>8. CASE \/ GetEmpty \/ CheckProducerDone \/ MaybeAnalyse \/ PersistHealth \/ WriteHealth
             \/ LastAnalysis \/ ConsumerError \/ ConsumerFinally \/ LastHealthWrite
    BY <2>1, <2>8 DEF GetEmpty, CheckProducerDone, MaybeAnalyse, PersistHealth, WriteHealth,
       LastAnalysis, ConsumerError, ConsumerFinally, LastHealthWrite, ProcessBatch, SetError,
       HealthRecord
  <2>9. CASE Finished \/ UNCHANGED vars
    BY <2>9 DEF Finished, vars
  <2>10. QED
    BY <1>1, <2>2, <2>3, <2>4, <2>5, <2>6, <2>7, <2>8, <2>9 DEF Next, Consumer
<1>2. TypeOK /\ [Next]_vars => [Sticks]_vars
  BY <1>1
<1>3. QED
  BY <1>2, TypeCorrect, PTL DEF Spec, FailureSticks
-----------------------------------------------------------------------------
(* The counters and the table.                                             *)

\* Before the first run nothing runs and nothing is stored.
RowsInv ==
  /\ IsFiniteSet(stored)
  /\ starts = 0 => runner = "idle" /\ consumer = "none" /\ stored = {}
  /\ CountersMatchRows

\* A step that leaves the table, the number of runs and the two counters alone.
SameRows == UNCHANGED <<stored, starts, health.processed, health.duplicate>>

LEMMA RowsStutter ==
  ASSUME RowsInv, SameRows, starts = 0 => runner' = "idle" /\ consumer' = "none"
  PROVE  RowsInv'
BY DEF RowsInv, SameRows, CountersMatchRows

\* The rows a batch adds are new, and what it does not add it counts as duplicate.
LEMMA RowsOfBatch ==
  ASSUME TypeInv, RowsInv, WriteBatch, starts' = starts
  PROVE  IsFiniteSet(stored') /\ CountersMatchRows'
<1> DEFINE accepted == Cardinality(Accepted(pending))
           inserted == Cardinality(Inserted(pending))
<1>1. /\ health \in HealthRecord /\ pending \in Seq(Records) /\ IsFiniteSet(stored)
      /\ starts <= 1 => health.processed - health.duplicate = Cardinality(stored)
  BY DEF TypeInv, TypeOK, HealthTypes, EventTypes, Batches, RowsInv, CountersMatchRows
<1>2. accepted \in Nat /\ IsFiniteSet(Inserted(pending)) /\ Duplicates(pending) = accepted - inserted
  BY <1>1, BatchSplit, DuplicatesType DEF Duplicates
<1>3. Inserted(pending) \cap stored = {}
  BY DEF Inserted
<1>4. inserted \in Nat /\ Cardinality(stored) \in Nat
  BY <1>1, <1>2, FS_CardinalityType
<1>5. IsFiniteSet(stored') /\ Cardinality(stored') = Cardinality(stored) + inserted
  <2>1. stored' = stored \cup Inserted(pending)
    BY DEF WriteBatch
  <2>2. /\ IsFiniteSet(stored \cup Inserted(pending))
        /\ Cardinality(stored \cup Inserted(pending))
             = Cardinality(stored) + inserted - Cardinality(stored \cap Inserted(pending))
    BY <1>1, <1>2, FS_Union
  <2>3. Cardinality(stored \cap Inserted(pending)) = 0
    BY <1>3, FS_EmptySet
  <2> QED
    BY <1>4, <2>1, <2>2, <2>3
<1>6. /\ health'.processed = health.processed + accepted
      /\ health'.duplicate = health.duplicate + (accepted - inserted)
      /\ health.processed \in Nat /\ health.duplicate \in Nat
  BY <1>1, <1>2 DEF WriteBatch, HealthRecord
<1> HIDE DEF accepted, inserted
<1>7. CountersMatchRows'
  <2> SUFFICES ASSUME starts' <= 1
               PROVE  health'.processed - health'.duplicate = Cardinality(stored')
    BY DEF CountersMatchRows
  <2>1. health.processed - health.duplicate = Cardinality(stored)
    BY <1>1
  <2> QED
    BY <1>2, <1>4, <1>5, <1>6, <2>1
<1> QED
  BY <1>5, <1>7

LEMMA RowsStep == TypeInv /\ RowsInv /\ [Next]_vars => RowsInv'
<1> SUFFICES ASSUME TypeInv, RowsInv, [Next]_vars PROVE RowsInv'
  OBVIOUS
<1>t. health \in HealthRecord /\ starts \in Nat
  BY DEF TypeInv, TypeOK, HealthTypes, CountTypes
<1>p. starts = 0 => runner = "idle" /\ consumer = "none"
  BY DEF RowsInv
<1>1. CASE Start
  <2>1. CASE starts = 0
    <3>1. stored' = {} /\ starts' = 1 /\ health'.processed = 0 /\ health'.duplicate = 0
      BY <1>1, <2>1 DEF Start, RowsInv, FreshHealth, storeVars
    <3>2. Cardinality({}) = 0 /\ IsFiniteSet({})
      BY FS_EmptySet
    <3> QED
      BY <3>1, <3>2 DEF RowsInv, CountersMatchRows
  <2>2. CASE starts # 0
    BY <1>t, <1>1, <2>2 DEF Start, RowsInv, CountersMatchRows
  <2> QED
    BY <2>1, <2>2
<1>2. CASE Runner \/ StopRequest \/ Stopper \/ ChildExit
  <2>1. SameRows
    BY <1>t, <1>2 DEF Runner, StartSnapshot, StartPersist, StartCheck, StartClear,
       SpawnProducer, SpawnConsumer, JoinProducer, JoinConsumer, StopRequest, Stopper, StopSet,
       StopMark, StopClose, StopTerminate, StopSnapshot, StopWrite, ChildExit, SameRows,
       HealthRecord
  <2>2. starts = 0 => runner' = "idle" /\ consumer' = "none"
    BY <1>p, <1>2 DEF Runner, StartSnapshot, StartPersist, StartCheck, StartClear,
       SpawnProducer, SpawnConsumer, JoinProducer, JoinConsumer, StopRequest, Stopper, StopSet,
       StopMark, StopClose, StopTerminate, StopSnapshot, StopWrite, ChildExit
  <2> QED
    BY <2>1, <2>2, RowsStutter
<1>3. ASSUME NEW r \in Records, Read(r) PROVE RowsInv'
  <2>1. SameRows /\ UNCHANGED <<runner, consumer>>
    BY <1>t, <1>3 DEF Read, SameRows, HealthRecord
  <2> QED
    BY <1>p, <2>1, RowsStutter
<1>4. CASE ReadError \/ Producer
  <2>1. SameRows /\ UNCHANGED <<runner, consumer>>
    BY <1>t, <1>4 DEF ReadError, Producer, OpenSource, SpawnChild, EndOfSource, PutNowait,
       PutAfterWait, RecordDrop, ProducerDone, PutSentinel, CountDrop, SetError, SameRows,
       HealthRecord
  <2> QED
    BY <1>p, <2>1, RowsStutter
<1>5. ASSUME NEW from \in {"flush", "lastFlush"}, NEW to, Flush(from, to) PROVE RowsInv'
  <2>1. starts' = starts /\ starts # 0
    BY <1>p, <1>5 DEF Flush
  <2>2. CASE WriteBatch
    BY <2>1, <2>2, RowsOfBatch DEF RowsInv
  <2>3. CASE ~ WriteBatch
    <3>1. SameRows
      BY <1>t, <1>5, <2>3 DEF Flush, QuarantineBatch, SameRows, HealthRecord
    <3> QED
      BY <2>1, <3>1, RowsStutter
  <2> QED
    BY <2>2, <2>3
<1>6. CASE \/ Get \/ GetEmpty \/ CheckProducerDone \/ MaybeAnalyse \/ PersistHealth
           \/ WriteHealth \/ LastAnalysis \/ ConsumerError \/ ConsumerFinally \/ LastHealthWrite
  <2>1. SameRows /\ starts # 0
    BY <1>p, <1>t, <1>6 DEF Get, GetEmpty, CheckProducerDone, MaybeAnalyse, PersistHealth,
       WriteHealth, LastAnalysis, ConsumerError, ConsumerFinally, LastHealthWrite, ProcessBatch,
       SetError, SameRows, HealthRecord
  <2> QED
    BY <2>1, RowsStutter
<1>7. CASE Finished \/ UNCHANGED vars
  <2>1. SameRows /\ UNCHANGED <<runner, consumer>>
    BY <1>7 DEF Finished, vars, SameRows
  <2> QED
    BY <1>p, <2>1, RowsStutter
<1> QED
  BY <1>1, <1>2, <1>3, <1>4, <1>5, <1>6, <1>7 DEF Next, Consumer

\* After the first run, however it interleaved and whatever failed, the table holds
\* processed minus duplicate events: no event counts as stored that is not, or twice.
THEOREM CountersMatch == Spec => []CountersMatchRows
<1>1. Init => RowsInv
  <2> SUFFICES ASSUME Init PROVE RowsInv
    OBVIOUS
  <2>1. Cardinality({}) = 0 /\ IsFiniteSet({})
    BY FS_EmptySet
  <2> QED
    BY <2>1 DEF Init, EmptyStore, RowsInv, CountersMatchRows, FreshHealth
<1>2. RowsInv => CountersMatchRows
  BY DEF RowsInv
<1> QED
  BY <1>1, <1>2, RowsStep, TypeInvariant, PTL DEF Spec
=============================================================================
