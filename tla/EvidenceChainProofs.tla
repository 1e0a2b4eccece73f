------------------------ MODULE EvidenceChainProofs ------------------------
(***************************************************************************)
(* For any processes, writers, keys and bounds: the committed table is one *)
(* chain, read as its entries it is an append-only log, and verify_chain   *)
(* accepts it as it is and not as an edit of the file would leave it.      *)
(***************************************************************************)
EXTENDS ChainVerification, FiniteSetTheorems, SequenceTheorems, TLAPS

-----------------------------------------------------------------------------
(* Links and heads                                                         *)

\* Only the linked prefix of a table has chain fields.
LinkedTo(table, k) ==
  /\ k \in 0 .. Len(table)
  /\ IntactTo(table, k)
  /\ \A i \in k + 1 .. Len(table) : table[i].seq = NoSeq

\* What _extend_chain reads as the head of a table is its last linked row.
LEMMA HeadOfLinked ==
  ASSUME NEW table \in Seq(Row), NEW k \in Nat, LinkedTo(table, k)
  PROVE  HeadOf(table) = IF k = 0 THEN NoHead
                         ELSE [seq |-> k - 1, hash |-> table[k].hash]
<1>1. Linked(table) = 1 .. k
  <2>1. DOMAIN table = 1 .. Len(table)
    OBVIOUS
  <2>2. \A i \in 1 .. k : table[i].seq = i - 1
    BY DEF LinkedTo, IntactTo
  <2>3. \A i \in DOMAIN table : i \in 1 .. k <=> table[i].seq # NoSeq
    BY <2>1, <2>2 DEF LinkedTo, NoSeq
  <2> QED
    BY <2>1, <2>3 DEF Linked, LinkedTo
<1>2. CASE k = 0
  BY <1>1, <1>2 DEF HeadOf
<1>3. CASE k # 0
  <2> DEFINE IsLast(i) == \A j \in Linked(table) : table[j].seq <= table[i].seq
  <2>1. \A i \in 1 .. k : table[i].seq = i - 1
    BY DEF LinkedTo, IntactTo
  <2>2. k \in Linked(table) /\ IsLast(k)
    BY <1>1, <1>3, <2>1
  <2>3. \A i \in Linked(table) : IsLast(i) => i = k
    BY <1>1, <1>3, <2>1
  <2>4. (CHOOSE i \in Linked(table) : IsLast(i)) = k
    BY <2>2, <2>3
  <2>5. Linked(table) # {}
    BY <2>2
  <2>6. HeadOf(table) = [seq |-> table[k].seq, hash |-> table[k].hash]
    BY <2>4, <2>5 DEF HeadOf
  <2> QED
    BY <1>3, <2>1, <2>6
<1> QED
  BY <1>2, <1>3

LEMMA NoHeadType == Genesis \in Digest /\ NoHead \in ChainHead
<1>1. Genesis \in Digest
  BY DEF Genesis, Digest
<1> QED
  BY <1>1 DEF NoHead, ChainHead

\* A head is well-typed.
LEMMA HeadType ==
  ASSUME NEW table \in Seq(Row), NEW k \in Nat, LinkedTo(table, k)
  PROVE  HeadOf(table) \in ChainHead
<1>1. CASE k = 0
  BY <1>1, HeadOfLinked, NoHeadType
<1>2. CASE k # 0
  <2>1. table[k] \in Row /\ k - 1 \in Nat
    BY <1>2 DEF LinkedTo
  <2>2. HeadOf(table) = [seq |-> k - 1, hash |-> table[k].hash]
    BY <1>2, HeadOfLinked
  <2>3. table[k].hash \in Digest
    BY <2>1 DEF Row
  <2> QED
    BY <2>1, <2>2, <2>3 DEF ChainHead
<1> QED
  BY <1>1, <1>2

\* A link built on a well-typed head is a row with the same entry.
LEMMA NextLinkType ==
  ASSUME NEW h \in ChainHead, NEW r \in Row
  PROVE  NextLink(h, r) \in Row /\ EntryOf(NextLink(h, r)) = EntryOf(r)
<1>1. h.seq + 1 \in Nat
  BY DEF ChainHead, NoSeq
<1>2. (IF h.seq = NoSeq THEN Genesis ELSE h.hash) \in Digest
  BY DEF ChainHead, Genesis, Digest
<1> DEFINE prev == IF h.seq = NoSeq THEN Genesis ELSE h.hash
<1>3. LinkHash(h.seq + 1, prev, r) \in Digest
  BY <1>1, <1>2 DEF LinkHash, Digest, Row
<1> QED
  BY <1>1, <1>2, <1>3 DEF NextLink, Row, EntryOf

\* Linking the first unlinked row to the head makes the chain one longer.
LEMMA LinkExtends ==
  ASSUME NEW table \in Seq(Row), NEW k \in Nat, LinkedTo(table, k), k < Len(table),
         NEW result,
         result = [table EXCEPT ![k + 1] = NextLink(HeadOf(table), table[k + 1])]
  PROVE  /\ result \in Seq(Row) /\ Len(result) = Len(table)
         /\ LinkedTo(result, k + 1)
         /\ \A i \in DOMAIN table : i # k + 1 => result[i] = table[i]
         /\ \A i \in DOMAIN table : EntryOf(result[i]) = EntryOf(table[i])
<1> DEFINE h == HeadOf(table)
<1>1. k + 1 \in DOMAIN table /\ table[k + 1] \in Row
  BY DEF LinkedTo
<1>2. h \in ChainHead
  BY HeadType
<1>3. NextLink(h, table[k + 1]) \in Row /\ EntryOf(NextLink(h, table[k + 1])) = EntryOf(table[k + 1])
  BY <1>1, <1>2, NextLinkType
<1>4. result \in Seq(Row) /\ Len(result) = Len(table)
  BY <1>1, <1>3
<1>5. \A i \in DOMAIN table : i # k + 1 => result[i] = table[i]
  OBVIOUS
<1>6. result[k + 1] = NextLink(h, table[k + 1])
  BY <1>1
<1>7. \A i \in DOMAIN table : EntryOf(result[i]) = EntryOf(table[i])
  BY <1>3, <1>5, <1>6
<1>8. \A i \in 1 .. k : result[i] = table[i]
  BY <1>5 DEF LinkedTo
<1>9. IntactTo(result, k)
  <2>1. \A i \in 1 .. k : i - 1 \in 1 .. k \/ i = 1
    OBVIOUS
  <2> QED
    BY <1>8, <2>1 DEF IntactTo, LinkedTo
<1>10. h = IF k = 0 THEN NoHead ELSE [seq |-> k - 1, hash |-> table[k].hash]
  BY HeadOfLinked
<1>11. /\ result[k + 1].seq = k
       /\ result[k + 1].prev = IF k + 1 = 1 THEN Genesis ELSE result[k].hash
       /\ result[k + 1].hash = LinkHash(result[k + 1].seq, result[k + 1].prev, result[k + 1])
  <2>1. CASE k = 0
    BY <1>6, <1>10, <2>1 DEF NextLink, NoHead, NoSeq, LinkHash
  <2>2. CASE k # 0
    <3>1. h.seq = k - 1 /\ h.hash = result[k].hash /\ h.seq # NoSeq
      BY <1>8, <1>10, <2>2 DEF NoSeq
    <3> QED
      BY <1>6, <2>2, <3>1 DEF NextLink, LinkHash
  <2> QED
    BY <2>1, <2>2
<1>12. IntactTo(result, k + 1)
  BY <1>9, <1>11 DEF IntactTo
<1>13. \A i \in k + 2 .. Len(result) : result[i].seq = NoSeq
  BY <1>4, <1>5 DEF LinkedTo
<1> QED
  BY <1>4, <1>5, <1>7, <1>12, <1>13 DEF LinkedTo

-----------------------------------------------------------------------------
(* Type correctness                                                        *)

USE DEF database, threads, bounds

\* A transaction's table is the committed one with the new row, still unlinked.
LEMMA UnlinkedType ==
  ASSUME NEW e \in Entry
  PROVE  Unlinked(e) \in Row /\ EntryOf(Unlinked(e)) = e
BY NoHeadType DEF Unlinked, Entry, Row, EntryOf

LEMMA EmptyTable == <<>> \in Seq(Row)
OBVIOUS

LEMMA InitType == Init => TypeOK
<1> SUFFICES ASSUME Init PROVE TypeOK
  OBVIOUS
<1>1. \A i \in DOMAIN Legacy : [key |-> Legacy[i], stamp |-> 0] \in Entry
  BY TableAssumption, BoundsAssumption DEF Entry
<1>2. rows \in Seq(Row)
  <2>1. DOMAIN Legacy = 1 .. Len(Legacy) /\ Len(Legacy) \in Nat
    BY TableAssumption
  <2>2. rows \in [1 .. Len(Legacy) -> Row]
    BY <1>1, <2>1, UnlinkedType DEF Init
  <2> QED
    BY <2>1, <2>2
<1>3. [key |-> Blank.key, stamp |-> 0] \in Entry
  BY WritersAssumption, BoundsAssumption DEF Blank, Entry
<1>4. calls \in 0 .. MaxCalls /\ outages \in 0 .. MaxOutages
  BY BoundsAssumption DEF Init
<1>5. /\ phase \in [Processes -> {"closed", "behind", "migrating", "open"}]
      /\ pc \in [Writers -> {"idle", "lock", "dedup", "insert", "head", "link", "commit"}]
      /\ answer \in [Writers -> Nat]
  BY DEF Init
<1>6. item \in [Writers -> Entry] /\ head \in [Writers -> ChainHead]
  BY <1>3, NoHeadType DEF Init
<1>7. durable \in [rows : Seq(Row), migrated : BOOLEAN] /\ migrated \in BOOLEAN
  BY <1>2 DEF Init
<1>8. draft \in Seq(Row) /\ draft = <<>> /\ other \in BOOLEAN
  BY EmptyTable DEF Init
<1> QED
  BY <1>2, <1>4, <1>5, <1>6, <1>7, <1>8 DEF TypeOK

-----------------------------------------------------------------------------
(* The inductive invariant                                                 *)

Migrating(p) == phase[p] = "migrating"

\* Only one transaction is open.
OneTransaction ==
  /\ \A v, w \in Writers : InTransaction(v) /\ InTransaction(w) => v = w
  /\ \A p, q \in Processes : Migrating(p) /\ Migrating(q) => p = q
  /\ \A p \in Processes, w \in Writers : ~(Migrating(p) /\ InTransaction(w))
  /\ other => /\ \A w \in Writers : ~InTransaction(w)
              /\ \A p \in Processes : ~Migrating(p)

\* A store is open only over a migrated table, and a writer is in a call only
\* with its store open.
OpenFirst ==
  /\ \A p \in Processes : /\ phase[p] = "open" => migrated
                          /\ Migrating(p) => ~migrated
  /\ \A w \in Writers : pc[w] # "idle" => phase[ProcessOf[w]] = "open"

\* The table is a chain, or none of it is before the migration.
ChainedOrNot(table, done) ==
  (done => LinkedTo(table, Len(table))) /\ (~done => LinkedTo(table, 0))

Prefix(s, t) ==
  Len(s) <= Len(t) /\ \A i \in DOMAIN s : EntryOf(s[i]) = EntryOf(t[i])

\* What is on disk is a prefix of the table, or the table before the migration.
TableInv ==
  /\ ChainedOrNot(rows, migrated)
  /\ ChainedOrNot(durable.rows, durable.migrated)
  /\ durable.migrated => migrated
  /\ Prefix(durable.rows, rows)

\* The draft of a writer is the table with one row more, of its own entry and
\* not in the table under another id.
WriterDraft(w) ==
  /\ Len(draft) = Len(rows) + 1 /\ Prefix(rows, draft)
  /\ EntryOf(draft[Len(draft)]) = item[w]
  /\ UniqueKey(w)
  /\ LinkedTo(draft, IF pc[w] = "commit" THEN Len(draft) ELSE Len(rows))
  /\ pc[w] = "link" => head[w] = HeadOf(draft)

WriterInv == \A w \in Writers : InTransaction(w) => WriterDraft(w)

\* The draft of a migration is the table with a prefix of it linked.
MigrationDraft ==
  /\ Len(draft) = Len(rows) /\ Prefix(rows, draft)
  /\ \E k \in 0 .. Len(draft) : LinkedTo(draft, k)

MigrationInv == \A p \in Processes : Migrating(p) => MigrationDraft

IInv == TypeOK /\ OneTransaction /\ OpenFirst /\ TableInv /\ WriterInv /\ MigrationInv

LEMMA InitInv == Init => IInv
<1> SUFFICES ASSUME Init PROVE IInv
  OBVIOUS
<1>1. TypeOK
  BY InitType
<1>2. OneTransaction /\ OpenFirst /\ WriterInv /\ MigrationInv
  BY WritersAssumption DEF Init, OneTransaction, OpenFirst, WriterInv, MigrationInv, Migrating,
                               InTransaction
<1>3. TableInv
  <2>1. rows \in Seq(Row) /\ durable = [rows |-> rows, migrated |-> FALSE] /\ ~migrated
    BY <1>1 DEF TypeOK, Init
  <2>2. \A i \in 1 .. Len(rows) : rows[i].seq = NoSeq
    BY <2>1 DEF Init, Unlinked
  <2>3. LinkedTo(rows, 0)
    BY <2>1, <2>2 DEF LinkedTo, IntactTo
  <2> QED
    BY <2>1, <2>3 DEF TableInv, ChainedOrNot, Prefix
<1> QED
  BY <1>1, <1>2, <1>3 DEF IInv

-----------------------------------------------------------------------------
(* Transactions                                                            *)

\* A step after which nobody is in a transaction who was not before.
NoneBegins ==
  /\ \A w \in Writers : InTransaction(w)' => InTransaction(w)
  /\ \A p \in Processes : Migrating(p)' => Migrating(p)
  /\ other' => other

\* Every step but the three that find the database free is of this kind.
LEMMA Beginners ==
  ASSUME TypeOK, Next
  PROVE  \/ NoneBegins
         \/ \E p \in Processes : BeginMigration(p)
         \/ \E w \in Writers : Insert(w)
         \/ OtherBegin
<1> USE DEF TypeOK, NoneBegins, InTransaction, Migrating
<1>1. ASSUME NEW p \in Processes, ReadVersion(p) \/ BackfillRow(p) \/ CommitMigration(p) \/ MigrationFails(p)
      PROVE  NoneBegins
  <2>1. CASE ReadVersion(p)
    BY <2>1 DEF ReadVersion
  <2>2. CASE BackfillRow(p)
    BY <2>2 DEF BackfillRow
  <2>3. CASE CommitMigration(p)
    BY <2>3 DEF CommitMigration
  <2>4. CASE MigrationFails(p)
    BY <2>4 DEF MigrationFails
  <2> QED
    BY <1>1, <2>1, <2>2, <2>3, <2>4
<1>2. ASSUME NEW w \in Writers, \/ Call(w) \/ Acquire(w) \/ Dedup(w) \/ Refused(w) \/ ReadHead(w)
                                \/ Link(w) \/ Commit(w) \/ Fail(w)
      PROVE  NoneBegins
  <2>1. CASE Call(w)
    BY <2>1 DEF Call
  <2>2. CASE Acquire(w)
    BY <2>2 DEF Acquire
  <2>3. CASE Dedup(w)
    BY <2>3 DEF Dedup
  <2>4. CASE Refused(w)
    BY <2>4 DEF Refused
  <2>5. CASE ReadHead(w)
    BY <2>5 DEF ReadHead
  <2>6. CASE Link(w)
    BY <2>6 DEF Link
  <2>7. CASE Commit(w)
    BY <2>7 DEF Commit
  <2>8. CASE Fail(w)
    BY <2>8 DEF Fail
  <2> QED
    BY <1>2, <2>1, <2>2, <2>3, <2>4, <2>5, <2>6, <2>7, <2>8
<1>3. ASSUME NEW dead \in SUBSET Processes, Die(dead), other' => other
      PROVE  NoneBegins
  BY <1>3 DEF Die
<1>4. CASE \E p \in Processes : Crash(p)
  BY <1>3, <1>4 DEF Crash
<1>5. CASE PowerLoss
  BY <1>3, <1>5 DEF PowerLoss
<1>6. CASE OtherEnd
  BY <1>6 DEF OtherEnd
<1>7. CASE Checkpoint
  BY <1>7 DEF Checkpoint
<1> QED
  BY <1>1, <1>2, <1>4, <1>5, <1>6, <1>7 DEF Next, Open, Step

LEMMA OneTransactionStep ==
  ASSUME TypeOK, OneTransaction, Next
  PROVE  OneTransaction'
<1>1. CASE NoneBegins
  BY <1>1 DEF NoneBegins, OneTransaction
<1>2. ASSUME NEW p \in Processes, BeginMigration(p)
      PROVE  OneTransaction'
  BY <1>2 DEF BeginMigration, DatabaseFree, OneTransaction, Migrating, InTransaction, TypeOK
<1>3. ASSUME NEW w \in Writers, Insert(w)
      PROVE  OneTransaction'
  BY <1>3 DEF Insert, DatabaseFree, OneTransaction, Migrating, InTransaction, TypeOK
<1>4. CASE OtherBegin
  BY <1>4 DEF OtherBegin, DatabaseFree, OneTransaction, Migrating, InTransaction
<1> QED
  BY <1>1, <1>2, <1>3, <1>4, Beginners

LEMMA OpenFirstStep ==
  ASSUME TypeOK, OneTransaction, OpenFirst, Next
  PROVE  OpenFirst'
<1> USE DEF TypeOK, OpenFirst, Migrating
<1>1. ASSUME NEW p \in Processes, ReadVersion(p) PROVE OpenFirst'
  BY <1>1 DEF ReadVersion
<1>2. ASSUME NEW p \in Processes, BeginMigration(p) PROVE OpenFirst'
  <2>1. CASE migrated
    BY <1>2, <2>1, WritersAssumption DEF BeginMigration
  <2>2. CASE ~migrated
    BY <1>2, <2>2, WritersAssumption DEF BeginMigration
  <2> QED
    BY <2>1, <2>2
<1>3. ASSUME NEW p \in Processes, BackfillRow(p) PROVE OpenFirst'
  BY <1>3 DEF BackfillRow
<1>4. ASSUME NEW p \in Processes, CommitMigration(p) PROVE OpenFirst'
  BY <1>4 DEF CommitMigration, OneTransaction
<1>5. ASSUME NEW p \in Processes, MigrationFails(p) PROVE OpenFirst'
  BY <1>5 DEF MigrationFails
<1>6. ASSUME NEW dead \in SUBSET Processes, Die(dead), migrated' = migrated PROVE OpenFirst'
  BY <1>6, WritersAssumption DEF Die
<1>7. CASE \E p \in Processes : Crash(p)
  BY <1>6, <1>7 DEF Crash
<1>8. CASE PowerLoss
  BY <1>8, WritersAssumption DEF PowerLoss, Die
<1>9. ASSUME NEW w \in Writers, Call(w) PROVE OpenFirst'
  BY <1>9 DEF Call
<1>10. ASSUME NEW w \in Writers, Step(w) \/ Fail(w)
       PROVE  OpenFirst'
  <2>1. /\ UNCHANGED <<phase, migrated>>
        /\ \A v \in Writers : pc'[v] # "idle" => pc[v] # "idle"
    BY <1>10 DEF Step, Acquire, Dedup, Insert, Refused, ReadHead, Link, Commit, Fail,
                 HoldsChain, InTransaction
  <2> QED
    BY <2>1
<1>11. CASE OtherBegin \/ OtherEnd \/ Checkpoint
  BY <1>11 DEF OtherBegin, OtherEnd, Checkpoint
<1> QED
  BY <1>1, <1>2, <1>3, <1>4, <1>5, <1>7, <1>8, <1>9, <1>10, <1>11 DEF Next, Open

-----------------------------------------------------------------------------
(* The committed table                                                     *)

LEMMA LinkedSame ==
  ASSUME NEW s \in Seq(Row), NEW t \in Seq(Row), NEW k \in 0 .. Len(s),
         k <= Len(t), \A i \in 1 .. k : s[i] = t[i], IntactTo(s, k)
  PROVE  IntactTo(t, k)
<1>1. \A i \in 1 .. k : i = 1 \/ i - 1 \in 1 .. k
  OBVIOUS
<1> QED
  BY <1>1 DEF IntactTo

\* What is left of a table after its latest rows are lost.
LEMMA CutTable ==
  ASSUME NEW t \in Seq(Row), NEW n \in 0 .. Len(t), NEW done \in BOOLEAN, ChainedOrNot(t, done)
  PROVE  /\ SubSeq(t, 1, n) \in Seq(Row) /\ Len(SubSeq(t, 1, n)) = n
         /\ \A i \in 1 .. n : SubSeq(t, 1, n)[i] = t[i]
         /\ ChainedOrNot(SubSeq(t, 1, n), done)
<1> DEFINE c == SubSeq(t, 1, n)
<1>1. /\ c \in Seq(Row) /\ Len(c) = n
      /\ \A i \in 1 .. n : c[i] = t[i]
  OBVIOUS
<1> HIDE DEF c
<1>2. ASSUME done PROVE ChainedOrNot(c, done)
  <2>1. IntactTo(t, n)
    BY <1>2 DEF ChainedOrNot, LinkedTo, IntactTo
  <2>2. IntactTo(c, n)
    BY <1>1, <2>1, LinkedSame
  <2>3. LinkedTo(c, n)
    BY <1>1, <2>2 DEF LinkedTo
  <2> QED
    BY <1>1, <1>2, <2>3 DEF ChainedOrNot
<1>3. ASSUME ~done PROVE ChainedOrNot(c, done)
  BY <1>1, <1>3 DEF ChainedOrNot, LinkedTo, IntactTo
<1> QED
  BY <1>1, <1>2, <1>3 DEF c

\* A table of which every row is linked is a chain.
LEMMA AllLinked ==
  ASSUME NEW t \in Seq(Row), NEW k \in 0 .. Len(t), LinkedTo(t, k), Linked(t) = DOMAIN t
  PROVE  LinkedTo(t, Len(t))
<1>1. k = Len(t)
  <2>1. SUFFICES ASSUME k < Len(t) PROVE FALSE
    BY DEF LinkedTo
  <2>2. k + 1 \in DOMAIN t /\ t[k + 1].seq = NoSeq
    BY <2>1 DEF LinkedTo
  <2> QED
    BY <2>2 DEF Linked
<1> QED
  BY <1>1

\* Steps that leave the database alone.
LEMMA TableInvStep ==
  ASSUME IInv, Next
  PROVE  TableInv'
<1> USE DEF IInv
<1>1. CASE UNCHANGED <<rows, migrated, durable>>
  BY <1>1 DEF TableInv, ChainedOrNot, LinkedTo, IntactTo, Prefix
<1>2. ASSUME NEW p \in Processes, CommitMigration(p)
      PROVE  TableInv'
  <2>1. PICK k \in 0 .. Len(draft) : LinkedTo(draft, k)
    BY <1>2 DEF CommitMigration, MigrationInv, MigrationDraft, Migrating
  <2>2. LinkedTo(draft, Len(draft))
    BY <1>2, <2>1, AllLinked DEF CommitMigration, TypeOK
  <2>3. rows' = draft /\ migrated' = TRUE /\ durable' = durable
    BY <1>2 DEF CommitMigration
  <2>4. ChainedOrNot(rows, migrated)'
    BY <2>2, <2>3 DEF ChainedOrNot
  <2>5. Prefix(rows, draft)
    BY <1>2 DEF CommitMigration, MigrationInv, MigrationDraft, Migrating
  <2>6. rows \in Seq(Row) /\ durable.rows \in Seq(Row) /\ draft \in Seq(Row)
    BY DEF TypeOK
  <2>7. Prefix(durable.rows, draft)
    BY <2>5, <2>6 DEF TableInv, Prefix
  <2> QED
    BY <2>3, <2>4, <2>7 DEF TableInv
<1>3. ASSUME NEW w \in Writers, Commit(w)
      PROVE  TableInv'
  <2>1. InTransaction(w) /\ LinkedTo(draft, Len(draft)) /\ Prefix(rows, draft)
    BY <1>3 DEF Commit, InTransaction, WriterInv, WriterDraft
  <2>2. migrated
    BY <1>3, WritersAssumption DEF Commit, OpenFirst
  <2>3. rows' = draft /\ migrated' = migrated /\ durable' = durable
    BY <1>3 DEF Commit
  <2>4. ChainedOrNot(rows, migrated)'
    BY <2>1, <2>2, <2>3 DEF ChainedOrNot
  <2>5. rows \in Seq(Row) /\ durable.rows \in Seq(Row) /\ draft \in Seq(Row)
    BY DEF TypeOK
  <2>6. Prefix(durable.rows, draft)
    BY <2>1, <2>5 DEF TableInv, Prefix
  <2> QED
    BY <2>3, <2>4, <2>6 DEF TableInv
<1>4. CASE Checkpoint
  <2>1. durable'.rows = rows /\ durable'.migrated = migrated /\ rows' = rows /\ migrated' = migrated
    BY <1>4 DEF Checkpoint
  <2>2. Prefix(rows, rows)
    BY DEF Prefix, TypeOK
  <2>3. ChainedOrNot(rows, migrated)
    BY DEF TableInv
  <2> QED
    BY <2>1, <2>2, <2>3 DEF TableInv
<1>5. CASE PowerLoss
  <2>1. durable'.rows = rows' /\ durable'.migrated = migrated'
    BY <1>5 DEF PowerLoss
  <2>2. ChainedOrNot(rows, migrated)' /\ Prefix(rows, rows)'
    <3>1. ASSUME NEW n \in Len(durable.rows) .. Len(rows), rows' = SubSeq(rows, 1, n), migrated' = migrated
          PROVE  ChainedOrNot(rows', migrated') /\ Prefix(rows', rows')
      <4>1. n \in 0 .. Len(rows) /\ rows \in Seq(Row) /\ migrated \in BOOLEAN
        BY DEF TypeOK
      <4>2. ChainedOrNot(SubSeq(rows, 1, n), migrated) /\ SubSeq(rows, 1, n) \in Seq(Row)
        BY <4>1, CutTable DEF TableInv
      <4> QED
        BY <3>1, <4>2 DEF Prefix
    <3>2. ASSUME rows' = durable.rows, migrated' = durable.migrated
          PROVE  ChainedOrNot(rows', migrated') /\ Prefix(rows', rows')
      BY <3>2 DEF TableInv, Prefix, TypeOK
    <3> QED
      BY <1>5, <3>1, <3>2 DEF PowerLoss
  <2> QED
    BY <2>1, <2>2 DEF TableInv
<1>6. CASE \E p \in Processes : ReadVersion(p) \/ BeginMigration(p) \/ BackfillRow(p) \/ MigrationFails(p) \/ Crash(p)
  BY <1>1, <1>6 DEF ReadVersion, BeginMigration, BackfillRow, MigrationFails, Crash
<1>7. CASE \E w \in Writers : Call(w) \/ Acquire(w) \/ Dedup(w) \/ Insert(w)
  BY <1>1, <1>7 DEF Call, Acquire, Dedup, Insert
<1>8. CASE \E w \in Writers : Refused(w) \/ ReadHead(w) \/ Link(w) \/ Fail(w)
  BY <1>1, <1>8 DEF Refused, ReadHead, Link, Fail
<1>9. CASE OtherBegin \/ OtherEnd
  BY <1>1, <1>9 DEF OtherBegin, OtherEnd
<1> QED
  BY <1>2, <1>3, <1>4, <1>5, <1>6, <1>7, <1>8, <1>9 DEF Next, Open, Step

-----------------------------------------------------------------------------
(* The drafts                                                              *)

\* A transaction that goes on while another thread steps sees the same tables.
LEMMA DraftsSame ==
  ASSUME WriterInv, MigrationInv, UNCHANGED <<rows, draft, migrated>>,
         \A w \in Writers : InTransaction(w)' => /\ InTransaction(w) /\ pc'[w] = pc[w]
                                                 /\ item'[w] = item[w] /\ head'[w] = head[w],
         \A p \in Processes : Migrating(p)' => Migrating(p)
  PROVE  WriterInv' /\ MigrationInv'
<1>1. ASSUME NEW w \in Writers, InTransaction(w)'
      PROVE  WriterDraft(w)'
  <2>1. WriterDraft(w) /\ pc'[w] = pc[w] /\ item'[w] = item[w] /\ head'[w] = head[w]
    BY <1>1 DEF WriterInv
  <2> QED
    BY <2>1 DEF WriterDraft, LinkedTo, IntactTo, Prefix, UniqueKey, HeadOf, Linked
<1>2. MigrationDraft' <=> MigrationDraft
  BY DEF MigrationDraft, LinkedTo, IntactTo, Prefix
<1> QED
  BY <1>1, <1>2 DEF WriterInv, MigrationInv

\* Nobody is in a transaction.
NoneIn == /\ \A w \in Writers : ~InTransaction(w)
          /\ \A p \in Processes : ~Migrating(p)

LEMMA NoneInDrafts == ASSUME NoneIn' PROVE WriterInv' /\ MigrationInv'
BY DEF NoneIn, WriterInv, MigrationInv

\* A migration begins, and links one row after the other.
LEMMA BackfillDrafts ==
  ASSUME IInv, NEW p \in Processes, BeginMigration(p) \/ BackfillRow(p), OneTransaction'
  PROVE  WriterInv' /\ MigrationInv'
<1> USE DEF IInv
<1>1. CASE BeginMigration(p) /\ migrated
  <2>1. /\ UNCHANGED <<rows, draft, migrated, pc, item, head>>
        /\ \A q \in Processes : Migrating(q)' => Migrating(q)
    BY <1>1 DEF BeginMigration, TypeOK, Migrating
  <2> QED
    BY <2>1, DraftsSame DEF InTransaction
<1>2. CASE BeginMigration(p) /\ ~migrated
  <2>1. draft' = rows /\ rows' = rows /\ rows \in Seq(Row) /\ Migrating(p)'
    BY <1>2 DEF BeginMigration, TypeOK, Migrating
  <2>2. LinkedTo(rows, 0)
    BY <1>2 DEF TableInv, ChainedOrNot
  <2>3. MigrationDraft'
    BY <2>1, <2>2 DEF MigrationDraft, Prefix
  <2> QED
    BY <2>1, <2>3 DEF WriterInv, MigrationInv, OneTransaction
<1>3. CASE BackfillRow(p)
  <2>1. PICK i \in DOMAIN draft : FirstPending(i) /\ draft' = [draft EXCEPT ![i] = NextLink(HeadOf(draft), draft[i])]
    BY <1>3 DEF BackfillRow
  <2>2. Migrating(p) /\ Migrating(p)' /\ MigrationDraft /\ rows' = rows
    BY <1>3 DEF BackfillRow, Migrating, MigrationInv
  <2>3. PICK k \in 0 .. Len(draft) : LinkedTo(draft, k)
    BY <2>2 DEF MigrationDraft
  <2>4. draft \in Seq(Row) /\ rows \in Seq(Row)
    BY DEF TypeOK
  <2>5. i = k + 1 /\ k < Len(draft)
    <3>1. \A j \in 1 .. k : draft[j].seq = j - 1
      BY <2>3 DEF LinkedTo, IntactTo
    <3>2. i \in 1 .. Len(draft) /\ ~(i \in 1 .. k)
      BY <2>1, <2>4, <3>1 DEF FirstPending, NoSeq
    <3>3. ~(k + 1 < i)
      <4>1. SUFFICES ASSUME k + 1 < i PROVE FALSE
        OBVIOUS
      <4>2. k + 1 \in k + 1 .. Len(draft) /\ k + 1 \in DOMAIN draft
        BY <2>3, <2>4, <3>2, <4>1
      <4>3. draft[k + 1].seq = NoSeq
        BY <2>3, <4>2 DEF LinkedTo
      <4> QED
        BY <2>1, <4>1, <4>2, <4>3 DEF FirstPending
    <3> QED
      BY <2>3, <3>2, <3>3
  <2>6. /\ draft' \in Seq(Row) /\ Len(draft') = Len(draft)
        /\ LinkedTo(draft', k + 1)
        /\ \A j \in DOMAIN draft : EntryOf(draft'[j]) = EntryOf(draft[j])
    <3> DEFINE next == [draft EXCEPT ![k + 1] = NextLink(HeadOf(draft), draft[k + 1])]
    <3>1. draft' = next
      BY <2>1, <2>5
    <3>2. k \in Nat /\ k < Len(draft) /\ draft \in Seq(Row) /\ LinkedTo(draft, k)
      BY <2>3, <2>4, <2>5
    <3>3. /\ next \in Seq(Row) /\ Len(next) = Len(draft) /\ LinkedTo(next, k + 1)
          /\ \A j \in DOMAIN draft : EntryOf(next[j]) = EntryOf(draft[j])
      BY <3>2, LinkExtends
    <3> HIDE DEF next
    <3> QED
      BY <3>1, <3>3
  <2>7. MigrationDraft'
    <3>1. Len(draft') = Len(rows) /\ Prefix(rows, draft')
      BY <2>2, <2>4, <2>6 DEF MigrationDraft, Prefix
    <3>2. k + 1 \in 0 .. Len(draft')
      BY <2>5, <2>6
    <3> QED
      BY <2>2, <2>6, <3>1, <3>2 DEF MigrationDraft
  <2> QED
    BY <2>2, <2>7 DEF WriterInv, MigrationInv, OneTransaction
<1> QED
  BY <1>1, <1>2, <1>3

\* The three steps of a write transaction.
LEMMA InsertDrafts ==
  ASSUME IInv, NEW w \in Writers, Insert(w), OneTransaction'
  PROVE  WriterInv' /\ MigrationInv'
<1> USE DEF IInv
<1> DEFINE new == Unlinked(item[w])
<1>1. /\ draft' = Append(rows, new) /\ rows' = rows /\ item' = item
      /\ pc'[w] = "head" /\ UniqueKey(w)
  BY DEF Insert, TypeOK
<1>2. InTransaction(w)'
  BY <1>1 DEF InTransaction
<1>3. rows \in Seq(Row) /\ new \in Row /\ EntryOf(new) = item[w]
  BY UnlinkedType DEF TypeOK
<1>4. new.seq = NoSeq
  BY DEF Unlinked
<1>5. LinkedTo(rows, Len(rows))
  BY WritersAssumption DEF Insert, OpenFirst, TableInv, ChainedOrNot
<1> DEFINE next == Append(rows, new)
<1>6. /\ next \in Seq(Row) /\ Len(next) = Len(rows) + 1
      /\ \A i \in 1 .. Len(rows) : next[i] = rows[i]
      /\ next[Len(rows) + 1] = new
  BY <1>3
<1> HIDE DEF next
<1>7. LinkedTo(next, Len(rows))
  <2>1. IntactTo(next, Len(rows))
    BY <1>3, <1>5, <1>6, LinkedSame DEF LinkedTo
  <2>2. \A i \in Len(rows) + 1 .. Len(next) : next[i].seq = NoSeq
    BY <1>3, <1>4, <1>6
  <2> QED
    BY <1>3, <1>6, <2>1, <2>2 DEF LinkedTo
<1>8. Prefix(rows, next) /\ EntryOf(next[Len(next)]) = item[w]
  BY <1>3, <1>6 DEF Prefix
<1>9. draft' = next
  BY <1>1 DEF next
<1>10. UniqueKey(w)'
  BY <1>1 DEF UniqueKey
<1>11. WriterDraft(w)'
  BY <1>1, <1>6, <1>7, <1>8, <1>9, <1>10 DEF WriterDraft
<1> QED
  BY <1>2, <1>11 DEF WriterInv, MigrationInv, OneTransaction

LEMMA ReadHeadDrafts ==
  ASSUME IInv, NEW w \in Writers, ReadHead(w), OneTransaction'
  PROVE  WriterInv' /\ MigrationInv'
<1> USE DEF IInv
<1>1. /\ draft' = draft /\ rows' = rows /\ item' = item
      /\ pc[w] = "head" /\ pc'[w] = "link" /\ head'[w] = HeadOf(draft)
  BY DEF ReadHead, TypeOK
<1>2. InTransaction(w) /\ InTransaction(w)'
  BY <1>1 DEF InTransaction
<1>3. WriterDraft(w)
  BY <1>2 DEF WriterInv
<1>4. WriterDraft(w)'
  BY <1>1, <1>3 DEF WriterDraft, UniqueKey, Prefix, LinkedTo, IntactTo, HeadOf, Linked
<1> QED
  BY <1>2, <1>4 DEF WriterInv, MigrationInv, OneTransaction

LEMMA LinkDrafts ==
  ASSUME IInv, NEW w \in Writers, Link(w), OneTransaction'
  PROVE  WriterInv' /\ MigrationInv'
<1> USE DEF IInv
<1>1. /\ draft' = [draft EXCEPT ![Len(draft)] = NextLink(head[w], draft[Len(draft)])]
      /\ rows' = rows /\ item' = item /\ pc[w] = "link" /\ pc'[w] = "commit"
  BY DEF Link, TypeOK
<1>2. InTransaction(w) /\ InTransaction(w)'
  BY <1>1 DEF InTransaction
<1>3. WriterDraft(w) /\ draft \in Seq(Row) /\ rows \in Seq(Row)
  BY <1>2 DEF WriterInv, TypeOK
<1> DEFINE k == Len(rows)
           next == [draft EXCEPT ![k + 1] = NextLink(HeadOf(draft), draft[k + 1])]
<1>4. k \in Nat /\ k < Len(draft) /\ Len(draft) = k + 1 /\ LinkedTo(draft, k)
  BY <1>1, <1>3 DEF WriterDraft
<1>5. draft' = next
  BY <1>1, <1>3, <1>4 DEF WriterDraft
<1> HIDE DEF k
<1>11. k \in Nat /\ k < Len(draft) /\ draft \in Seq(Row) /\ LinkedTo(draft, k)
  BY <1>3, <1>4
<1>6. /\ next \in Seq(Row) /\ Len(next) = Len(draft)
      /\ LinkedTo(next, k + 1)
      /\ \A i \in DOMAIN draft : EntryOf(next[i]) = EntryOf(draft[i])
  BY <1>11, LinkExtends
<1> HIDE DEF next
<1>7. Prefix(rows, next) /\ EntryOf(next[Len(next)]) = item[w] /\ Len(next) = Len(rows) + 1
  BY <1>3, <1>4, <1>6 DEF WriterDraft, Prefix, k
<1>8. UniqueKey(w)'
  BY <1>1, <1>3 DEF UniqueKey, WriterDraft
<1>9. LinkedTo(next, Len(next))
  BY <1>4, <1>6
<1>10. WriterDraft(w)'
  BY <1>1, <1>5, <1>7, <1>8, <1>9 DEF WriterDraft
<1> QED
  BY <1>2, <1>10 DEF WriterInv, MigrationInv, OneTransaction

\* A transaction that ends, well or not, leaves nobody in one.
LEMMA EndDrafts ==
  ASSUME IInv, Next,
         \/ \E w \in Writers : InTransaction(w) /\ ~InTransaction(w)'
         \/ \E p \in Processes : Migrating(p) /\ ~Migrating(p)',
         NoneBegins
  PROVE  WriterInv' /\ MigrationInv'
<1>1. NoneIn'
  BY DEF IInv, OneTransaction, NoneBegins, NoneIn
<1> QED
  BY <1>1, NoneInDrafts

LEMMA OpenDrafts ==
  ASSUME IInv, Next, OneTransaction', NEW p \in Processes, Open(p) \/ MigrationFails(p)
  PROVE  WriterInv' /\ MigrationInv'
<1> USE DEF IInv
<1>1. CASE ReadVersion(p) \/ (MigrationFails(p) /\ phase[p] = "behind")
  <2>1. /\ UNCHANGED <<rows, draft, migrated, pc, item, head>>
        /\ \A q \in Processes : Migrating(q)' => Migrating(q)
    BY <1>1 DEF ReadVersion, MigrationFails, TypeOK, Migrating
  <2> QED
    BY <2>1, DraftsSame DEF InTransaction
<1>2. CASE CommitMigration(p) \/ (MigrationFails(p) /\ phase[p] = "migrating")
  <2>1. /\ Migrating(p) /\ ~Migrating(p)' /\ UNCHANGED <<pc, other>>
        /\ \A q \in Processes : Migrating(q)' => Migrating(q)
    BY <1>2 DEF CommitMigration, MigrationFails, TypeOK, Migrating
  <2> QED
    BY <2>1, EndDrafts DEF NoneBegins, InTransaction
<1>3. CASE BeginMigration(p) \/ BackfillRow(p)
  BY <1>3, BackfillDrafts
<1> QED
  BY <1>1, <1>2, <1>3 DEF Open, MigrationFails

LEMMA CallDrafts ==
  ASSUME IInv, Next, OneTransaction', NEW w \in Writers, Call(w) \/ Step(w) \/ Fail(w)
  PROVE  WriterInv' /\ MigrationInv'
<1> USE DEF IInv
<1>1. CASE \/ Call(w) \/ Acquire(w) \/ Dedup(w) \/ Refused(w)
           \/ Fail(w) /\ ~InTransaction(w)
  <2>1. UNCHANGED <<rows, draft, migrated, phase, head>>
    BY <1>1 DEF Call, Acquire, Dedup, Refused, Fail
  <2>2. ~InTransaction(w) /\ ~InTransaction(w)'
    BY <1>1 DEF Call, Acquire, Dedup, Refused, Fail, InTransaction, TypeOK
  <2>3. \A v \in Writers : v # w => pc'[v] = pc[v] /\ item'[v] = item[v]
    BY <1>1 DEF Call, Acquire, Dedup, Refused, Fail, TypeOK
  <2>4. /\ \A v \in Writers : InTransaction(v)' => /\ InTransaction(v) /\ pc'[v] = pc[v]
                                                   /\ item'[v] = item[v] /\ head'[v] = head[v]
        /\ \A p \in Processes : Migrating(p)' => Migrating(p)
    BY <2>1, <2>2, <2>3 DEF InTransaction, Migrating
  <2> QED
    BY <2>1, <2>4, DraftsSame
<1>2. CASE Commit(w) \/ (Fail(w) /\ InTransaction(w))
  <2>1. /\ InTransaction(w) /\ ~InTransaction(w)' /\ UNCHANGED <<phase, other>>
        /\ \A v \in Writers : InTransaction(v)' => InTransaction(v)
    BY <1>2 DEF Commit, Fail, TypeOK, InTransaction
  <2> QED
    BY <2>1, EndDrafts DEF NoneBegins, Migrating
<1>3. CASE Insert(w)
  BY <1>3, InsertDrafts
<1>4. CASE ReadHead(w)
  BY <1>4, ReadHeadDrafts
<1>5. CASE Link(w)
  BY <1>5, LinkDrafts
<1> QED
  BY <1>1, <1>2, <1>3, <1>4, <1>5 DEF Step

LEMMA CrashDrafts ==
  ASSUME IInv, Next, NEW p \in Processes, Crash(p)
  PROVE  WriterInv' /\ MigrationInv'
<1> USE DEF IInv
<1> DEFINE Hit == \/ \E w \in Writers : ProcessOf[w] = p /\ InTransaction(w)
                  \/ Migrating(p)
<1>1. /\ UNCHANGED <<rows, migrated, item, head, other>>
      /\ \A w \in Writers : pc'[w] = IF ProcessOf[w] = p THEN "idle" ELSE pc[w]
      /\ \A q \in Processes : phase'[q] = IF q = p THEN "closed" ELSE phase[q]
      /\ ~Hit => draft' = draft
  BY DEF Crash, Die, Migrating
<1>2. /\ \A w \in Writers : InTransaction(w)' => ProcessOf[w] # p /\ InTransaction(w) /\ pc'[w] = pc[w]
      /\ \A q \in Processes : Migrating(q)' => q # p /\ Migrating(q)
  BY <1>1 DEF InTransaction, Migrating
<1>3. CASE Hit
  BY <1>1, <1>2, <1>3, EndDrafts DEF NoneBegins
<1>4. CASE ~Hit
  BY <1>1, <1>2, <1>4, DraftsSame
<1> QED
  BY <1>3, <1>4

LEMMA DraftsStep ==
  ASSUME IInv, Next, OneTransaction'
  PROVE  WriterInv' /\ MigrationInv'
<1>1. CASE OtherBegin \/ OtherEnd \/ Checkpoint
  <2>1. UNCHANGED <<rows, draft, migrated, phase, pc, item, head>>
    BY <1>1 DEF OtherBegin, OtherEnd, Checkpoint
  <2> QED
    BY <2>1, DraftsSame DEF IInv, InTransaction, Migrating
<1>2. CASE PowerLoss
  <2>1. NoneIn'
    BY <1>2, WritersAssumption DEF PowerLoss, Die, NoneIn, InTransaction, Migrating
  <2> QED
    BY <2>1, NoneInDrafts
<1> QED
  BY <1>1, <1>2, OpenDrafts, CallDrafts, CrashDrafts DEF Next

-----------------------------------------------------------------------------
(* Types are kept                                                          *)

\* The variables of a step that leaves the database and the draft alone.
Tables == /\ rows \in Seq(Row) /\ migrated \in BOOLEAN
          /\ durable \in [rows : Seq(Row), migrated : BOOLEAN]
          /\ draft \in Seq(Row)

Control ==
  /\ phase \in [Processes -> {"closed", "behind", "migrating", "open"}]
  /\ pc \in [Writers -> {"idle", "lock", "dedup", "insert", "head", "link", "commit"}]
  /\ other \in BOOLEAN
  /\ draft # <<>> => \/ \E w \in Writers : InTransaction(w)
                     \/ \E p \in Processes : Migrating(p)

Calls ==
  /\ item \in [Writers -> Entry] /\ head \in [Writers -> ChainHead]
  /\ answer \in [Writers -> Nat]
  /\ calls \in 0 .. MaxCalls /\ outages \in 0 .. MaxOutages

LEMMA TypeParts == TypeOK <=> Tables /\ Control /\ Calls
BY DEF TypeOK, Tables, Control, Calls, Migrating

LEMMA TypePartsNext == TypeOK' <=> Tables' /\ Control' /\ Calls'
BY DEF TypeOK, Tables, Control, Calls, Migrating

LEMMA TablesStep ==
  ASSUME IInv, Next
  PROVE  Tables'
<1> USE TypeParts DEF IInv
<1>1. CASE UNCHANGED <<rows, migrated, durable, draft>>
  BY <1>1 DEF Tables
<1>2. ASSUME NEW p \in Processes, BackfillRow(p)
      PROVE  Tables'
  <2>1. MigrationDraft
    BY <1>2 DEF BackfillRow, MigrationInv, Migrating
  <2>2. PICK k \in 0 .. Len(draft) : LinkedTo(draft, k)
    BY <2>1 DEF MigrationDraft
  <2>3. HeadOf(draft) \in ChainHead
    BY <2>2, HeadType DEF Tables
  <2>4. \A i \in DOMAIN draft : draft[i] \in Row /\ NextLink(HeadOf(draft), draft[i]) \in Row
    BY <2>3, NextLinkType DEF Tables
  <2>5. draft' \in Seq(Row) /\ UNCHANGED <<rows, migrated, durable>>
    BY <1>2, <2>4 DEF BackfillRow, Tables
  <2> QED
    BY <2>5 DEF Tables
<1>3. ASSUME NEW w \in Writers, Link(w)
      PROVE  Tables'
  <2>1. InTransaction(w)
    BY <1>3 DEF Link, InTransaction
  <2>2. Len(draft) = Len(rows) + 1 /\ draft \in Seq(Row) /\ rows \in Seq(Row)
    BY <2>1 DEF WriterInv, WriterDraft, Tables
  <2>3. draft[Len(draft)] \in Row /\ head[w] \in ChainHead
    BY <2>2 DEF Calls
  <2>4. NextLink(head[w], draft[Len(draft)]) \in Row
    BY <2>3, NextLinkType
  <2>5. draft' \in Seq(Row) /\ UNCHANGED <<rows, migrated, durable>>
    BY <1>3, <2>2, <2>4 DEF Link
  <2> QED
    BY <2>5 DEF Tables
<1>4. ASSUME NEW w \in Writers, Insert(w)
      PROVE  Tables'
  <2>1. Unlinked(item[w]) \in Row
    BY UnlinkedType DEF Calls
  <2> QED
    BY <1>4, <2>1 DEF Insert, Tables
<1>5. CASE \E w \in Writers : Commit(w) \/ Fail(w)
  BY <1>5, EmptyTable DEF Commit, Fail, Tables
<1>6. CASE \E p \in Processes : BeginMigration(p)
  BY <1>6 DEF BeginMigration, Tables
<1>7. CASE \E p \in Processes : CommitMigration(p) \/ MigrationFails(p)
  BY <1>7, EmptyTable DEF CommitMigration, MigrationFails, Tables
<1>8. CASE \E p \in Processes : Crash(p)
  BY <1>8, EmptyTable DEF Crash, Die, Tables
<1>9. CASE Checkpoint
  BY <1>9 DEF Checkpoint, Tables
<1>10. CASE PowerLoss
  <2>1. draft' \in Seq(Row)
    BY <1>10, EmptyTable DEF PowerLoss, Die, Tables
  <2>2. rows' \in Seq(Row) /\ migrated' \in BOOLEAN
    <3>1. ASSUME NEW n \in Len(durable.rows) .. Len(rows)
          PROVE  SubSeq(rows, 1, n) \in Seq(Row)
      <4>1. n \in 0 .. Len(rows) /\ rows \in Seq(Row)
        BY DEF Tables
      <4> QED
        BY <4>1
    <3>2. durable.rows \in Seq(Row) /\ durable.migrated \in BOOLEAN /\ migrated \in BOOLEAN
      BY DEF Tables
    <3> QED
      BY <1>10, <3>1, <3>2 DEF PowerLoss
  <2> QED
    BY <1>10, <2>1, <2>2 DEF PowerLoss, Tables
<1>11. CASE \E p \in Processes : ReadVersion(p)
  BY <1>1, <1>11 DEF ReadVersion
<1>12. CASE \E w \in Writers : Call(w) \/ Acquire(w) \/ Dedup(w) \/ Refused(w) \/ ReadHead(w)
  BY <1>1, <1>12 DEF Call, Acquire, Dedup, Refused, ReadHead
<1>13. CASE OtherBegin \/ OtherEnd
  BY <1>1, <1>13 DEF OtherBegin, OtherEnd
<1> QED
  BY <1>2, <1>3, <1>4, <1>5, <1>6, <1>7, <1>8, <1>9, <1>10, <1>11, <1>12, <1>13 DEF Next, Open, Step

LEMMA CallsStep ==
  ASSUME IInv, Next
  PROVE  Calls'
<1> USE TypeParts DEF IInv
<1>1. CASE UNCHANGED <<item, head, answer, calls, outages>>
  BY <1>1 DEF Calls
<1>2. ASSUME NEW w \in Writers, Call(w)
      PROVE  Calls'
  <2>1. calls + 1 \in 0 .. MaxCalls
    BY <1>2, BoundsAssumption DEF Call, Calls
  <2>2. \A k \in Keys : [key |-> k, stamp |-> calls + 1] \in Entry
    BY <2>1 DEF Entry
  <2> QED
    BY <1>2, <2>1, <2>2 DEF Call, Calls
<1>3. ASSUME NEW w \in Writers, Dedup(w)
      PROVE  Calls'
  <2>1. DOMAIN rows \in SUBSET Nat
    BY DEF Tables
  <2> QED
    BY <1>3, <2>1 DEF Dedup, AnswerExisting, Calls
<1>4. ASSUME NEW w \in Writers, ReadHead(w)
      PROVE  Calls'
  <2>1. WriterDraft(w) /\ pc[w] = "head"
    BY <1>4 DEF ReadHead, InTransaction, WriterInv
  <2>2. LinkedTo(draft, Len(rows)) /\ Len(rows) \in Nat /\ draft \in Seq(Row)
    BY <2>1 DEF WriterDraft, Tables
  <2>3. HeadOf(draft) \in ChainHead
    BY <2>2, HeadType
  <2> QED
    BY <1>4, <2>3 DEF ReadHead, Calls
<1>5. ASSUME NEW w \in Writers, Commit(w)
      PROVE  Calls'
  <2>1. Len(draft) \in Nat
    BY DEF Tables
  <2> QED
    BY <1>5, <2>1 DEF Commit, Calls
<1>6. ASSUME NEW dead \in SUBSET Processes, Die(dead)
      PROVE  Calls'
  <2>1. outages' \in 0 .. MaxOutages
    BY <1>6, BoundsAssumption DEF Die, Calls
  <2> QED
    BY <1>6, <2>1 DEF Die, Calls
<1>7. CASE PowerLoss \/ \E p \in Processes : Crash(p)
  BY <1>6, <1>7 DEF PowerLoss, Crash
<1>8. CASE \E p \in Processes : Open(p) \/ MigrationFails(p)
  BY <1>1, <1>8 DEF Open, ReadVersion, BeginMigration, BackfillRow, CommitMigration, MigrationFails
<1>9. CASE \E w \in Writers : Acquire(w) \/ Insert(w) \/ Refused(w) \/ Link(w) \/ Fail(w)
  BY <1>1, <1>9 DEF Acquire, Insert, Refused, Link, Fail
<1>10. CASE OtherBegin \/ OtherEnd \/ Checkpoint
  BY <1>1, <1>10 DEF OtherBegin, OtherEnd, Checkpoint
<1> QED
  BY <1>2, <1>3, <1>4, <1>5, <1>7, <1>8, <1>9, <1>10 DEF Next, Step

LEMMA ControlStep ==
  ASSUME IInv, Next
  PROVE  Control'
<1> USE TypeParts DEF IInv, Control, Migrating, InTransaction
<1>1. ASSUME NEW p \in Processes, Open(p)
      PROVE  Control'
  <2>1. CASE ReadVersion(p)
    BY <2>1 DEF ReadVersion
  <2>2. CASE BeginMigration(p)
    <3>1. CASE migrated
      BY <2>2, <3>1 DEF BeginMigration
    <3>2. CASE ~migrated
      BY <2>2, <3>2 DEF BeginMigration
    <3> QED
      BY <3>1, <3>2
  <2>3. CASE BackfillRow(p)
    BY <2>3 DEF BackfillRow
  <2>4. CASE CommitMigration(p)
    BY <2>4 DEF CommitMigration
  <2> QED
    BY <1>1, <2>1, <2>2, <2>3, <2>4 DEF Open
<1>2. ASSUME NEW p \in Processes, MigrationFails(p)
      PROVE  Control'
  BY <1>2 DEF MigrationFails
<1>3. ASSUME NEW w \in Writers, Call(w) \/ Acquire(w) \/ Dedup(w) \/ Refused(w)
      PROVE  Control'
  <2>1. CASE Call(w)
    BY <2>1 DEF Call
  <2>2. CASE Acquire(w)
    BY <2>2 DEF Acquire
  <2>3. CASE Dedup(w)
    BY <2>3 DEF Dedup
  <2>4. CASE Refused(w)
    BY <2>4 DEF Refused
  <2> QED
    BY <1>3, <2>1, <2>2, <2>3, <2>4
<1>4. ASSUME NEW w \in Writers, Insert(w) \/ ReadHead(w) \/ Link(w)
      PROVE  Control'
  <2>1. CASE Insert(w)
    BY <2>1 DEF Insert
  <2>2. CASE ReadHead(w)
    BY <2>2 DEF ReadHead
  <2>3. CASE Link(w)
    BY <2>3 DEF Link
  <2> QED
    BY <1>4, <2>1, <2>2, <2>3
<1>5. ASSUME NEW w \in Writers, Commit(w) \/ Fail(w)
      PROVE  Control'
  <2>1. CASE Commit(w)
    BY <2>1 DEF Commit
  <2>2. CASE Fail(w)
    BY <2>2 DEF Fail
  <2> QED
    BY <1>5, <2>1, <2>2
<1>6. ASSUME NEW dead \in SUBSET Processes, Die(dead), other' \in BOOLEAN
      PROVE  Control'
  BY <1>6, WritersAssumption DEF Die
<1>7. CASE PowerLoss \/ \E p \in Processes : Crash(p)
  <2>1. CASE PowerLoss
    BY <1>6, <2>1 DEF PowerLoss
  <2>2. CASE \E p \in Processes : Crash(p)
    BY <1>6, <2>2 DEF Crash
  <2> QED
    BY <1>7, <2>1, <2>2
<1>8. CASE OtherBegin \/ OtherEnd \/ Checkpoint
  BY <1>8 DEF OtherBegin, OtherEnd, Checkpoint
<1> QED
  BY <1>1, <1>2, <1>3, <1>4, <1>5, <1>7, <1>8 DEF Next, Step

-----------------------------------------------------------------------------
(* The theorems                                                            *)

LEMMA Inductive == IInv /\ [Next]_vars => IInv'
<1> SUFFICES ASSUME IInv, [Next]_vars PROVE IInv'
  OBVIOUS
<1>1. CASE UNCHANGED vars
  <2>1. TypeOK'
    BY <1>1 DEF vars, IInv, TypeOK, InTransaction
  <2>2. OneTransaction' /\ OpenFirst'
    BY <1>1 DEF vars, IInv, OneTransaction, OpenFirst, InTransaction, Migrating
  <2>3. TableInv'
    BY <1>1 DEF vars, IInv, TableInv, ChainedOrNot, LinkedTo, IntactTo, Prefix
  <2>4. WriterInv' /\ MigrationInv'
    BY <1>1, DraftsSame DEF vars, IInv, InTransaction, Migrating
  <2> QED
    BY <2>1, <2>2, <2>3, <2>4 DEF IInv
<1>2. CASE Next
  <2>1. TypeOK'
    BY <1>2, TablesStep, ControlStep, CallsStep, TypePartsNext
  <2>2. OneTransaction' /\ OpenFirst'
    BY <1>2, OneTransactionStep, OpenFirstStep DEF IInv
  <2>3. TableInv'
    BY <1>2, TableInvStep
  <2>4. WriterInv' /\ MigrationInv'
    BY <1>2, <2>2, DraftsStep
  <2> QED
    BY <2>1, <2>2, <2>3, <2>4 DEF IInv
<1> QED
  BY <1>1, <1>2

LEMMA Invariance == Spec => []IInv
BY InitInv, Inductive, PTL DEF Spec

\* Every variable keeps its type, and a draft exists only in a transaction.
THEOREM TypeCorrect == Spec => []TypeOK
<1>1. IInv => TypeOK
  BY DEF IInv
<1> QED
  BY <1>1, Invariance, PTL

\* For any number of processes and threads, and wherever one of them dies, the
\* committed table of a migrated database is one chain in the order of the ids.
THEOREM ChainNeverForks == Spec => []ChainIntact
<1>1. IInv => ChainIntact
  BY DEF IInv, TableInv, ChainedOrNot, LinkedTo, ChainIntact
<1> QED
  BY <1>1, Invariance, PTL

-----------------------------------------------------------------------------
(* The table is an append-only log                                         *)

Entries(table) == [i \in DOMAIN table |-> EntryOf(table[i])]

LEMMA EntriesType ==
  ASSUME NEW t \in Seq(Row)
  PROVE  /\ Entries(t) \in Seq(Entry) /\ Len(Entries(t)) = Len(t)
         /\ \A i \in 1 .. Len(t) : Entries(t)[i] = EntryOf(t[i])
<1>1. \A i \in 1 .. Len(t) : EntryOf(t[i]) \in Entry
  <2>1. \A r \in Row : EntryOf(r) \in Entry
    BY DEF EntryOf, Entry, Row
  <2>2. \A i \in 1 .. Len(t) : t[i] \in Row
    OBVIOUS
  <2> QED
    BY <2>1, <2>2
<1>2. DOMAIN t = 1 .. Len(t) /\ Len(t) \in Nat
  OBVIOUS
<1>3. Entries(t) \in [1 .. Len(t) -> Entry]
  BY <1>1, <1>2 DEF Entries
<1> QED
  BY <1>2, <1>3 DEF Entries

\* A table of the same entries is the same log.
LEMMA SameEntries ==
  ASSUME NEW s \in Seq(Row), NEW t \in Seq(Row), Len(s) = Len(t), Prefix(s, t)
  PROVE  Entries(t) = Entries(s)
BY DEF Entries, Prefix

\* A table with one row more is the log with that row's entry appended.
LEMMA OneMoreEntry ==
  ASSUME NEW s \in Seq(Row), NEW t \in Seq(Row), Len(t) = Len(s) + 1, Prefix(s, t)
  PROVE  Entries(t) = Append(Entries(s), EntryOf(t[Len(t)]))
<1>1. /\ Entries(s) \in Seq(Entry) /\ Len(Entries(s)) = Len(s)
      /\ \A i \in 1 .. Len(s) : Entries(s)[i] = EntryOf(s[i])
      /\ Entries(t) \in Seq(Entry) /\ Len(Entries(t)) = Len(t)
      /\ \A i \in 1 .. Len(t) : Entries(t)[i] = EntryOf(t[i])
  BY EntriesType
<1> DEFINE e == EntryOf(t[Len(t)])
<1>2. e \in Entry /\ \A i \in 1 .. Len(s) : EntryOf(s[i]) = EntryOf(t[i])
  <2>1. Len(t) \in 1 .. Len(t)
    OBVIOUS
  <2>2. Entries(t)[Len(t)] = e
    BY <1>1, <2>1
  <2> QED
    BY <1>1, <2>1, <2>2 DEF Prefix
<1> HIDE DEF e
<1>3. Entries(t)[Len(t)] = e
  BY <1>1 DEF e
<1> DEFINE one == Entries(s) two == Entries(t)
<1>4. /\ one \in Seq(Entry) /\ two \in Seq(Entry) /\ Len(two) = Len(one) + 1
      /\ \A i \in 1 .. Len(one) : two[i] = one[i]
      /\ two[Len(one) + 1] = e
  BY <1>1, <1>2, <1>3
<1> HIDE DEF one, two
<1>5. two = Append(one, e)
  BY <1>2, <1>4
<1> QED
  BY <1>5 DEF one, two, e

LEMMA InitRefines == Init => Log!Init
<1> SUFFICES ASSUME Init PROVE Log!Init
  OBVIOUS
<1>1. rows \in Seq(Row) /\ durable.rows = rows
  BY InitType DEF TypeOK, Init
<1>2. Entries(rows) \in Seq(Entry) /\ Len(Entries(rows)) = Len(durable.rows)
  BY <1>1, EntriesType
<1> QED
  BY <1>2 DEF Log!Init, Entries

LEMMA StepRefines ==
  ASSUME IInv, [Next]_vars
  PROVE  [Log!Next]_<<Entries(rows), Len(durable.rows)>>
<1> DEFINE logged == Entries(rows)
           onDisk == Len(durable.rows)
<1>1. /\ rows \in Seq(Row) /\ durable.rows \in Seq(Row) /\ draft \in Seq(Row)
      /\ Entries(rows) \in Seq(Entry) /\ Len(Entries(rows)) = Len(rows)
  BY EntriesType DEF IInv, TypeOK
<1>2. CASE UNCHANGED <<rows, durable>>
  BY <1>2 DEF Entries
<1>3. ASSUME NEW w \in Writers, Commit(w)
      PROVE  Log!Record(item[w])
  <2>1. WriterDraft(w) /\ rows' = draft /\ durable' = durable
    BY <1>3 DEF Commit, IInv, WriterInv, InTransaction
  <2>2. Entries(draft) = Append(Entries(rows), item[w])
    BY <1>1, <2>1, OneMoreEntry DEF WriterDraft
  <2>3. \A i \in DOMAIN rows : ~SameFinding(EntryOf(rows[i]), item[w])
    BY <2>1 DEF WriterDraft, UniqueKey, SameFinding, EntryOf
  <2> QED
    BY <2>1, <2>2, <2>3 DEF Log!Record, Entries
<1>4. ASSUME NEW p \in Processes, CommitMigration(p)
      PROVE  UNCHANGED <<Entries(rows), Len(durable.rows)>>
  <2>1. MigrationDraft /\ rows' = draft /\ durable' = durable
    BY <1>4 DEF CommitMigration, IInv, MigrationInv, Migrating
  <2>2. Entries(draft) = Entries(rows)
    BY <1>1, <2>1, SameEntries DEF MigrationDraft
  <2>3. Entries(rows)' = Entries(rows')
    BY DEF Entries
  <2> QED
    BY <2>1, <2>2, <2>3
<1>5. CASE Checkpoint
  <2>1. durable'.rows = rows /\ rows' = rows
    BY <1>5 DEF Checkpoint
  <2> QED
    BY <1>1, <2>1 DEF Log!Next, Log!Sync, Entries
<1>6. CASE PowerLoss
  <2>1. durable'.rows = rows'
    BY <1>6 DEF PowerLoss
  <2>2. Prefix(durable.rows, rows)
    BY DEF IInv, TableInv
  <2>3. PICK n \in Len(durable.rows) .. Len(rows) :
          /\ rows' \in Seq(Row) /\ Len(rows') = n
          /\ \A i \in 1 .. n : EntryOf(rows'[i]) = EntryOf(rows[i])
    <3>1. ASSUME NEW n \in Len(durable.rows) .. Len(rows), rows' = SubSeq(rows, 1, n)
          PROVE  /\ rows' \in Seq(Row) /\ Len(rows') = n
                 /\ \A i \in 1 .. n : EntryOf(rows'[i]) = EntryOf(rows[i])
      <4>1. n \in 0 .. Len(rows) /\ Len(durable.rows) \in Nat
        BY <1>1
      <4> QED
        BY <1>1, <3>1, <4>1
    <3>2. ASSUME rows' = durable.rows
          PROVE  /\ Len(durable.rows) \in Len(durable.rows) .. Len(rows)
                 /\ rows' \in Seq(Row)
                 /\ \A i \in 1 .. Len(durable.rows) : EntryOf(rows'[i]) = EntryOf(rows[i])
      BY <1>1, <2>2, <3>2 DEF Prefix
    <3> QED
      BY <1>6, <3>1, <3>2 DEF PowerLoss
  <2>4. Entries(rows') = SubSeq(Entries(rows), 1, n)
    <3> DEFINE before == Entries(rows) after == Entries(rows')
    <3>1. n \in 0 .. Len(rows) /\ Len(durable.rows) \in Nat
      BY <1>1
    <3>2. \A i \in 1 .. n : rows[i] \in Row /\ before[i] = EntryOf(rows[i]) /\ i \in 1 .. Len(rows)
      BY <1>1, <3>1, EntriesType
    <3>3. after \in Seq(Entry) /\ Len(after) = n /\ \A i \in 1 .. n : after[i] = EntryOf(rows'[i])
      BY <2>3, EntriesType
    <3>4. \A i \in 1 .. n : after[i] = before[i]
      BY <2>3, <3>2, <3>3
    <3>5. before \in Seq(Entry) /\ n \in 0 .. Len(before)
      BY <1>1, <3>1
    <3> HIDE DEF before, after
    <3>6. after = SubSeq(before, 1, n)
      BY <3>3, <3>4, <3>5
    <3> QED
      BY <3>6 DEF before, after
  <2>5. Entries(rows)' = Entries(rows')
    BY DEF Entries
  <2>6. Len(Entries(rows)') = Len(durable.rows)'
    BY <2>1, <2>3, <2>5, EntriesType
  <2>7. Log!LosePower
    BY <1>1, <2>3, <2>4, <2>5, <2>6 DEF Log!LosePower, Entries
  <2> QED
    BY <2>7 DEF Log!Next
<1>7. ASSUME NEW w \in Writers, Commit(w)
      PROVE  Log!Next
  <2>1. item[w] \in Entry
    BY DEF IInv, TypeOK
  <2> QED
    BY <1>3, <1>7, <2>1 DEF Log!Next
<1>8. CASE \E p \in Processes : ReadVersion(p) \/ BeginMigration(p) \/ BackfillRow(p) \/ MigrationFails(p) \/ Crash(p)
  BY <1>2, <1>8 DEF ReadVersion, BeginMigration, BackfillRow, MigrationFails, Crash
<1>9. CASE \E w \in Writers : Call(w) \/ Acquire(w) \/ Dedup(w) \/ Insert(w)
  BY <1>2, <1>9 DEF Call, Acquire, Dedup, Insert
<1>10. CASE \E w \in Writers : Refused(w) \/ ReadHead(w) \/ Link(w) \/ Fail(w)
  BY <1>2, <1>10 DEF Refused, ReadHead, Link, Fail
<1>11. CASE OtherBegin \/ OtherEnd \/ UNCHANGED vars
  BY <1>2, <1>11 DEF OtherBegin, OtherEnd, vars
<1> QED
  BY <1>4, <1>5, <1>6, <1>7, <1>8, <1>9, <1>10, <1>11 DEF Next, Open, Step

\* The detailed table implements the abstract log: whatever the interleaving of
\* writers, migrations and crashes, entries are added at the end, never twice
\* for one provenance hash, and lost only from the end by a loss of power.
THEOREM TableIsALog == Spec => ImplementsLog
<1>1. Init => Log!Init
  BY InitRefines
<1>2. IInv /\ [Next]_vars
      => [Log!Next]_<<[i \in DOMAIN rows |-> EntryOf(rows[i])], Len(durable.rows)>>
  BY StepRefines DEF Entries
<1> QED
  BY <1>1, <1>2, Invariance, PTL DEF Spec, ImplementsLog, Log!Spec

-----------------------------------------------------------------------------
(* Answers                                                                 *)

LEMMA PrefixKeys ==
  ASSUME NEW s \in Seq(Row), NEW t \in Seq(Row), Prefix(s, t)
  PROVE  \A i \in 1 .. Len(s) : t[i].key = s[i].key
<1>1. \A a, b : EntryOf(a) = EntryOf(b) => a.key = b.key
  BY DEF EntryOf
<1>2. \A i \in 1 .. Len(s) : EntryOf(s[i]) = EntryOf(t[i])
  BY DEF Prefix
<1> QED
  BY <1>1, <1>2

LEMMA AnswerStep ==
  ASSUME IInv, AnswerIsStored, [Next]_vars
  PROVE  AnswerIsStored'
<1> USE DEF AnswerIsStored
<1>1. /\ rows \in Seq(Row) /\ draft \in Seq(Row) /\ answer \in [Writers -> Nat]
      /\ item \in [Writers -> Entry] /\ pc \in [Writers -> {"idle", "lock", "dedup", "insert", "head", "link", "commit"}]
  BY DEF IInv, TypeOK
<1>2. CASE UNCHANGED <<rows, item, answer>>
  BY <1>2
<1>3. ASSUME NEW w \in Writers, Call(w)
      PROVE  AnswerIsStored'
  <2>1. answer'[w] = 0 /\ rows' = rows
    BY <1>1, <1>3 DEF Call
  <2>2. \A v \in Writers : v # w => answer'[v] = answer[v] /\ item'[v] = item[v]
    BY <1>1, <1>3 DEF Call
  <2> QED
    BY <2>1, <2>2
<1>4. ASSUME NEW w \in Writers, Dedup(w)
      PROVE  AnswerIsStored'
  <2>1. rows' = rows /\ item' = item
    BY <1>4 DEF Dedup
  <2>2. CASE answer' = answer
    BY <2>1, <2>2
  <2>3. ASSUME NEW i \in DOMAIN rows, rows[i].key = item[w].key, answer' = [answer EXCEPT ![w] = i]
        PROVE  AnswerIsStored'
    BY <1>1, <2>1, <2>3
  <2> QED
    BY <1>4, <2>2, <2>3 DEF Dedup, AnswerExisting
<1>5. ASSUME Prefix(rows, rows'), rows' \in Seq(Row), Len(rows) <= Len(rows'), NEW w \in Writers,
             item' = item, \A v \in Writers : v # w => answer'[v] = answer[v],
             \/ answer'[w] = answer[w]
             \/ answer'[w] = Len(rows') /\ rows'[Len(rows')].key = item[w].key
      PROVE  AnswerIsStored'
  <2>1. \A i \in 1 .. Len(rows) : rows'[i].key = rows[i].key
    BY <1>1, <1>5, PrefixKeys
  <2>2. \A v \in Writers : answer[v] \in Nat
    BY <1>1
  <2> QED
    BY <1>1, <1>5, <2>1, <2>2, SMTT(30)
<1>6. ASSUME NEW w \in Writers, Commit(w)
      PROVE  AnswerIsStored'
  <2>1. WriterDraft(w) /\ rows' = draft /\ item' = item /\ answer' = [answer EXCEPT ![w] = Len(draft)]
    BY <1>6 DEF Commit, IInv, WriterInv, InTransaction
  <2>2. Prefix(rows, rows') /\ rows' \in Seq(Row) /\ Len(rows) <= Len(rows') /\ rows'[Len(rows')].key = item[w].key
    BY <1>1, <2>1 DEF WriterDraft, EntryOf
  <2> QED
    BY <1>1, <1>5, <2>1, <2>2
<1>7. ASSUME NEW p \in Processes, CommitMigration(p)
      PROVE  AnswerIsStored'
  <2>1. MigrationDraft /\ rows' = draft /\ UNCHANGED <<item, answer>>
    BY <1>7 DEF CommitMigration, IInv, MigrationInv, Migrating
  <2>2. \A i \in 1 .. Len(rows) : rows'[i].key = rows[i].key
    BY <1>1, <2>1, PrefixKeys DEF MigrationDraft
  <2>3. Len(rows') = Len(rows)
    BY <2>1 DEF MigrationDraft
  <2> QED
    BY <1>1, <2>1, <2>2, <2>3
<1>8. CASE PowerLoss
  BY <1>8, WritersAssumption DEF PowerLoss, Die
<1>9. CASE \E p \in Processes : Crash(p)
  BY <1>9 DEF Crash, Die
<1>10. CASE \E p \in Processes : ReadVersion(p) \/ BeginMigration(p) \/ BackfillRow(p) \/ MigrationFails(p)
  BY <1>2, <1>10 DEF ReadVersion, BeginMigration, BackfillRow, MigrationFails
<1>11. CASE \E w \in Writers : Acquire(w) \/ Insert(w) \/ Refused(w)
  BY <1>2, <1>11 DEF Acquire, Insert, Refused
<1>12. CASE \E w \in Writers : ReadHead(w) \/ Link(w) \/ Fail(w)
  BY <1>2, <1>12 DEF ReadHead, Link, Fail
<1>13. CASE OtherBegin \/ OtherEnd \/ Checkpoint \/ UNCHANGED vars
  BY <1>2, <1>13 DEF OtherBegin, OtherEnd, Checkpoint, vars
<1> QED
  BY <1>3, <1>4, <1>6, <1>7, <1>8, <1>9, <1>10, <1>11, <1>12, <1>13 DEF Next, Open, Step

\* The id a call returned stays that of a row with the caller's own key.
THEOREM AnswersAreStored == Spec => []AnswerIsStored
<1>1. Init => AnswerIsStored
  BY DEF Init, AnswerIsStored
<1> QED
  BY <1>1, AnswerStep, Invariance, PTL DEF Spec

-----------------------------------------------------------------------------
(* What verify_chain accepts                                               *)

\* The rows are in a strict total order ...
LEMMA PlacesDiffer ==
  ASSUME NEW l \in Nat, NEW t, DOMAIN t = 1 .. l, \A i \in 1 .. l : t[i].seq \in Int,
         NEW i \in 1 .. l, NEW j \in 1 .. l, Before(t, i, j)
  PROVE  Place(t, i) # Place(t, j)
<1> DEFINE Behind(k) == {x \in 1 .. l : Before(t, x, k)}
<1>1. Behind(i) \subseteq Behind(j) /\ i \in Behind(j) /\ i \notin Behind(i)
  BY DEF Before
<1>2. IsFiniteSet(1 .. l)
  BY FS_Interval
<1>3. IsFiniteSet(Behind(j)) /\ IsFiniteSet(Behind(i))
  BY <1>2, FS_Subset
<1>4. Cardinality(Behind(i)) # Cardinality(Behind(j))
  BY <1>1, <1>3, FS_Subset
<1>5. Cardinality(Behind(i)) \in Nat /\ Cardinality(Behind(j)) \in Nat
  BY <1>3, FS_CardinalityType
<1>6. Place(t, i) = Cardinality(Behind(i)) + 1 /\ Place(t, j) = Cardinality(Behind(j)) + 1
  BY DEF Place
<1> HIDE DEF Behind
<1> QED
  BY <1>4, <1>5, <1>6

\* ... in which each has a place of its own.
LEMMA Places ==
  ASSUME NEW l \in Nat, NEW t, DOMAIN t = 1 .. l, \A i \in 1 .. l : t[i].seq \in Int
  PROVE  /\ \A i \in 1 .. l : Place(t, i) \in 1 .. l
         /\ \A i, j \in 1 .. l : Place(t, i) = Place(t, j) => i = j
<1>1. ASSUME NEW i \in 1 .. l PROVE Place(t, i) \in 1 .. l
  <2> DEFINE behind == {x \in 1 .. l : Before(t, x, i)}
             rest   == (1 .. l) \ {i}
  <2>1. IsFiniteSet(1 .. l) /\ Cardinality(1 .. l) = l
    <3>1. Cardinality(1 .. l) = IF 1 > l THEN 0 ELSE l - 1 + 1
      BY FS_Interval
    <3> QED
      BY <3>1, FS_Interval
  <2>2. IsFiniteSet(rest) /\ Cardinality(rest) = l - 1
    BY <2>1, FS_RemoveElement
  <2>3. behind \subseteq rest
    BY DEF Before
  <2>4. IsFiniteSet(behind) /\ Cardinality(behind) <= Cardinality(rest)
    BY <2>2, <2>3, FS_Subset
  <2>5. Cardinality(behind) \in Nat
    BY <2>4, FS_CardinalityType
  <2>6. Place(t, i) = Cardinality(behind) + 1
    BY DEF Place
  <2> HIDE DEF behind, rest
  <2> QED
    BY <2>2, <2>4, <2>5, <2>6
<1>2. ASSUME NEW i \in 1 .. l, NEW j \in 1 .. l, Place(t, i) = Place(t, j), i # j
      PROVE  FALSE
  <2>1. Before(t, i, j) \/ Before(t, j, i)
    BY <1>2 DEF Before
  <2> QED
    BY <1>2, <2>1, PlacesDiffer
<1> QED
  BY <1>1, <1>2

\* A table that is accepted has its rows numbered without a gap or a repetition, and
\* every digest fits its row.
LEMMA AcceptedRows ==
  ASSUME NEW t \in Seq(Row), VerifyChain(t).ok
  PROVE  /\ \A i \in 1 .. Len(t) : /\ t[i].seq \in 0 .. Len(t) - 1
                                   /\ t[i].hash = LinkHash(t[i].seq, t[i].prev, t[i])
         /\ \A i, j \in 1 .. Len(t) : t[i].seq = t[j].seq => i = j
<1>1. PICK l \in Nat : l = Len(t) /\ DOMAIN t = 1 .. l
  OBVIOUS
<1>2. \A i \in 1 .. l : t[i] \in Row /\ t[i].seq \in Int
  <2>1. \A i \in 1 .. l : t[i] \in Row
    BY <1>1
  <2>2. \A r \in Row : r.seq \in Int
    BY DEF Row, NoSeq
  <2> QED
    BY <2>1, <2>2
<1>3. /\ \A i \in 1 .. l : Place(t, i) \in 1 .. l
      /\ \A i, j \in 1 .. l : Place(t, i) = Place(t, j) => i = j
  <2>1. DOMAIN t = 1 .. l
    BY <1>1
  <2>2. \A i \in 1 .. l : t[i].seq \in Int
    BY <1>2
  <2> QED
    BY <2>1, <2>2, Places
<1> DEFINE chain == InChainOrder(t)
           bad(n) == ~(Contiguous(chain, n) /\ Linkage(chain, n) /\ Integrity(chain, n))
<1>4. DOMAIN chain = 1 .. l
  BY <1>1 DEF InChainOrder
<1>5. ASSUME NEW i \in 1 .. l PROVE chain[Place(t, i)] = t[i]
  <2>1. (CHOOSE x \in 1 .. l : Place(t, x) = Place(t, i)) = i
    BY <1>3
  <2> QED
    BY <1>1, <1>3, <2>1 DEF InChainOrder
<1>6. {n \in 1 .. l : bad(n)} = {}
  <2>1. {n \in DOMAIN chain : bad(n)} = {}
    BY DEF VerifyChain
  <2> QED
    BY <1>4, <2>1
<1>7. \A n \in 1 .. l : Contiguous(chain, n) /\ Integrity(chain, n)
  BY <1>6
<1> HIDE DEF chain
<1>8. ASSUME NEW i \in 1 .. l
      PROVE  t[i].seq = Place(t, i) - 1 /\ t[i].hash = LinkHash(t[i].seq, t[i].prev, t[i])
  BY <1>3, <1>5, <1>7 DEF Contiguous, Integrity
<1>9. \A i, j \in 1 .. l : t[i].seq = t[j].seq => i = j
  BY <1>3, <1>8
<1> QED
  BY <1>1, <1>3, <1>8, <1>9

\* A chain in id order is accepted to its last row.
LEMMA IntactAccepted ==
  ASSUME NEW t \in Seq(Row), IntactTo(t, Len(t))
  PROVE  VerifyChain(t) = Intact(t)
<1>1. PICK l \in Nat : l = Len(t) /\ DOMAIN t = 1 .. l
  OBVIOUS
<1>2. \A i \in 1 .. l : t[i].seq = i - 1
  BY <1>1 DEF IntactTo
<1>3. ASSUME NEW i \in 1 .. l PROVE Place(t, i) = i
  <2>1. {j \in 1 .. l : Before(t, j, i)} = 1 .. i - 1
    BY <1>2 DEF Before
  <2>2. Cardinality(1 .. i - 1) = i - 1
    <3>1. Cardinality(1 .. i - 1) = IF 1 > i - 1 THEN 0 ELSE i - 1 - 1 + 1
      BY FS_Interval
    <3> QED
      BY <3>1
  <2>3. Place(t, i) = Cardinality(1 .. i - 1) + 1
    BY <1>1, <2>1 DEF Place
  <2> QED
    BY <2>2, <2>3
<1>4. InChainOrder(t) = t
  <2>1. \A n \in 1 .. l : (CHOOSE i \in 1 .. l : Place(t, i) = n) = n
    BY <1>3
  <2>2. t = [n \in 1 .. l |-> t[n]]
    BY <1>1
  <2> QED
    BY <1>1, <2>1, <2>2 DEF InChainOrder
<1>5. {n \in DOMAIN t : ~(Contiguous(t, n) /\ Linkage(t, n) /\ Integrity(t, n))} = {}
  BY <1>1 DEF IntactTo, Contiguous, Linkage, Integrity
<1> QED
  BY <1>4, <1>5 DEF VerifyChain, Intact

-----------------------------------------------------------------------------
(* What it rejects                                                         *)

Links == [key : Keys, stamp : 0 .. MaxCalls, seq : Nat]

\* A digest tells what it was made of.
LEMMA HashTells ==
  ASSUME NEW p \in Digest, NEW q \in Digest, NEW e \in Row, NEW f \in Row,
         NEW m \in Nat, NEW n \in Nat, LinkHash(m, p, e) = LinkHash(n, q, f)
  PROVE  m = n /\ p = q /\ e.key = f.key
<1>1. PICK x \in Links : x = [key |-> e.key, stamp |-> e.stamp, seq |-> m]
  BY DEF Links, Row
<1>2. PICK y \in Links : y = [key |-> f.key, stamp |-> f.stamp, seq |-> n]
  BY DEF Links, Row
<1>3. Append(p, x) = Append(q, y) /\ p \in Seq(Links) /\ q \in Seq(Links)
  BY <1>1, <1>2 DEF LinkHash, Digest, Links
<1>4. p = q /\ x = y
  BY <1>3, AppendInjective
<1> QED
  BY <1>1, <1>2, <1>4

\* A row with the digest of another, or with one of its own that was changed.
LEMMA WrongDigest ==
  ASSUME NEW t \in Seq(Row), IntactTo(t, Len(t)), NEW u \in Seq(Row),
         NEW i \in 1 .. Len(u), NEW j \in 1 .. Len(t),
         u[i].hash = t[j].hash, u[i].seq # t[j].seq \/ u[i].key # t[j].key
  PROVE  ~VerifyChain(u).ok
<1> SUFFICES ASSUME VerifyChain(u).ok PROVE FALSE
  OBVIOUS
<1>1. u[i] \in Row /\ t[j] \in Row
  OBVIOUS
<1>2. u[i].prev \in Digest /\ t[j].prev \in Digest
  BY <1>1 DEF Row
<1>3. u[i].seq \in Nat /\ u[i].hash = LinkHash(u[i].seq, u[i].prev, u[i])
  BY AcceptedRows
<1>4. t[j].seq \in Nat /\ t[j].hash = LinkHash(t[j].seq, t[j].prev, t[j])
  BY DEF IntactTo
<1>5. LinkHash(u[i].seq, u[i].prev, u[i]) = LinkHash(t[j].seq, t[j].prev, t[j])
  BY <1>3, <1>4
<1>6. u[i].seq = t[j].seq /\ u[i].key = t[j].key
  <2> DEFINE p == u[i].prev q == t[j].prev m == u[i].seq n == t[j].seq
  <2>1. p \in Digest /\ q \in Digest /\ m \in Nat /\ n \in Nat
    BY <1>2, <1>3, <1>4
  <2> HIDE DEF p, q, m, n
  <2>2. LinkHash(m, p, u[i]) = LinkHash(n, q, t[j])
    BY <1>5 DEF p, q, m, n
  <2>3. m = n /\ u[i].key = t[j].key
    BY <1>1, <2>1, <2>2, HashTells
  <2> QED
    BY <2>3 DEF m, n
<1> QED
  BY <1>6

LEMMA EditedRejected ==
  ASSUME NEW t \in Seq(Row), IntactTo(t, Len(t)), NEW u \in Edited(t)
  PROVE  ~VerifyChain(u).ok
<1>1. PICK i \in DOMAIN t, k \in Keys : u = [t EXCEPT ![i].key = k]
  BY DEF Edited
<1>2. u # t /\ t[i] \in Row /\ i \in 1 .. Len(t)
  BY DEF Edited
<1>3. PICK r \in Row : r = [t[i] EXCEPT !.key = k]
  BY <1>2 DEF Row
<1>4. r.hash = t[i].hash /\ r.key = k
  BY <1>2, <1>3 DEF Row
<1>5. u = [t EXCEPT ![i] = r]
  BY <1>1, <1>3
<1>6. u \in Seq(Row) /\ Len(u) = Len(t) /\ u[i] = r
  BY <1>2, <1>5
<1>7. r.key # t[i].key
  <2>1. SUFFICES ASSUME r.key = t[i].key PROVE FALSE
    OBVIOUS
  <2>2. r = t[i]
    BY <1>2, <1>3, <1>4, <2>1 DEF Row
  <2> QED
    BY <1>2, <1>5, <2>2
<1> QED
  BY <1>2, <1>4, <1>6, <1>7, WrongDigest

LEMMA RemovedRejected ==
  ASSUME NEW t \in Seq(Row), IntactTo(t, Len(t)), NEW u \in Removed(t)
  PROVE  ~VerifyChain(u).ok
<1> SUFFICES ASSUME VerifyChain(u).ok PROVE FALSE
  OBVIOUS
<1>1. PICK l \in Nat : l = Len(t)
  OBVIOUS
<1>2. PICK i \in 1 .. l - 1 : u = RemoveAt(t, i)
  BY <1>1 DEF Removed
<1>3. PICK a \in Seq(Row) : a = SubSeq(t, 1, i - 1) /\ Len(a) = i - 1
  <2>1. \A x \in 1 .. i - 1 : t[x] \in Row
    BY <1>1
  <2>2. /\ SubSeq(t, 1, i - 1) \in Seq(Row)
        /\ Len(SubSeq(t, 1, i - 1)) = IF 1 <= i - 1 THEN i - 1 - 1 + 1 ELSE 0
    BY <2>1, SubSeqProperties
  <2>3. Len(SubSeq(t, 1, i - 1)) = i - 1
    BY <2>2
  <2> QED
    BY <2>2, <2>3
<1>4. PICK b \in Seq(Row) : /\ b = SubSeq(t, i + 1, l) /\ Len(b) = l - i
                            /\ b[l - i] = t[l]
  <2>1. \A x \in i + 1 .. l : t[x] \in Row
    BY <1>1
  <2>2. /\ SubSeq(t, i + 1, l) \in Seq(Row)
        /\ Len(SubSeq(t, i + 1, l)) = IF i + 1 <= l THEN l - (i + 1) + 1 ELSE 0
        /\ \A x \in 1 .. l - (i + 1) + 1 : SubSeq(t, i + 1, l)[x] = t[i + 1 + x - 1]
    BY <2>1, SubSeqProperties
  <2>3. l - i \in 1 .. l - (i + 1) + 1 /\ i + 1 + (l - i) - 1 = l
    OBVIOUS
  <2>4. SubSeq(t, i + 1, l)[l - i] = t[l] /\ Len(SubSeq(t, i + 1, l)) = l - i
    BY <2>2, <2>3
  <2> QED
    BY <2>2, <2>4
<1>5. u = a \o b
  BY <1>1, <1>2, <1>3, <1>4 DEF RemoveAt
<1>6. /\ u \in Seq(Row) /\ Len(u) = Len(a) + Len(b)
      /\ \A x \in 1 .. Len(a) + Len(b) : u[x] = IF x <= Len(a) THEN a[x] ELSE b[x - Len(a)]
  BY <1>5, ConcatProperties
<1>7. Len(u) = l - 1 /\ l - 1 \in 1 .. Len(u) /\ u[l - 1] = t[l]
  <2>1. Len(a) + Len(b) = l - 1 /\ l - 1 \in 1 .. Len(a) + Len(b) /\ ~(l - 1 <= Len(a))
        /\ l - 1 - Len(a) = l - i
    BY <1>3, <1>4
  <2> QED
    BY <1>4, <1>6, <2>1
<1>8. t[l].seq = l - 1
  BY <1>1 DEF IntactTo
<1>9. u[l - 1].seq \in 0 .. l - 1 - 1
  BY <1>6, <1>7, AcceptedRows
<1> QED
  BY <1>7, <1>8, <1>9

LEMMA ClosedRejected ==
  ASSUME NEW t \in Seq(Row), IntactTo(t, Len(t)), NEW u \in Closed(t)
  PROVE  ~VerifyChain(u).ok
<1>1. PICK l \in Nat : l = Len(t)
  OBVIOUS
<1> DEFINE Before1(i) == IF i = 1 THEN Genesis ELSE t[i - 1].hash
           Moved(i, n) == [t[n + 1] EXCEPT !.seq = @ - 1,
                                           !.prev = IF n > i THEN @ ELSE Before1(i)]
<1>2. PICK i \in 1 .. l - 1 : u = [n \in 1 .. l - 1 |-> IF n < i THEN t[n] ELSE Moved(i, n)]
  BY <1>1 DEF Closed
<1>3. \A n \in 1 .. l : t[n] \in Row /\ t[n].seq = n - 1
  BY <1>1 DEF IntactTo
<1>4. Before1(i) \in Digest
  <2>1. \A n \in 1 .. l : t[n].hash \in Digest
    BY <1>3 DEF Row
  <2> QED
    BY <2>1, NoHeadType
<1> HIDE DEF Before1
<1>5. ASSUME NEW n \in i .. l - 1
      PROVE  Moved(i, n) \in Row /\ Moved(i, n).hash = t[n + 1].hash /\ Moved(i, n).seq = n - 1
  <2>1. n + 1 \in 1 .. l /\ n + 1 - 1 = n /\ n - 1 \in Nat
    BY <1>1
  <2>2. t[n + 1] \in Row /\ t[n + 1].seq = n
    BY <1>3, <2>1
  <2>3. PICK p \in Digest : p = IF n > i THEN t[n + 1].prev ELSE Before1(i)
    BY <1>4, <2>2 DEF Row
  <2>4. Moved(i, n) = [t[n + 1] EXCEPT !.seq = n - 1, !.prev = p]
    BY <2>2, <2>3
  <2>5. PICK r \in Row : r = [t[n + 1] EXCEPT !.seq = n - 1, !.prev = p]
    BY <2>1, <2>2 DEF Row
  <2>6. r.hash = t[n + 1].hash /\ r.seq = n - 1
    BY <2>2, <2>5 DEF Row
  <2> QED
    BY <2>4, <2>5, <2>6
<1> HIDE DEF Moved
<1>6. u \in Seq(Row) /\ Len(u) = l - 1 /\ u[i] = Moved(i, i)
  <2>1. PICK k \in Nat : k = l - 1
    BY <1>2
  <2>2. u \in [1 .. k -> Row] /\ DOMAIN u = 1 .. k
    BY <1>2, <1>3, <1>5, <2>1
  <2>3. u \in Seq(Row) /\ Len(u) = k
    BY <2>2
  <2> QED
    BY <1>2, <2>1, <2>3
<1>7. u[i].hash = t[i + 1].hash /\ u[i].seq = i - 1 /\ t[i + 1].seq = i
  BY <1>3, <1>5, <1>6
<1>8. i \in 1 .. Len(u) /\ i + 1 \in 1 .. Len(t) /\ u[i].seq # t[i + 1].seq
  BY <1>1, <1>6, <1>7
<1> QED
  BY <1>6, <1>7, <1>8, WrongDigest

LEMMA ExchangedRejected ==
  ASSUME NEW t \in Seq(Row), IntactTo(t, Len(t)), NEW u \in Exchanged(t)
  PROVE  ~VerifyChain(u).ok
<1>1. PICK i \in DOMAIN t, j \in DOMAIN t : u = Misplaced(t, i, j)
  BY DEF Exchanged
<1>2. u # t /\ t[i] \in Row /\ t[j] \in Row /\ i \in 1 .. Len(t) /\ j \in 1 .. Len(t)
  <2>1. u # t
    BY DEF Exchanged
  <2> QED
    BY <2>1
<1>3. PICK r \in Row : r = [t[j] EXCEPT !.seq = t[i].seq, !.prev = t[i].prev]
  BY <1>2 DEF Row
<1>4. r.hash = t[j].hash /\ r.seq = t[i].seq /\ u = [t EXCEPT ![i] = r]
  BY <1>1, <1>2, <1>3 DEF Row, Misplaced
<1>5. u \in Seq(Row) /\ Len(u) = Len(t) /\ u[i] = r
  BY <1>2, <1>4
<1>6. i # j
  <2>1. SUFFICES ASSUME i = j PROVE FALSE
    OBVIOUS
  <2>2. r = t[i]
    BY <1>2, <1>3, <2>1 DEF Row
  <2> QED
    BY <1>2, <1>4, <2>2
<1>7. t[i].seq # t[j].seq
  BY <1>2, <1>6 DEF IntactTo
<1> QED
  BY <1>2, <1>4, <1>5, <1>7, WrongDigest

LEMMA InsertedRejected ==
  ASSUME NEW t \in Seq(Row), IntactTo(t, Len(t)), NEW u \in Inserted(t)
  PROVE  ~VerifyChain(u).ok
<1>1. PICK l \in Nat : l = Len(t) /\ DOMAIN t = 1 .. l
  OBVIOUS
<1>2. PICK i \in 1 .. l : \E s \in {NoSeq, i - 1, i} : u = InsertAt(t, i, [t[i] EXCEPT !.seq = s])
  BY <1>1 DEF Inserted
<1>3. PICK s \in {NoSeq, i - 1, i} : u = InsertAt(t, i, [t[i] EXCEPT !.seq = s])
  BY <1>2
<1>4. t[i] \in Row /\ t[i].seq = i - 1
  BY <1>1 DEF IntactTo
<1>5. PICK r \in Row : r = [t[i] EXCEPT !.seq = s]
  <2>1. s \in Nat \cup {NoSeq}
    BY <1>3
  <2> QED
    BY <1>4, <2>1 DEF Row
<1>6. r.hash = t[i].hash /\ r.seq = s
  BY <1>4, <1>5 DEF Row
<1>7. PICK a \in Seq(Row) : a = SubSeq(t, 1, i - 1) /\ Len(a) = i - 1
  <2>1. \A x \in 1 .. i - 1 : t[x] \in Row
    BY <1>1
  <2>2. /\ SubSeq(t, 1, i - 1) \in Seq(Row)
        /\ Len(SubSeq(t, 1, i - 1)) = IF 1 <= i - 1 THEN i - 1 - 1 + 1 ELSE 0
    BY <2>1, SubSeqProperties
  <2>3. Len(SubSeq(t, 1, i - 1)) = i - 1
    BY <2>2
  <2> QED
    BY <2>2, <2>3
<1>8. PICK b \in Seq(Row) : b = SubSeq(t, i, l) /\ Len(b) = l - i + 1 /\ b[1] = t[i]
  <2>1. \A x \in i .. l : t[x] \in Row
    BY <1>1
  <2>2. /\ SubSeq(t, i, l) \in Seq(Row)
        /\ Len(SubSeq(t, i, l)) = IF i <= l THEN l - i + 1 ELSE 0
        /\ \A x \in 1 .. l - i + 1 : SubSeq(t, i, l)[x] = t[i + x - 1]
    BY <2>1, SubSeqProperties
  <2>3. 1 \in 1 .. l - i + 1 /\ i + 1 - 1 = i
    OBVIOUS
  <2>4. SubSeq(t, i, l)[1] = t[i] /\ Len(SubSeq(t, i, l)) = l - i + 1
    BY <2>2, <2>3
  <2> QED
    BY <2>2, <2>4
<1>9. PICK one \in Seq(Row) : one = <<r>> /\ Len(one) = 1 /\ one[1] = r
  <2>1. <<r>> \in Seq(Row)
    OBVIOUS
  <2>2. Len(<<r>>) = 1 /\ <<r>>[1] = r
    OBVIOUS
  <2> QED
    BY <2>1, <2>2
<1>10. u = (a \o one) \o b
  BY <1>1, <1>3, <1>5, <1>7, <1>8, <1>9 DEF InsertAt
<1>11. PICK c \in Seq(Row) : c = a \o one /\ Len(c) = i /\ c[i] = r
  <2>1. /\ a \o one \in Seq(Row) /\ Len(a \o one) = Len(a) + Len(one)
        /\ \A x \in 1 .. Len(a) + Len(one) :
             (a \o one)[x] = IF x <= Len(a) THEN a[x] ELSE one[x - Len(a)]
    BY ConcatProperties
  <2>2. Len(a) + Len(one) = i /\ i \in 1 .. Len(a) + Len(one) /\ ~(i <= Len(a)) /\ i - Len(a) = 1
    BY <1>7, <1>9
  <2>3. Len(a \o one) = i /\ (a \o one)[i] = r
    BY <1>9, <2>1, <2>2
  <2> QED
    BY <2>1, <2>3
<1>12. /\ u \in Seq(Row) /\ Len(u) = Len(c) + Len(b)
       /\ \A x \in 1 .. Len(c) + Len(b) : u[x] = IF x <= Len(c) THEN c[x] ELSE b[x - Len(c)]
  <2>1. u = c \o b
    BY <1>10, <1>11
  <2> QED
    BY <2>1, ConcatProperties
<1>13. Len(u) = l + 1 /\ u[i] = r /\ u[i + 1] = t[i]
  <2>1. /\ Len(c) + Len(b) = l + 1 /\ i \in 1 .. l + 1 /\ i + 1 \in 1 .. l + 1
        /\ i <= Len(c) /\ ~(i + 1 <= Len(c)) /\ i + 1 - Len(c) = 1
    BY <1>8, <1>11
  <2>2. i \in 1 .. Len(c) + Len(b) /\ i + 1 \in 1 .. Len(c) + Len(b)
    BY <2>1
  <2>3. u[i] = c[i]
    BY <1>12, <2>1, <2>2
  <2>4. u[i + 1] = b[i + 1 - Len(c)]
    BY <1>12, <2>1, <2>2
  <2> QED
    BY <1>8, <1>11, <1>12, <2>1, <2>3, <2>4
<1>14. i \in 1 .. Len(u) /\ i + 1 \in 1 .. Len(u) /\ i # i + 1
  BY <1>13
<1>15. CASE s = i - 1
  <2>1. u[i].seq = u[i + 1].seq
    BY <1>4, <1>6, <1>13, <1>15
  <2> QED
    BY <1>12, <1>14, <2>1, AcceptedRows
<1>16. CASE s # i - 1
  BY <1>1, <1>4, <1>6, <1>12, <1>13, <1>14, <1>16, WrongDigest
<1> QED
  BY <1>15, <1>16

\* At every moment, whatever the writers and the outages: the table is accepted to its
\* last row, and none that differs from it by a change, a removal, a removal closed up,
\* an exchange or an insertion is.
THEOREM TamperingIsEvident == Spec => []TamperEvident
<1>1. IInv => TamperEvident
  <2> SUFFICES ASSUME IInv, migrated
               PROVE  /\ VerifyChain(rows) = Intact(rows)
                      /\ \A table \in Tampered(rows) : ~VerifyChain(table).ok
    BY DEF TamperEvident
  <2>1. rows \in Seq(Row) /\ IntactTo(rows, Len(rows))
    BY DEF IInv, TypeOK, TableInv, ChainedOrNot, LinkedTo
  <2> QED
    BY <2>1, IntactAccepted, EditedRejected, RemovedRejected, ClosedRejected,
       ExchangedRejected, InsertedRejected DEF Tampered
<1> QED
  BY <1>1, Invariance, PTL
=============================================================================
