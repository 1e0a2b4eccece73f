--------------------------- MODULE EvidenceChain ---------------------------
(***************************************************************************)
(* One hash-chained table of storage/sqlite_store.py (findings, policy     *)
(* decisions, triage annotations, model lifecycle) and the threads of the  *)
(* processes that write it: the ingestion service, the API, the scripts.   *)
(*                                                                         *)
(* A process has one SQLiteEventStore, hence one _chain_lock, and brings   *)
(* the schema up to date when it opens it (storage/migrations.py).  SQLite *)
(* allows one write transaction on the file at a time, so one draft of the *)
(* table is enough; both locks are held from one program point to another  *)
(* and are no variables of their own.  SHA-256 is taken as collision-free: *)
(* a digest is the history it commits to, the links before it included.    *)
(***************************************************************************)
EXTENDS Integers, Sequences

CONSTANTS
  Processes, Writers,
  ProcessOf,   \* the process of a writer thread
  Keys,        \* provenance hashes, or contents where there are none
  Keyed,       \* whether the table has a provenance hash: only findings do
  Legacy,      \* keys of the rows that were there before the chain was
  MaxCalls,    \* bound: write calls
  MaxOutages   \* bound: crashes of a process and losses of power

ASSUME WritersAssumption == ProcessOf \in [Writers -> Processes] /\ Keys # {}

ASSUME TableAssumption ==
  /\ Keyed \in BOOLEAN
  /\ Legacy \in Seq(Keys)
  /\ Keyed => \A i, j \in DOMAIN Legacy : Legacy[i] = Legacy[j] => i = j

ASSUME BoundsAssumption == MaxCalls \in Nat /\ MaxOutages \in Nat

VARIABLES
  rows,      \* the committed table, by id
  migrated,  \* whether schema_migrations has the chain migration
  durable,   \* both of them as of the last checkpoint
  draft,     \* the table as the open write transaction sees it
  phase,     \* where a process is with opening its store
  pc,        \* where a writer is in its write call
  item,      \* what the call writes
  head,      \* the chain head the call has read
  answer,    \* the id the last call returned, 0 for none
  other,     \* whether a write that is not to this table holds the database
  calls,     \* calls made: the clock the timestamps are read from
  outages    \* uses of the bound

vars == <<rows, migrated, durable, draft, phase, pc, item, head, answer, other,
          calls, outages>>

database == <<rows, migrated, durable>>
threads  == <<pc, item, head, answer>>
bounds   == <<calls, outages>>

-----------------------------------------------------------------------------
(* Links                                                                   *)

NoSeq   == -1      \* chain_seq IS NULL
Genesis == <<>>    \* GENESIS_PREV_HASH
NoHead  == [seq |-> NoSeq, hash |-> Genesis]
Blank   == [key |-> CHOOSE k \in Keys : TRUE, stamp |-> 0, seq |-> 0]

\* Mutant: the content is left out of the digest.
HashOfPosition(seq, prev, entry) == Append(prev, [Blank EXCEPT !.seq = seq])

LinkHash(seq, prev, entry) ==
  Append(prev, [key |-> entry.key, stamp |-> entry.stamp, seq |-> seq])

Unlinked(entry) ==
  [key |-> entry.key, stamp |-> entry.stamp, seq |-> NoSeq, prev |-> Genesis, hash |-> Genesis]

\* Mutant: every row starts a chain of its own.
LinkToGenesis(h, entry) ==
  LET seq == h.seq + 1
  IN [key |-> entry.key, stamp |-> entry.stamp,
      seq |-> seq, prev |-> Genesis, hash |-> LinkHash(seq, Genesis, entry)]

\* The row that follows head h in the chain.
NextLink(h, entry) ==
  LET seq  == h.seq + 1
      prev == IF h.seq = NoSeq THEN Genesis ELSE h.hash
  IN [key |-> entry.key, stamp |-> entry.stamp,
      seq |-> seq, prev |-> prev, hash |-> LinkHash(seq, prev, entry)]

Linked(table) == {i \in DOMAIN table : table[i].seq # NoSeq}

\* ORDER BY chain_seq DESC LIMIT 1, over the rows that have one.
HeadOf(table) ==
  IF Linked(table) = {} THEN NoHead
  ELSE LET last == CHOOSE i \in Linked(table) :
                     \A j \in Linked(table) : table[j].seq <= table[i].seq
       IN [seq |-> table[last].seq, hash |-> table[last].hash]

Init ==
  /\ rows = [i \in DOMAIN Legacy |-> Unlinked([key |-> Legacy[i], stamp |-> 0])]
  /\ migrated = FALSE
  /\ durable = [rows |-> rows, migrated |-> FALSE]
  /\ draft = <<>>
  /\ phase = [p \in Processes |-> "closed"]
  /\ pc = [w \in Writers |-> "idle"]
  /\ item = [w \in Writers |-> [key |-> Blank.key, stamp |-> 0]]
  /\ head = [w \in Writers |-> NoHead]
  /\ answer = [w \in Writers |-> 0]
  /\ other = FALSE
  /\ calls = 0 /\ outages = 0

-----------------------------------------------------------------------------
(* Locks                                                                   *)

InTransaction(w) == pc[w] \in {"head", "link", "commit"}
HoldsChain(w)    == pc[w] \in {"dedup", "insert"} \/ InTransaction(w)

\* SQLite's write lock is free.
DatabaseFree ==
  /\ ~other
  /\ \A p \in Processes : phase[p] # "migrating"
  /\ \A w \in Writers : ~InTransaction(w)

\* The _chain_lock of process p is free.
ChainFree(p) == \A w \in Writers : ProcessOf[w] = p => ~HoldsChain(w)

-----------------------------------------------------------------------------
(* Opening a store: migrate() and _backfill_chain                          *)

\* The schema version is read outside any transaction.
ReadVersion(p) ==
  /\ phase[p] = "closed"
  /\ phase' = [phase EXCEPT ![p] = IF migrated THEN "open" ELSE "behind"]
  /\ UNCHANGED <<database, draft, threads, other, bounds>>

\* BEGIN IMMEDIATE, then the version again: another process may have been first.
BeginMigration(p) ==
  /\ phase[p] = "behind" /\ DatabaseFree
  /\ IF migrated
     THEN phase' = [phase EXCEPT ![p] = "open"] /\ UNCHANGED draft
     ELSE phase' = [phase EXCEPT ![p] = "migrating"] /\ draft' = rows
  /\ UNCHANGED <<database, threads, other, bounds>>

\* ORDER BY id ASC over the rows without a chain_seq.
FirstPending(i) ==
  draft[i].seq = NoSeq /\ \A j \in DOMAIN draft : j < i => draft[j].seq # NoSeq

BackfillRow(p) ==
  /\ phase[p] = "migrating"
  /\ \E i \in DOMAIN draft :
       /\ FirstPending(i)
       /\ draft' = [draft EXCEPT ![i] = NextLink(HeadOf(draft), draft[i])]
  /\ UNCHANGED <<database, phase, threads, other, bounds>>

CommitMigration(p) ==
  /\ phase[p] = "migrating"
  /\ Linked(draft) = DOMAIN draft
  /\ rows' = draft /\ migrated' = TRUE /\ draft' = <<>>
  /\ phase' = [phase EXCEPT ![p] = "open"]
  /\ UNCHANGED <<durable, threads, other, bounds>>

\* A locked or failing database rolls the migration back and ends the process.
MigrationFails(p) ==
  /\ phase[p] \in {"behind", "migrating"}
  /\ draft' = IF phase[p] = "migrating" THEN <<>> ELSE draft
  /\ phase' = [phase EXCEPT ![p] = "closed"]
  /\ UNCHANGED <<database, threads, other, bounds>>

Open(p) == ReadVersion(p) \/ BeginMigration(p) \/ BackfillRow(p) \/ CommitMigration(p)

-----------------------------------------------------------------------------
(* write_detection_finding, write_policy_decision, write_triage_annotation *)

\* The caller stamps the row before it asks for the lock.
Call(w) ==
  /\ phase[ProcessOf[w]] = "open" /\ pc[w] = "idle" /\ calls < MaxCalls
  /\ \E k \in Keys : item' = [item EXCEPT ![w] = [key |-> k, stamp |-> calls + 1]]
  /\ pc' = [pc EXCEPT ![w] = "lock"]
  /\ answer' = [answer EXCEPT ![w] = 0]
  /\ calls' = calls + 1
  /\ UNCHANGED <<database, draft, phase, head, other, outages>>

Acquire(w) ==
  /\ pc[w] = "lock" /\ ChainFree(ProcessOf[w])
  /\ pc' = [pc EXCEPT ![w] = IF Keyed THEN "dedup" ELSE "insert"]
  /\ UNCHANGED <<database, draft, phase, item, head, answer, other, bounds>>

\* Mutant: the id of the newest row is returned, whosever it is.
AnswerNewest(w, i) == answer' = [answer EXCEPT ![w] = Len(rows)]

AnswerExisting(w, i) == answer' = [answer EXCEPT ![w] = i]

\* SELECT by provenance hash, before the transaction has begun.
Dedup(w) ==
  /\ pc[w] = "dedup"
  /\ \/ \E i \in DOMAIN rows :
          /\ rows[i].key = item[w].key
          /\ AnswerExisting(w, i)
          /\ pc' = [pc EXCEPT ![w] = "idle"]
     \/ /\ \A i \in DOMAIN rows : rows[i].key # item[w].key
        /\ pc' = [pc EXCEPT ![w] = "insert"]
        /\ UNCHANGED answer
  /\ UNCHANGED <<database, draft, phase, item, head, other, bounds>>

\* Mutant: the table has no unique index on the provenance hash.
AnyKey(w) == TRUE

\* The unique index on the provenance hash.
UniqueKey(w) == Keyed => \A i \in DOMAIN rows : rows[i].key # item[w].key

\* sqlite3.IntegrityError
Refused(w) ==
  /\ pc[w] = "insert" /\ DatabaseFree /\ ~UniqueKey(w)
  /\ pc' = [pc EXCEPT ![w] = "idle"]
  /\ UNCHANGED <<database, draft, phase, item, head, answer, other, bounds>>

\* INSERT begins the transaction: it takes the write lock and the latest commit.
Insert(w) ==
  /\ pc[w] = "insert" /\ DatabaseFree /\ UniqueKey(w)
  /\ draft' = Append(rows, Unlinked(item[w]))
  /\ pc' = [pc EXCEPT ![w] = "head"]
  /\ UNCHANGED <<database, phase, item, head, answer, other, bounds>>

\* _extend_chain: the head is read inside the transaction ...
ReadHead(w) ==
  /\ pc[w] = "head"
  /\ head' = [head EXCEPT ![w] = HeadOf(draft)]
  /\ pc' = [pc EXCEPT ![w] = "link"]
  /\ UNCHANGED <<database, draft, phase, item, answer, other, bounds>>

\* Mutant: the link is written on a connection of its own.
LinkOnAnotherConnection(w) ==
  /\ pc[w] = "link" /\ DatabaseFree
  /\ draft' = [draft EXCEPT ![Len(draft)] = NextLink(head[w], draft[Len(draft)])]
  /\ pc' = [pc EXCEPT ![w] = "commit"]
  /\ UNCHANGED <<database, phase, item, head, answer, other, bounds>>

\* ... and the link written back to the new row, under the unique index on chain_seq.
Link(w) ==
  /\ pc[w] = "link"
  /\ \A i \in DOMAIN draft : draft[i].seq # head[w].seq + 1
  /\ draft' = [draft EXCEPT ![Len(draft)] = NextLink(head[w], draft[Len(draft)])]
  /\ pc' = [pc EXCEPT ![w] = "commit"]
  /\ UNCHANGED <<database, phase, item, head, answer, other, bounds>>

Commit(w) ==
  /\ pc[w] = "commit"
  /\ rows' = draft /\ draft' = <<>>
  /\ answer' = [answer EXCEPT ![w] = Len(draft)]
  /\ pc' = [pc EXCEPT ![w] = "idle"]
  /\ UNCHANGED <<migrated, durable, phase, item, head, other, bounds>>

\* A busy timeout or an I/O error rolls back and is raised.
Fail(w) ==
  /\ HoldsChain(w)
  /\ pc' = [pc EXCEPT ![w] = "idle"]
  /\ draft' = IF InTransaction(w) THEN <<>> ELSE draft
  /\ UNCHANGED <<database, phase, item, head, answer, other, bounds>>

Step(w) == \/ Acquire(w) \/ Dedup(w) \/ Insert(w) \/ Refused(w)
           \/ ReadHead(w) \/ Link(w) \/ Commit(w)

-----------------------------------------------------------------------------
(* The rest of the database, and its end                                   *)

\* Event inserts, retention, VACUUM: writes to other tables of the file.
OtherBegin ==
  /\ DatabaseFree
  /\ other' = TRUE
  /\ UNCHANGED <<database, draft, phase, threads, bounds>>

OtherEnd ==
  /\ other
  /\ other' = FALSE
  /\ UNCHANGED <<database, draft, phase, threads, bounds>>

\* synchronous = NORMAL: commits reach the disk at a WAL checkpoint.
Checkpoint ==
  /\ durable' = [rows |-> rows, migrated |-> migrated]
  /\ durable' # durable
  /\ UNCHANGED <<rows, migrated, draft, phase, threads, other, bounds>>

\* The threads of the processes in dead are gone, with their transaction.
Die(dead) ==
  /\ phase' = [p \in Processes |-> IF p \in dead THEN "closed" ELSE phase[p]]
  /\ pc' = [w \in Writers |-> IF ProcessOf[w] \in dead THEN "idle" ELSE pc[w]]
  /\ answer' = [w \in Writers |-> IF ProcessOf[w] \in dead THEN 0 ELSE answer[w]]
  /\ draft' = IF \/ \E w \in Writers : ProcessOf[w] \in dead /\ InTransaction(w)
                 \/ \E p \in dead : phase[p] = "migrating"
              THEN <<>> ELSE draft
  /\ outages < MaxOutages /\ outages' = outages + 1
  /\ UNCHANGED <<item, head, calls>>

Crash(p) ==
  /\ phase[p] # "closed"
  /\ Die({p})
  /\ UNCHANGED <<database, other>>

\* The commits since the checkpoint are lost, from the latest on.
PowerLoss ==
  /\ Die(Processes)
  /\ other' = FALSE
  /\ \/ /\ \E n \in Len(durable.rows) .. Len(rows) : rows' = SubSeq(rows, 1, n)
        /\ UNCHANGED migrated
     \/ rows' = durable.rows /\ migrated' = durable.migrated
  /\ durable' = [rows |-> rows', migrated |-> migrated']

-----------------------------------------------------------------------------

Next ==
  \/ \E p \in Processes : Open(p) \/ MigrationFails(p) \/ Crash(p)
  \/ \E w \in Writers : Call(w) \/ Step(w) \/ Fail(w)
  \/ OtherBegin \/ OtherEnd \/ Checkpoint \/ PowerLoss

Spec == Init /\ [][Next]_vars

\* Threads run, transactions end, and a lock that keeps becoming free is got.
FairSpec ==
  /\ Spec /\ WF_vars(OtherEnd)
  /\ \A p \in Processes : WF_vars(BackfillRow(p) \/ CommitMigration(p))
  /\ \A w \in Writers : /\ WF_vars(Dedup(w) \/ ReadHead(w) \/ Link(w) \/ Commit(w))
                        /\ SF_vars(Acquire(w))
                        /\ SF_vars(Insert(w) \/ Refused(w))

-----------------------------------------------------------------------------

Entry  == [key : Keys, stamp : 0 .. MaxCalls]
Digest == Seq([key : Keys, stamp : 0 .. MaxCalls, seq : Nat])
Row    == [key : Keys, stamp : 0 .. MaxCalls, seq : Nat \cup {NoSeq}, prev : Digest, hash : Digest]
ChainHead == [seq : Nat \cup {NoSeq}, hash : Digest]

\* Every variable has its type, and there is a draft only in a transaction.
TypeOK ==
  /\ rows \in Seq(Row) /\ migrated \in BOOLEAN
  /\ durable \in [rows : Seq(Row), migrated : BOOLEAN]
  /\ draft \in Seq(Row)
  /\ phase \in [Processes -> {"closed", "behind", "migrating", "open"}]
  /\ pc \in [Writers -> {"idle", "lock", "dedup", "insert", "head", "link", "commit"}]
  /\ item \in [Writers -> Entry] /\ head \in [Writers -> ChainHead]
  /\ answer \in [Writers -> Nat] /\ other \in BOOLEAN
  /\ calls \in 0 .. MaxCalls /\ outages \in 0 .. MaxOutages
  /\ draft # <<>> => \/ \E w \in Writers : InTransaction(w)
                     \/ \E p \in Processes : phase[p] = "migrating"

\* The first n rows are a chain: position, predecessor and digest of each agree.
IntactTo(table, n) ==
  \A i \in 1 .. n :
    /\ table[i].seq = i - 1
    /\ table[i].prev = IF i = 1 THEN Genesis ELSE table[i - 1].hash
    /\ table[i].hash = LinkHash(table[i].seq, table[i].prev, table[i])

\* "never a silent split": whatever threads and processes write at the same
\* time, and wherever one dies, the committed table is one chain in id order.
ChainIntact == migrated => IntactTo(rows, Len(rows))

\* A row id that was returned is that of the caller's own finding, whether it
\* was inserted or found there, and after the crash of any other process.
AnswerIsStored ==
  \A w \in Writers : answer[w] > 0 =>
    answer[w] <= Len(rows) /\ rows[answer[w]].key = item[w].key

\* Within one process a repeated finding is answered and never raised as an
\* error: what the SELECT saw still holds when the INSERT is made.
RepeatIsNoError == \A w \in Writers : pc[w] = "insert" => UniqueKey(w)

\* Reading by timestamp and id, "which is chain order".
ReadInChainOrder ==
  \A i, j \in DOMAIN rows : i < j => rows[i].stamp <= rows[j].stamp

\* Every write call returns or raises: the two locks and the migration's are
\* never waited for in a circle.
CallReturns == \A w \in Writers : pc[w] # "idle" ~> pc[w] = "idle"

\* The table, read as its entries, is an append-only log; commits at a
\* checkpoint are on disk.
EntryOf(r)    == [key |-> r.key, stamp |-> r.stamp]
SameFinding(e, f) == Keyed /\ e.key = f.key
Log == INSTANCE AppendOnlyLog
         WITH Same <- SameFinding,
              log  <- [i \in DOMAIN rows |-> EntryOf(rows[i])],
              kept <- Len(durable.rows)
ImplementsLog == Log!Spec
=============================================================================
